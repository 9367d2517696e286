--------------------------- MODULE SessionMeeting ---------------------------
(***************************************************************************)
(* One séance (a SessionMeeting document) and the rows that hang off it:   *)
(* its participants, the presence signatures with the quorum they make,    *)
(* and the requests to speak.                                              *)
(*                                                                         *)
(* A request is interrupted at every `await' on the database, so an action *)
(* is the code between two database calls.  Document.save() writes the     *)
(* whole copy that the request loaded; `mem' holds it, already changed.    *)
(* A request that is refused before it awaits again is a stuttering step.  *)
(***************************************************************************)
EXTENDS Naturals, FiniteSets

CONSTANTS
  Requests,    \* requests being served at a time; a slot is reused
  Senators,
  SeatCounts,  \* values of total_seats
  Quorums,     \* values of required_quorum_count
  MaxRows,     \* bound: participants, and requests to speak, of the séance
  None         \* Python's None

Rows == 1 .. MaxRows

Transitions ==
  [PLANIFIEE |-> {"OUVERTE"},
   OUVERTE   |-> {"SUSPENDUE", "CLOTUREE"},
   SUSPENDUE |-> {"OUVERTE", "CLOTUREE"},
   CLOTUREE  |-> {"ARCHIVEE"},
   ARCHIVEE  |-> {}]

Statuses == {"PLANIFIEE", "OUVERTE", "SUSPENDUE", "CLOTUREE", "ARCHIVEE"}
Sitting == {"OUVERTE", "SUSPENDUE"}
Closed == {"CLOTUREE", "ARCHIVEE"}
Editable == {"PLANIFIEE", "SUSPENDUE"}

SpeechTransitions ==
  [EN_ATTENTE |-> {"ACCORDEE", "REFUSEE", "EXPIREE"},
   ACCORDEE   |-> {"TERMINEE"},
   REFUSEE    |-> {},
   EXPIREE    |-> {},
   TERMINEE   |-> {}]

SpeechStatuses == {"EN_ATTENTE", "ACCORDEE", "REFUSEE", "EXPIREE", "TERMINEE"}

Seances == [status: Statuses, seats: SeatCounts, quorum: Quorums]
Participants == [user: Senators, votes: BOOLEAN]
Speeches == [user: Senators, status: SpeechStatuses]

ASSUME NumbersAssumption ==
  /\ SeatCounts \subseteq Nat \ {0}
  /\ Quorums \subseteq Nat \ {0}
  /\ MaxRows \in Nat
ASSUME NoneAssumption ==
  None \notin Seances \union Participants \union Speeches \union SeatCounts
              \union Quorums \union Senators \union Rows

VARIABLES
  seance,        \* the stored document
  participants,  \* the stored SessionParticipant rows
  signatures,    \* who has a PresenceSignature row (unique per séance and user)
  speeches,      \* the stored ParoleRequest rows
  pc,            \* where each request waits
  mem,           \* what it holds in memory meanwhile
  stale,         \* history: requests that act on something since overwritten
  lost           \* history: what such a request has written all the same

seanceVars ==
  <<seance, participants, signatures, speeches, pc, mem, stale, lost>>

Memory ==
  [doc: Seances \union Participants \union Speeches \union {None},
   user: Senators \union {None},
   row: Rows \union {None}]

Blank == [doc |-> None, user |-> None, row |-> None]

Admitted == {"signFind", "signInsert", "speakFind", "speakInsert"}
Seating == {"seatFind", "seatSave", "seatInsert"}
InFlight == {"save", "decide"} \union Admitted \union Seating

SeanceTypeOK ==
  /\ seance \in Seances
  /\ participants \in [Rows -> Participants \union {None}]
  /\ signatures \subseteq Senators
  /\ speeches \in [Rows -> Speeches \union {None}]
  /\ pc \in [Requests -> InFlight \union {"idle"}]
  /\ mem \in [Requests -> Memory]
  /\ \A r \in Requests :
       /\ pc[r] = "save" => mem[r].doc \in Seances
       /\ pc[r] = "decide" => mem[r].doc \in Speeches /\ mem[r].row \in Rows
       /\ pc[r] = "seatSave" => mem[r].doc \in Participants /\ mem[r].row \in Rows
       /\ pc[r] \in {"seatFind", "seatInsert"} => mem[r].doc \in Participants
       /\ pc[r] \in Admitted => mem[r].user \in Senators
  /\ stale \subseteq Requests
  /\ lost \subseteq {"seance", "shrunk", "seats", "presence", "parole"}

SeanceInit ==
  /\ \E s \in SeatCounts, q \in Quorums :
       /\ q <= s
       /\ seance = [status |-> "PLANIFIEE", seats |-> s, quorum |-> q]
  /\ participants = [i \in Rows |-> None]
  /\ signatures = {}
  /\ speeches = [i \in Rows |-> None]
  /\ pc = [r \in Requests |-> "idle"]
  /\ mem = [r \in Requests |-> Blank]
  /\ stale = {}
  /\ lost = {}

(***************************************************************************)
(* Requests.                                                               *)
(***************************************************************************)
Goto(r, label, m) ==
  /\ pc' = [pc EXCEPT ![r] = label]
  /\ mem' = [mem EXCEPT ![r] = m]

Finish(r) == Goto(r, "idle", Blank)

\* The reads of Q are overwritten by r, which is done with its own.
Outdate(r, Q) == stale' = (stale \union Q) \ {r}

Unsettles(r, kind) == lost' = IF r \in stale THEN lost \union {kind} ELSE lost

\* Rows are stored under the next free id.
NextRow(table, i) == table[i] = None /\ \A j \in Rows : j < i => table[j] # None

(***************************************************************************)
(* The séance: open, suspend, close, archive, set_mode and patch.          *)
(***************************************************************************)
TransitionLoad(r, target) ==
  /\ pc[r] = "idle"
  /\ target \in Transitions[seance.status]
  /\ Goto(r, "save", [Blank EXCEPT !.doc = [seance EXCEPT !.status = target]])
  /\ UNCHANGED <<seance, participants, signatures, speeches, stale, lost>>

SetModeLoad(r) ==
  /\ pc[r] = "idle"
  /\ Goto(r, "save", [Blank EXCEPT !.doc = seance])
  /\ UNCHANGED <<seance, participants, signatures, speeches, stale, lost>>

Given(value, default) == IF value = None THEN default ELSE value

PatchedAll(s, q) ==   \* variant: what the payload leaves out is erased
  [seance EXCEPT !.seats = s, !.quorum = q]

Patched(s, q) ==
  [seance EXCEPT !.seats = Given(s, @), !.quorum = Given(q, @)]

\* The quorum is checked only when the payload names one.
PatchLoad(r, s, q) ==
  /\ pc[r] = "idle"
  /\ seance.status \in Editable
  /\ q # None => q <= Given(s, seance.seats)
  /\ Goto(r, "save", [Blank EXCEPT !.doc = Patched(s, q)])
  /\ lost' = IF s # None /\ q = None /\ s < seance.seats
             THEN lost \union {"shrunk"} ELSE lost
  /\ UNCHANGED <<seance, participants, signatures, speeches, stale>>

\* Whose read of the séance no longer holds once it is `doc'.
Misled(doc) ==
  {q \in Requests :
     \/ pc[q] = "save" /\ doc # seance
     \/ pc[q] \in Admitted /\ doc.status \notin Sitting
     \/ pc[q] \in Seating /\ doc.status \in Closed}

SeanceSaveFields(r) ==   \* variant: total_seats is not among the fields saved
  /\ pc[r] = "save"
  /\ seance' = [mem[r].doc EXCEPT !.seats = seance.seats]
  /\ Unsettles(r, "seance")
  /\ Outdate(r, Misled(mem[r].doc))
  /\ Finish(r)
  /\ UNCHANGED <<participants, signatures, speeches>>

SeanceSave(r) ==
  /\ pc[r] = "save"
  /\ seance' = mem[r].doc
  /\ Unsettles(r, "seance")
  /\ Outdate(r, Misled(mem[r].doc))
  /\ Finish(r)
  /\ UNCHANGED <<participants, signatures, speeches>>

(***************************************************************************)
(* assign_participant: an existing row of the user is updated.  No unique  *)
(* index holds.                                                            *)
(***************************************************************************)
SeatLoad(r, u, votes) ==
  /\ pc[r] = "idle"
  /\ seance.status \notin Closed
  /\ Goto(r, "seatFind", [Blank EXCEPT !.doc = [user |-> u, votes |-> votes]])
  /\ UNCHANGED <<seance, participants, signatures, speeches, stale, lost>>

RowsOf(table, u) == {i \in Rows : table[i] # None /\ table[i].user = u}

SeatFind(r) ==
  /\ pc[r] = "seatFind"
  /\ LET found == RowsOf(participants, mem[r].doc.user)
     IN \/ found = {} /\ Goto(r, "seatInsert", mem[r])
        \/ \E i \in found : Goto(r, "seatSave", [mem[r] EXCEPT !.row = i])
  /\ UNCHANGED <<seance, participants, signatures, speeches, stale, lost>>

SeatSave(r) ==
  /\ pc[r] = "seatSave"
  /\ participants' = [participants EXCEPT ![mem[r].row] = mem[r].doc]
  /\ Unsettles(r, "seats")
  /\ Outdate(r, {})
  /\ Finish(r)
  /\ UNCHANGED <<seance, signatures, speeches>>

SeatInsert(r) ==
  /\ pc[r] = "seatInsert"
  /\ \E i \in Rows :
       /\ NextRow(participants, i)
       /\ participants' = [participants EXCEPT ![i] = mem[r].doc]
  /\ Unsettles(r, "seats")
  /\ Outdate(r, {q \in Requests :
                   pc[q] = "seatInsert" /\ mem[q].doc.user = mem[r].doc.user})
  /\ Finish(r)
  /\ UNCHANGED <<seance, signatures, speeches>>

(***************************************************************************)
(* sign, and the quorum.                                                   *)
(***************************************************************************)
SignLoadAnytime(r, u) ==   \* variant: the status of the séance is not checked
  /\ pc[r] = "idle"
  /\ Goto(r, "signFind", [Blank EXCEPT !.user = u])
  /\ UNCHANGED <<seance, participants, signatures, speeches, stale, lost>>

SignLoad(r, u) ==
  /\ pc[r] = "idle"
  /\ seance.status \in Sitting
  /\ Goto(r, "signFind", [Blank EXCEPT !.user = u])
  /\ UNCHANGED <<seance, participants, signatures, speeches, stale, lost>>

\* A signature that exists is returned, whatever became of the séance.
SignFind(r) ==
  /\ pc[r] = "signFind"
  /\ IF mem[r].user \in signatures
     THEN Finish(r) /\ Outdate(r, {})
     ELSE Goto(r, "signInsert", mem[r]) /\ UNCHANGED stale
  /\ UNCHANGED <<seance, participants, signatures, speeches, lost>>

\* The unique index refuses a second row: DuplicateKeyError, HTTP 500.
SignInsert(r) ==
  /\ pc[r] = "signInsert"
  /\ IF mem[r].user \in signatures
     THEN UNCHANGED <<signatures, lost>>
     ELSE /\ signatures' = signatures \union {mem[r].user}
          /\ Unsettles(r, "presence")
  /\ Outdate(r, {})
  /\ Finish(r)
  /\ UNCHANGED <<seance, participants, speeches>>

\* What compute answers when nothing changes while it counts.
Quorum ==
  [signed |-> Cardinality(signatures),
   voting |-> Cardinality({i \in Rows : participants[i] # None /\ participants[i].votes}),
   required |-> seance.quorum,
   seats |-> seance.seats,
   met |-> Cardinality(signatures) >= seance.quorum]

(***************************************************************************)
(* Requests to speak: request, dispatch and terminate.                     *)
(***************************************************************************)
SpeakLoad(r, u) ==
  /\ pc[r] = "idle"
  /\ seance.status \in Sitting
  /\ Goto(r, "speakFind", [Blank EXCEPT !.user = u])
  /\ UNCHANGED <<seance, participants, signatures, speeches, stale, lost>>

Pending(u) == {i \in RowsOf(speeches, u) : speeches[i].status = "EN_ATTENTE"}

SpeakFindAny(r) ==   \* variant: a pending request is not looked for
  /\ pc[r] = "speakFind"
  /\ Goto(r, "speakInsert", mem[r])
  /\ UNCHANGED <<seance, participants, signatures, speeches, stale, lost>>

SpeakFind(r) ==
  /\ pc[r] = "speakFind"
  /\ IF Pending(mem[r].user) # {}
     THEN Finish(r) /\ Outdate(r, {})
     ELSE Goto(r, "speakInsert", mem[r]) /\ UNCHANGED stale
  /\ UNCHANGED <<seance, participants, signatures, speeches, lost>>

SpeakInsert(r) ==
  /\ pc[r] = "speakInsert"
  /\ \E i \in Rows :
       /\ NextRow(speeches, i)
       /\ speeches' = [speeches EXCEPT
                         ![i] = [user |-> mem[r].user, status |-> "EN_ATTENTE"]]
  /\ Unsettles(r, "parole")
  /\ Outdate(r, {q \in Requests :
                   pc[q] = "speakInsert" /\ mem[q].user = mem[r].user})
  /\ Finish(r)
  /\ UNCHANGED <<seance, participants, signatures>>

DecideLoadAgain(r, i, decision) ==   \* variant: a refusal may be reconsidered
  /\ pc[r] = "idle"
  /\ speeches[i] # None
  /\ speeches[i].status # "TERMINEE"
  /\ decision # "EN_ATTENTE"
  /\ Goto(r, "decide", [Blank EXCEPT !.row = i,
                                     !.doc = [speeches[i] EXCEPT !.status = decision]])
  /\ UNCHANGED <<seance, participants, signatures, speeches, stale, lost>>

DecideLoad(r, i, decision) ==
  /\ pc[r] = "idle"
  /\ speeches[i] # None
  /\ decision \in SpeechTransitions[speeches[i].status]
  /\ Goto(r, "decide", [Blank EXCEPT !.row = i,
                                     !.doc = [speeches[i] EXCEPT !.status = decision]])
  /\ UNCHANGED <<seance, participants, signatures, speeches, stale, lost>>

DecideSave(r) ==
  /\ pc[r] = "decide"
  /\ speeches' = [speeches EXCEPT ![mem[r].row] = mem[r].doc]
  /\ Unsettles(r, "parole")
  /\ Outdate(r, {q \in Requests : pc[q] = "decide" /\ mem[q].row = mem[r].row})
  /\ Finish(r)
  /\ UNCHANGED <<seance, participants, signatures>>

\* A database call raises, or the worker dies.
Fails(r) ==
  /\ pc[r] # "idle"
  /\ Outdate(r, {})
  /\ Finish(r)
  /\ UNCHANGED <<seance, participants, signatures, speeches, lost>>

(***************************************************************************)
(* The next-state relation, by who asks for what.                          *)
(***************************************************************************)
Conduct(r) ==
  \/ \E target \in Statuses : TransitionLoad(r, target)
  \/ SetModeLoad(r)
  \/ SeanceSave(r)
  \/ Fails(r)

Patching(r) ==
  \E s \in SeatCounts \union {None}, q \in Quorums \union {None} : PatchLoad(r, s, q)

Assigning(r) ==
  \/ \E u \in Senators, votes \in BOOLEAN : SeatLoad(r, u, votes)
  \/ SeatFind(r) \/ SeatSave(r) \/ SeatInsert(r)

Signing(r) ==
  \/ \E u \in Senators : SignLoad(r, u)
  \/ SignFind(r) \/ SignInsert(r)

Speaking(r) ==
  \/ \E u \in Senators : SpeakLoad(r, u)
  \/ SpeakFind(r) \/ SpeakInsert(r)
  \/ \E i \in Rows, decision \in SpeechStatuses : DecideLoad(r, i, decision)
  \/ DecideSave(r)

SeanceNext ==
  \E r \in Requests :
    Conduct(r) \/ Patching(r) \/ Assigning(r) \/ Signing(r) \/ Speaking(r)

SeanceSpec == SeanceInit /\ [][SeanceNext]_seanceVars

(***************************************************************************)
(* Properties.  Each holds as long as no request has written on the        *)
(* strength of a read that another had overwritten meanwhile.              *)
(***************************************************************************)
\* "sign-in on a CLOTUREE séance is refused (too late)"
\* (presence_service.py:5): once the séance is closed its quorum, its
\* participants and the requests to speak it received are what the minutes say,
\* for good; only a request that had passed its check before the close, or that
\* saves a copy older than it (session_service.py:65), can change them.
ClosedIsFinal ==
  [][seance.status \in Closed /\ lost' \subseteq {"shrunk"} =>
       /\ seance'.status \in Closed
       /\ Quorum' = Quorum
       /\ participants' = participants
       /\ {i \in Rows : speeches'[i] = None} = {i \in Rows : speeches[i] = None}
    ]_seanceVars

\* "required_quorum_count cannot exceed total_seats" (session_schema.py:26):
\* whatever patches race, and whatever stale copies they save, the quorum stays
\* within reach, unless a patch lowered total_seats and named no quorum
\* (session_controller.py:153).
QuorumWithinSeats == "shrunk" \notin lost => seance.quorum <= seance.seats

\* assign_participant updates the row of a user who has one
\* (session_controller.py:215): nobody is fanned out to, or counted among the
\* voting seats, twice, unless two assignments of the user overlapped.
OneParticipant ==
  "seats" \notin lost =>
    \A u \in Senators : \A i, j \in RowsOf(participants, u) : i = j

\* "Sénateur cannot have two simultaneously-pending requests on the same séance"
\* (parole_service.py:4), unless two of his requests overlapped (line 66).
OnePending ==
  "parole" \notin lost => \A u \in Senators : \A i, j \in Pending(u) : i = j

\* A request to speak is granted, refused or expired once, and ends only if it
\* was granted, unless two dispatches of it overlapped (parole_service.py:135).
SpeechDecidedOnce ==
  [][\A i \in Rows :
       speeches[i] # None /\ speeches'[i] # speeches[i] /\ "parole" \notin lost' =>
         /\ speeches'[i] # None
         /\ speeches'[i].user = speeches[i].user
         /\ speeches'[i].status \in SpeechTransitions[speeches[i].status]
    ]_seanceVars
=============================================================================
