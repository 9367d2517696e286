------------------------ MODULE SessionMeetingProofs ------------------------
(***************************************************************************)
(* Type correctness and every property of SessionMeeting, for any number   *)
(* of requests, sénateurs and rows, and any seats and quorums.             *)
(*                                                                         *)
(* The properties say what no request can do unless it is stale.  So the   *)
(* invariant says, of each request that is not, that what it has read and  *)
(* is about to write on is still true of the stored documents.             *)
(***************************************************************************)
EXTENDS SessionMeeting, TLAPS

\* What a request that waits under `label' holds.
Waits(label, m) ==
  /\ label = "save" => m.doc \in Seances
  /\ label = "decide" => m.doc \in Speeches /\ m.row \in Rows
  /\ label = "seatSave" => m.doc \in Participants /\ m.row \in Rows
  /\ label \in {"seatFind", "seatInsert"} => m.doc \in Participants
  /\ label \in Admitted => m.user \in Senators

SaveFits(r) ==
  pc[r] = "save" /\ "shrunk" \notin lost => mem[r].doc.quorum <= mem[r].doc.seats

SaveIsFresh(r) ==
  pc[r] = "save" /\ r \notin stale /\ seance.status \in Closed =>
    /\ mem[r].doc.status \in Closed
    /\ mem[r].doc.seats = seance.seats /\ mem[r].doc.quorum = seance.quorum

StillSitting(r) == pc[r] \in Admitted /\ r \notin stale => seance.status \in Sitting

StillOpen(r) == pc[r] \in Seating /\ r \notin stale => seance.status \notin Closed

SeatIsFree(r) ==
  pc[r] = "seatInsert" /\ r \notin stale => RowsOf(participants, mem[r].doc.user) = {}

SeatIsTheirs(r) ==
  pc[r] = "seatSave" =>
    participants[mem[r].row] # None /\ participants[mem[r].row].user = mem[r].doc.user

NonePending(r) ==
  pc[r] = "speakInsert" /\ r \notin stale => Pending(mem[r].user) = {}

Decides(r) ==
  pc[r] = "decide" =>
    /\ speeches[mem[r].row] # None
    /\ speeches[mem[r].row].user = mem[r].doc.user
    /\ mem[r].doc.status # "EN_ATTENTE"
    /\ r \notin stale =>
         mem[r].doc.status \in SpeechTransitions[speeches[mem[r].row].status]

Reads(r) ==
  /\ SaveFits(r) /\ SaveIsFresh(r)
  /\ StillSitting(r) /\ StillOpen(r)
  /\ SeatIsFree(r) /\ SeatIsTheirs(r)
  /\ NonePending(r) /\ Decides(r)

SeanceInv ==
  /\ SeanceTypeOK
  /\ QuorumWithinSeats /\ OneParticipant /\ OnePending
  /\ \A r \in Requests : Reads(r)

(***************************************************************************)
(* Type correctness.                                                       *)
(***************************************************************************)
LEMMA BlankType ==
  /\ Blank \in Memory
  /\ \A x \in Seances \union Participants \union Speeches :
       LET m == [Blank EXCEPT !.doc = x] IN m \in Memory /\ m.doc = x
  /\ \A u \in Senators :
       LET m == [Blank EXCEPT !.user = u] IN m \in Memory /\ m.user = u
  /\ \A i \in Rows, x \in Speeches :
       LET m == [Blank EXCEPT !.row = i, !.doc = x] IN
         m \in Memory /\ m.doc = x /\ m.row = i
BY DEF Blank, Memory

LEMMA GotoType ==
  ASSUME SeanceTypeOK, NEW r \in Requests, NEW label \in InFlight \union {"idle"},
         NEW m \in Memory, Waits(label, m), Goto(r, label, m),
         seance' \in Seances, participants' \in [Rows -> Participants \union {None}],
         signatures' \subseteq Senators, speeches' \in [Rows -> Speeches \union {None}],
         stale' \subseteq Requests,
         lost' \subseteq {"seance", "shrunk", "seats", "presence", "parole"}
  PROVE  SeanceTypeOK'
<1>1. pc' \in [Requests -> InFlight \union {"idle"}] /\ mem' \in [Requests -> Memory]
  BY DEF SeanceTypeOK, Goto
<1>2. ASSUME NEW q \in Requests PROVE Waits(pc'[q], mem'[q])
  <2>1. CASE q = r
    BY <2>1 DEF SeanceTypeOK, Goto
  <2>2. CASE q # r
    <3>1. pc'[q] = pc[q] /\ mem'[q] = mem[q]
      BY <2>2 DEF SeanceTypeOK, Goto
    <3> QED BY <3>1 DEF SeanceTypeOK, Waits
  <2> QED BY <2>1, <2>2
<1> QED BY <1>1, <1>2 DEF SeanceTypeOK, Waits

\* Rows hold integers and the decisions strings: the provers need telling
\* that they are not None.
LEMMA RowNotNone ==
  /\ None \notin Rows
  /\ \A x \in Seances \union Participants \union Speeches : x # None
BY NoneAssumption

LEMMA LoadType ==
  ASSUME SeanceTypeOK, NEW r \in Requests,
         \/ \E target \in Statuses : TransitionLoad(r, target)
         \/ SetModeLoad(r) \/ Patching(r)
  PROVE  SeanceTypeOK'
<1>1. CASE \E target \in Statuses : TransitionLoad(r, target)
  <2>1. PICK target \in Statuses : TransitionLoad(r, target)
    BY <1>1
  <2>2. [seance EXCEPT !.status = target] \in Seances
    BY DEF SeanceTypeOK, Seances
  <2>3. Waits("save", [Blank EXCEPT !.doc = [seance EXCEPT !.status = target]])
    BY <2>2, BlankType DEF Waits, Admitted
  <2> QED
    BY <2>1, <2>2, <2>3, BlankType, GotoType DEF TransitionLoad, SeanceTypeOK, InFlight
<1>2. CASE SetModeLoad(r)
  <2>1. seance \in Seances
    BY DEF SeanceTypeOK
  <2>2. Waits("save", [Blank EXCEPT !.doc = seance])
    BY <2>1, BlankType DEF Waits, Admitted
  <2> QED
    BY <1>2, <2>1, <2>2, BlankType, GotoType DEF SetModeLoad, SeanceTypeOK, InFlight
<1>3. CASE Patching(r)
  <2>1. PICK s \in SeatCounts \union {None}, q \in Quorums \union {None} : PatchLoad(r, s, q)
    BY <1>3 DEF Patching
  <2>2. Patched(s, q) \in Seances
    BY DEF SeanceTypeOK, Seances, Patched, Given
  <2>3. Waits("save", [Blank EXCEPT !.doc = Patched(s, q)])
    BY <2>2, BlankType DEF Waits, Admitted
  <2> QED
    BY <2>1, <2>2, <2>3, BlankType, GotoType DEF PatchLoad, SeanceTypeOK, InFlight
<1> QED BY <1>1, <1>2, <1>3

LEMMA FinishType ==
  ASSUME SeanceTypeOK, NEW r \in Requests, Finish(r),
         seance' \in Seances, participants' \in [Rows -> Participants \union {None}],
         signatures' \subseteq Senators, speeches' \in [Rows -> Speeches \union {None}],
         stale' \subseteq Requests,
         lost' \subseteq {"seance", "shrunk", "seats", "presence", "parole"}
  PROVE  SeanceTypeOK'
<1>1. Waits("idle", Blank)
  BY DEF Waits, Admitted
<1> QED BY <1>1, BlankType, GotoType DEF Finish

LEMMA SaveType ==
  ASSUME SeanceTypeOK, NEW r \in Requests, SeanceSave(r) \/ Fails(r)
  PROVE  SeanceTypeOK'
<1>1. CASE SeanceSave(r)
  BY <1>1, FinishType DEF SeanceSave, SeanceTypeOK, Unsettles, Outdate, Misled
<1>2. CASE Fails(r)
  BY <1>2, FinishType DEF Fails, SeanceTypeOK, Outdate
<1> QED BY <1>1, <1>2

LEMMA SeatType ==
  ASSUME SeanceTypeOK, NEW r \in Requests, Assigning(r)
  PROVE  SeanceTypeOK'
<1>1. CASE \E u \in Senators, votes \in BOOLEAN : SeatLoad(r, u, votes)
  <2>1. PICK u \in Senators, votes \in BOOLEAN : SeatLoad(r, u, votes)
    BY <1>1
  <2> DEFINE doc == [user |-> u, votes |-> votes]
  <2>2. doc \in Participants
    BY DEF Participants
  <2>3. [Blank EXCEPT !.doc = doc] \in Memory
    BY <2>2, BlankType
  <2>4. Waits("seatFind", [Blank EXCEPT !.doc = doc])
    BY <2>2, BlankType DEF Waits, Admitted
  <2>5. Goto(r, "seatFind", [Blank EXCEPT !.doc = doc])
    BY <2>1 DEF SeatLoad
  <2> HIDE DEF doc
  <2> QED
    BY <2>1, <2>3, <2>4, <2>5, GotoType DEF SeatLoad, SeanceTypeOK, InFlight, Seating
<1>2. CASE SeatFind(r)
  <2>1. mem[r] \in Memory /\ mem[r].doc \in Participants
    BY <1>2 DEF SeanceTypeOK, SeatFind
  <2>2. CASE Goto(r, "seatInsert", mem[r])
    <3>1. Waits("seatInsert", mem[r])
      BY <2>1 DEF Waits, Admitted
    <3> QED
      BY <1>2, <2>1, <2>2, <3>1, GotoType DEF SeatFind, SeanceTypeOK, InFlight, Seating
  <2>3. ASSUME NEW i \in Rows, Goto(r, "seatSave", [mem[r] EXCEPT !.row = i])
        PROVE  SeanceTypeOK'
    <3>1. [mem[r] EXCEPT !.row = i] \in Memory
      BY <2>1 DEF Memory
    <3>2. Waits("seatSave", [mem[r] EXCEPT !.row = i])
      BY <2>1, <3>1 DEF Waits, Admitted, Memory
    <3> QED
      BY <1>2, <2>3, <3>1, <3>2, GotoType DEF SeatFind, SeanceTypeOK, InFlight, Seating
  <2> QED BY <1>2, <2>2, <2>3 DEF SeatFind, RowsOf
<1>3. CASE SeatSave(r) \/ SeatInsert(r)
  <2>1. mem[r].doc \in Participants
    BY <1>3 DEF SeanceTypeOK, SeatSave, SeatInsert
  <2>2. participants' \in [Rows -> Participants \union {None}]
    BY <1>3, <2>1 DEF SeanceTypeOK, SeatSave, SeatInsert
  <2> QED
    BY <1>3, <2>2, FinishType
       DEF SeatSave, SeatInsert, SeanceTypeOK, Unsettles, Outdate
<1> QED BY <1>1, <1>2, <1>3 DEF Assigning

LEMMA SignType ==
  ASSUME SeanceTypeOK, NEW r \in Requests, Signing(r)
  PROVE  SeanceTypeOK'
<1>1. CASE \E u \in Senators : SignLoad(r, u)
  <2>1. PICK u \in Senators : SignLoad(r, u)
    BY <1>1
  <2>2. Waits("signFind", [Blank EXCEPT !.user = u])
    BY BlankType DEF Waits
  <2> QED
    BY <2>1, <2>2, BlankType, GotoType DEF SignLoad, SeanceTypeOK, InFlight, Admitted
<1>2. CASE SignFind(r)
  <2>1. mem[r] \in Memory /\ mem[r].user \in Senators
    BY <1>2 DEF SeanceTypeOK, SignFind, Admitted
  <2>2. Waits("signInsert", mem[r])
    BY <2>1 DEF Waits
  <2> QED
    BY <1>2, <2>1, <2>2, GotoType, FinishType
       DEF SignFind, SeanceTypeOK, InFlight, Admitted, Outdate
<1>3. CASE SignInsert(r)
  <2>1. mem[r].user \in Senators
    BY <1>3 DEF SeanceTypeOK, SignInsert, Admitted
  <2> QED
    BY <1>3, <2>1, FinishType DEF SignInsert, SeanceTypeOK, Unsettles, Outdate
<1> QED BY <1>1, <1>2, <1>3 DEF Signing

LEMMA SpeakType ==
  ASSUME SeanceTypeOK, NEW r \in Requests, Speaking(r)
  PROVE  SeanceTypeOK'
<1>1. CASE \E u \in Senators : SpeakLoad(r, u)
  <2>1. PICK u \in Senators : SpeakLoad(r, u)
    BY <1>1
  <2>2. Waits("speakFind", [Blank EXCEPT !.user = u])
    BY BlankType DEF Waits
  <2> QED
    BY <2>1, <2>2, BlankType, GotoType DEF SpeakLoad, SeanceTypeOK, InFlight, Admitted
<1>2. CASE SpeakFind(r)
  <2>1. mem[r] \in Memory /\ mem[r].user \in Senators
    BY <1>2 DEF SeanceTypeOK, SpeakFind, Admitted
  <2>2. Waits("speakInsert", mem[r])
    BY <2>1 DEF Waits
  <2> QED
    BY <1>2, <2>1, <2>2, GotoType, FinishType
       DEF SpeakFind, SeanceTypeOK, InFlight, Admitted, Outdate
<1>3. CASE SpeakInsert(r)
  <2>1. [user |-> mem[r].user, status |-> "EN_ATTENTE"] \in Speeches
    BY <1>3 DEF SeanceTypeOK, SpeakInsert, Admitted, Speeches, SpeechStatuses
  <2>2. speeches' \in [Rows -> Speeches \union {None}]
    BY <1>3, <2>1 DEF SeanceTypeOK, SpeakInsert
  <2> QED
    BY <1>3, <2>2, FinishType DEF SpeakInsert, SeanceTypeOK, Unsettles, Outdate
<1>4. CASE \E i \in Rows, decision \in SpeechStatuses : DecideLoad(r, i, decision)
  <2>1. PICK i \in Rows, decision \in SpeechStatuses : DecideLoad(r, i, decision)
    BY <1>4
  <2> DEFINE doc == [speeches[i] EXCEPT !.status = decision]
             m == [Blank EXCEPT !.row = i, !.doc = doc]
  <2>2. doc \in Speeches
    BY <2>1 DEF DecideLoad, SeanceTypeOK, Speeches
  <2>3. m \in Memory /\ Waits("decide", m)
    BY <2>2, BlankType DEF Waits, Admitted
  <2>4. Goto(r, "decide", m)
    BY <2>1 DEF DecideLoad
  <2> HIDE DEF m
  <2> QED
    BY <2>1, <2>3, <2>4, GotoType DEF DecideLoad, SeanceTypeOK, InFlight
<1>5. CASE DecideSave(r)
  <2>1. speeches' \in [Rows -> Speeches \union {None}]
    BY <1>5 DEF SeanceTypeOK, DecideSave
  <2> QED
    BY <1>5, <2>1, FinishType DEF DecideSave, SeanceTypeOK, Unsettles, Outdate
<1> QED BY <1>1, <1>2, <1>3, <1>4, <1>5 DEF Speaking

LEMMA SeanceTypeStep ==
  ASSUME SeanceTypeOK, [SeanceNext]_seanceVars
  PROVE  SeanceTypeOK'
<1>1. CASE SeanceNext
  BY <1>1, LoadType, SaveType, SeatType, SignType, SpeakType DEF SeanceNext, Conduct
<1>2. CASE UNCHANGED seanceVars
  BY <1>2 DEF seanceVars, SeanceTypeOK
<1> QED BY <1>1, <1>2

LEMMA SeanceInitType ==
  ASSUME SeanceInit
  PROVE  SeanceTypeOK
<1>1. seance \in Seances
  BY DEF SeanceInit, Seances, Statuses
<1>2. participants \in [Rows -> Participants \union {None}]
  BY DEF SeanceInit
<1>3. speeches \in [Rows -> Speeches \union {None}]
  BY DEF SeanceInit
<1>4. \A r \in Requests : pc[r] = "idle" /\ mem[r] = Blank
  BY DEF SeanceInit
<1>5. pc \in [Requests -> InFlight \union {"idle"}] /\ mem \in [Requests -> Memory]
  BY BlankType DEF SeanceInit
<1> QED
  BY <1>1, <1>2, <1>3, <1>4, <1>5 DEF SeanceInit, SeanceTypeOK, Admitted

(***************************************************************************)
(* The invariant.                                                          *)
(***************************************************************************)
LEMMA OthersStay ==
  ASSUME SeanceTypeOK, NEW r \in Requests, NEW label, NEW m, Goto(r, label, m),
         NEW q \in Requests, q # r
  PROVE  pc'[q] = pc[q] /\ mem'[q] = mem[q]
BY DEF SeanceTypeOK, Goto

\* r goes on and nothing stored changes.
LEMMA GoOnStep ==
  ASSUME SeanceInv, SeanceTypeOK', NEW r \in Requests, NEW label, NEW m,
         Goto(r, label, m), UNCHANGED <<seance, participants, speeches>>,
         stale \ {r} \subseteq stale', lost \subseteq lost', Reads(r)'
  PROVE  SeanceInv'
<1>1. QuorumWithinSeats' /\ OneParticipant' /\ OnePending'
  BY DEF SeanceInv, QuorumWithinSeats, OneParticipant, OnePending, RowsOf, Pending
<1>2. ASSUME NEW q \in Requests, q # r PROVE Reads(q)'
  <2>1. pc'[q] = pc[q] /\ mem'[q] = mem[q]
    BY <1>2, OthersStay DEF SeanceInv
  <2>2. Reads(q)
    BY DEF SeanceInv
  <2>3. (SaveFits(q) /\ SaveIsFresh(q) /\ StillSitting(q) /\ StillOpen(q))'
    BY <1>2, <2>1, <2>2 DEF Reads, SaveFits, SaveIsFresh, StillSitting, StillOpen
  <2>4. (SeatIsFree(q) /\ SeatIsTheirs(q) /\ NonePending(q) /\ Decides(q))'
    BY <1>2, <2>1, <2>2
       DEF Reads, SeatIsFree, SeatIsTheirs, NonePending, Decides, RowsOf, Pending
  <2> QED BY <2>3, <2>4 DEF Reads
<1> QED BY <1>1, <1>2 DEF SeanceInv

\* r is done, and has kept what is claimed of the others and of the rows.
LEMMA FinishStep ==
  ASSUME SeanceInv, SeanceTypeOK', NEW r \in Requests, Finish(r),
         (QuorumWithinSeats /\ OneParticipant /\ OnePending)',
         \A q \in Requests \ {r} : Reads(q)'
  PROVE  SeanceInv'
<1>1. pc'[r] = "idle"
  BY DEF SeanceInv, SeanceTypeOK, Finish, Goto
<1>2. Reads(r)'
  BY <1>1 DEF Reads, SaveFits, SaveIsFresh, StillSitting, StillOpen, SeatIsFree,
              SeatIsTheirs, NonePending, Decides, Admitted, Seating
<1> QED BY <1>2 DEF SeanceInv

LEMMA TransitionStep ==
  ASSUME SeanceInv, SeanceTypeOK', NEW r \in Requests,
         NEW target \in Statuses, TransitionLoad(r, target)
  PROVE  SeanceInv'
<1> DEFINE doc == [seance EXCEPT !.status = target]
           m == [Blank EXCEPT !.doc = doc]
<1>1. seance \in Seances /\ doc \in Seances /\ m.doc = doc
  BY BlankType DEF SeanceInv, SeanceTypeOK, Seances
<1>2. doc.status = target /\ doc.seats = seance.seats /\ doc.quorum = seance.quorum
  BY <1>1 DEF Seances
<1>3. seance.status \in Closed => target \in Closed
  BY DEF TransitionLoad, Transitions, Closed
<1>4. pc'[r] = "save" /\ mem'[r] = m
  BY DEF SeanceInv, SeanceTypeOK, TransitionLoad, Goto
<1>5. (SaveFits(r) /\ SaveIsFresh(r))'
  BY <1>1, <1>2, <1>3, <1>4
     DEF TransitionLoad, SaveFits, SaveIsFresh, SeanceInv, QuorumWithinSeats
<1>6. Reads(r)'
  BY <1>4, <1>5 DEF Reads, StillSitting, StillOpen, SeatIsFree, SeatIsTheirs,
                    NonePending, Decides, Admitted, Seating
<1> QED BY <1>6, GoOnStep DEF TransitionLoad

LEMMA SetModeStep ==
  ASSUME SeanceInv, SeanceTypeOK', NEW r \in Requests, SetModeLoad(r)
  PROVE  SeanceInv'
<1> DEFINE m == [Blank EXCEPT !.doc = seance]
<1>1. m.doc = seance
  BY BlankType DEF SeanceInv, SeanceTypeOK
<1>2. pc'[r] = "save" /\ mem'[r] = m
  BY DEF SeanceInv, SeanceTypeOK, SetModeLoad, Goto
<1>3. (SaveFits(r) /\ SaveIsFresh(r))'
  BY <1>1, <1>2 DEF SetModeLoad, SaveFits, SaveIsFresh, SeanceInv, QuorumWithinSeats
<1>4. Reads(r)'
  BY <1>2, <1>3 DEF Reads, StillSitting, StillOpen, SeatIsFree, SeatIsTheirs,
                    NonePending, Decides, Admitted, Seating
<1> QED BY <1>4, GoOnStep DEF SetModeLoad

LEMMA PatchStep ==
  ASSUME SeanceInv, SeanceTypeOK', NEW r \in Requests, NEW s \in SeatCounts \union {None},
         NEW q \in Quorums \union {None}, PatchLoad(r, s, q)
  PROVE  SeanceInv'
<1> DEFINE doc == Patched(s, q)
           m == [Blank EXCEPT !.doc = doc]
<1>1. seance \in Seances
  BY DEF SeanceInv, SeanceTypeOK
<1>2. /\ doc \in Seances
      /\ doc.seats = Given(s, seance.seats)
      /\ doc.quorum = Given(q, seance.quorum)
  BY <1>1 DEF Patched, Given, Seances
<1>3. m.doc = doc
  BY <1>2, BlankType
<1>4. seance.status \notin Closed
  BY DEF PatchLoad, Editable, Closed
<1>5. "shrunk" \notin lost' => doc.quorum <= doc.seats
  <2>1. SUFFICES ASSUME "shrunk" \notin lost' PROVE doc.quorum <= doc.seats
    OBVIOUS
  <2>2. seance.quorum <= seance.seats
    BY <2>1 DEF PatchLoad, SeanceInv, QuorumWithinSeats
  <2>3. seance.quorum \in Nat /\ seance.seats \in Nat
    BY <1>1, NumbersAssumption DEF Seances
  <2>4. CASE q # None
    BY <1>2, <2>4 DEF PatchLoad, Given
  <2>5. CASE q = None /\ s = None
    BY <1>2, <2>2, <2>5 DEF Given
  <2>6. CASE q = None /\ s # None
    <3>1. s \in Nat /\ ~ (s < seance.seats)
      BY <2>1, <2>6, NumbersAssumption DEF PatchLoad
    <3> QED BY <1>2, <2>2, <2>3, <2>6, <3>1 DEF Given
  <2> QED BY <2>4, <2>5, <2>6
<1>6. pc'[r] = "save" /\ mem'[r] = m
  BY DEF SeanceInv, SeanceTypeOK, PatchLoad, Goto
<1>7. (SaveFits(r) /\ SaveIsFresh(r))'
  BY <1>3, <1>4, <1>5, <1>6 DEF PatchLoad, SaveFits, SaveIsFresh
<1>8. Reads(r)'
  BY <1>6, <1>7 DEF Reads, StillSitting, StillOpen, SeatIsFree, SeatIsTheirs,
                    NonePending, Decides, Admitted, Seating
<1> QED BY <1>8, GoOnStep DEF PatchLoad

LEMMA SeanceSaveStep ==
  ASSUME SeanceInv, SeanceTypeOK', NEW r \in Requests, SeanceSave(r)
  PROVE  SeanceInv'
<1>1. lost \subseteq lost'
  BY DEF SeanceSave, Unsettles
<1>2. (QuorumWithinSeats /\ OneParticipant /\ OnePending)'
  BY <1>1 DEF SeanceSave, SeanceInv, Reads, SaveFits, QuorumWithinSeats,
              OneParticipant, OnePending, RowsOf, Pending
<1>3. ASSUME NEW q \in Requests \ {r} PROVE Reads(q)'
  <2>1. pc'[q] = pc[q] /\ mem'[q] = mem[q]
    BY <1>3, OthersStay DEF SeanceInv, SeanceSave, Finish
  <2>2. Reads(q)
    BY DEF SeanceInv
  <2>3. q \notin stale' => q \notin stale /\ q \notin Misled(mem[r].doc)
    BY <1>3 DEF SeanceSave, Outdate
  <2>4. SaveFits(q)'
    BY <1>1, <2>1, <2>2 DEF Reads, SaveFits
  <2>5. SaveIsFresh(q)'
    BY <2>1, <2>2, <2>3 DEF Reads, SaveIsFresh, Misled, SeanceSave
  <2>6. StillSitting(q)' /\ StillOpen(q)'
    BY <2>1, <2>2, <2>3 DEF Reads, StillSitting, StillOpen, Misled, SeanceSave
  <2>7. (SeatIsFree(q) /\ SeatIsTheirs(q) /\ NonePending(q) /\ Decides(q))'
    BY <2>1, <2>2, <2>3
       DEF Reads, SeatIsFree, SeatIsTheirs, NonePending, Decides, RowsOf, Pending,
           SeanceSave
  <2> QED BY <2>4, <2>5, <2>6, <2>7 DEF Reads
<1> QED BY <1>2, <1>3, FinishStep DEF SeanceSave

LEMMA FailsStep ==
  ASSUME SeanceInv, SeanceTypeOK', NEW r \in Requests, Fails(r)
  PROVE  SeanceInv'
<1>1. pc'[r] = "idle"
  BY DEF Fails, Finish, Goto, SeanceInv, SeanceTypeOK
<1>2. Reads(r)'
  BY <1>1 DEF Reads, SaveFits, SaveIsFresh, StillSitting, StillOpen, SeatIsFree,
              SeatIsTheirs, NonePending, Decides, Admitted, Seating
<1> QED BY <1>2, GoOnStep DEF Fails, Finish, Outdate

LEMMA SeatLoadStep ==
  ASSUME SeanceInv, SeanceTypeOK', NEW r \in Requests,
         NEW u \in Senators, NEW votes \in BOOLEAN, SeatLoad(r, u, votes)
  PROVE  SeanceInv'
<1>1. pc'[r] = "seatFind"
  BY DEF SeatLoad, Goto, SeanceInv, SeanceTypeOK
<1>2. Reads(r)'
  BY <1>1 DEF Reads, SaveFits, SaveIsFresh, StillSitting, StillOpen, SeatIsFree,
              SeatIsTheirs, NonePending, Decides, Admitted, Seating, SeatLoad
<1> QED BY <1>2, GoOnStep DEF SeatLoad

LEMMA SeatFindStep ==
  ASSUME SeanceInv, SeanceTypeOK', NEW r \in Requests, SeatFind(r)
  PROVE  SeanceInv'
<1>1. Reads(r) /\ mem[r] \in Memory
  BY DEF SeanceInv, SeanceTypeOK
<1>2. CASE RowsOf(participants, mem[r].doc.user) = {} /\ Goto(r, "seatInsert", mem[r])
  <2>1. pc'[r] = "seatInsert" /\ mem'[r] = mem[r]
    BY <1>2 DEF Goto, SeanceInv, SeanceTypeOK
  <2>2. SeatIsFree(r)'
    BY <1>2, <2>1 DEF SeatIsFree, SeatFind, RowsOf
  <2>3. Reads(r)'
    BY <1>1, <2>1, <2>2
       DEF Reads, SaveFits, SaveIsFresh, StillSitting, StillOpen, SeatIsTheirs,
           NonePending, Decides, Admitted, Seating, SeatFind
  <2> QED BY <1>2, <2>3, GoOnStep DEF SeatFind
<1>3. ASSUME NEW i \in RowsOf(participants, mem[r].doc.user),
             Goto(r, "seatSave", [mem[r] EXCEPT !.row = i])
      PROVE  SeanceInv'
  <2> DEFINE m == [mem[r] EXCEPT !.row = i]
  <2>1. m.row = i /\ m.doc = mem[r].doc
    BY <1>1 DEF Memory
  <2>2. pc'[r] = "seatSave" /\ mem'[r] = m
    BY <1>3 DEF Goto, SeanceInv, SeanceTypeOK
  <2>3. SeatIsTheirs(r)'
    BY <1>3, <2>1, <2>2 DEF SeatIsTheirs, SeatFind, RowsOf
  <2>4. Reads(r)'
    BY <1>1, <2>2, <2>3
       DEF Reads, SaveFits, SaveIsFresh, StillSitting, StillOpen, SeatIsFree,
           NonePending, Decides, Admitted, Seating, SeatFind
  <2> QED BY <1>3, <2>4, GoOnStep DEF SeatFind
<1> QED BY <1>2, <1>3 DEF SeatFind

LEMMA SeatSaveStep ==
  ASSUME SeanceInv, SeanceTypeOK', NEW r \in Requests, SeatSave(r)
  PROVE  SeanceInv'
<1> DEFINE k == mem[r].row
           doc == mem[r].doc
<1>1. doc \in Participants /\ k \in Rows /\ doc # None
  BY RowNotNone DEF SeanceInv, SeanceTypeOK, SeatSave
<1>2. participants[k] # None /\ participants[k].user = doc.user
  BY DEF SeanceInv, Reads, SeatIsTheirs, SeatSave
<1>3. \A i \in Rows : participants'[i] = IF i = k THEN doc ELSE participants[i]
  BY <1>1 DEF SeanceInv, SeanceTypeOK, SeatSave
<1>4. \A u : RowsOf(participants', u) = RowsOf(participants, u)
  BY <1>1, <1>2, <1>3 DEF RowsOf
<1>5. lost \subseteq lost'
  BY DEF SeatSave, Unsettles
<1>6. (QuorumWithinSeats /\ OneParticipant /\ OnePending)'
  <2>1. (QuorumWithinSeats /\ OnePending)'
    BY <1>5 DEF SeatSave, SeanceInv, QuorumWithinSeats, OnePending, RowsOf, Pending
  <2>2. OneParticipant'
    BY <1>4, <1>5 DEF SeanceInv, OneParticipant
  <2> QED BY <2>1, <2>2
<1>7. ASSUME NEW q \in Requests \ {r} PROVE Reads(q)'
  <2>1. pc'[q] = pc[q] /\ mem'[q] = mem[q]
    BY <1>7, OthersStay DEF SeanceInv, SeatSave, Finish
  <2>2. Reads(q)
    BY DEF SeanceInv
  <2>3. q \notin stale' => q \notin stale
    BY DEF SeatSave, Outdate
  <2>4. (SaveFits(q) /\ SaveIsFresh(q) /\ StillSitting(q) /\ StillOpen(q))'
    BY <1>5, <2>1, <2>2, <2>3
       DEF Reads, SaveFits, SaveIsFresh, StillSitting, StillOpen, SeatSave
  <2>5. SeatIsFree(q)'
    BY <1>4, <2>1, <2>2, <2>3 DEF Reads, SeatIsFree
  <2>6. SeatIsTheirs(q)'
    <3>1. SUFFICES ASSUME pc[q] = "seatSave" PROVE SeatIsTheirs(q)'
      BY <2>1 DEF SeatIsTheirs
    <3>2. mem[q].row \in Rows
      BY <3>1 DEF SeanceInv, SeanceTypeOK
    <3> QED
      BY <1>1, <1>2, <1>3, <2>1, <2>2, <3>1, <3>2 DEF Reads, SeatIsTheirs
  <2>7. (NonePending(q) /\ Decides(q))'
    BY <2>1, <2>2, <2>3 DEF Reads, NonePending, Decides, RowsOf, Pending, SeatSave
  <2> QED BY <2>4, <2>5, <2>6, <2>7 DEF Reads
<1> QED BY <1>6, <1>7, FinishStep DEF SeatSave

LEMMA SeatInsertStep ==
  ASSUME SeanceInv, SeanceTypeOK', NEW r \in Requests, SeatInsert(r)
  PROVE  SeanceInv'
<1> DEFINE doc == mem[r].doc
<1>1. doc \in Participants /\ doc # None
  BY RowNotNone DEF SeanceInv, SeanceTypeOK, SeatInsert
<1>2. PICK k \in Rows : /\ participants[k] = None
                        /\ participants' = [participants EXCEPT ![k] = doc]
  BY DEF SeatInsert, NextRow
<1>3. \A i \in Rows : participants'[i] = IF i = k THEN doc ELSE participants[i]
  BY <1>2 DEF SeanceInv, SeanceTypeOK
<1>4. \A u : RowsOf(participants', u) =
               IF u = doc.user THEN RowsOf(participants, u) \union {k}
                               ELSE RowsOf(participants, u)
  BY <1>1, <1>2, <1>3 DEF RowsOf
<1>5. lost \subseteq lost' /\ ("seats" \notin lost' => r \notin stale)
  BY DEF SeatInsert, Unsettles
<1>6. r \notin stale => RowsOf(participants, doc.user) = {}
  BY DEF SeanceInv, Reads, SeatIsFree, SeatInsert
<1>7. (QuorumWithinSeats /\ OnePending)'
  BY <1>5 DEF SeatInsert, SeanceInv, QuorumWithinSeats, OnePending, RowsOf, Pending
<1>8. OneParticipant'
  BY <1>4, <1>5, <1>6 DEF SeanceInv, OneParticipant
<1>9. ASSUME NEW q \in Requests \ {r} PROVE Reads(q)'
  <2>1. pc'[q] = pc[q] /\ mem'[q] = mem[q]
    BY <1>9, OthersStay DEF SeanceInv, SeatInsert, Finish
  <2>2. Reads(q)
    BY DEF SeanceInv
  <2>3. q \notin stale' =>
          q \notin stale /\ ~ (pc[q] = "seatInsert" /\ mem[q].doc.user = doc.user)
    BY DEF SeatInsert, Outdate
  <2>4. (SaveFits(q) /\ SaveIsFresh(q) /\ StillSitting(q) /\ StillOpen(q))'
    BY <1>5, <2>1, <2>2, <2>3
       DEF Reads, SaveFits, SaveIsFresh, StillSitting, StillOpen, SeatInsert
  <2>5. SeatIsFree(q)'
    BY <1>4, <2>1, <2>2, <2>3 DEF Reads, SeatIsFree
  <2>6. SeatIsTheirs(q)'
    <3>1. SUFFICES ASSUME pc[q] = "seatSave" PROVE SeatIsTheirs(q)'
      BY <2>1 DEF SeatIsTheirs
    <3>2. mem[q].row \in Rows
      BY <3>1 DEF SeanceInv, SeanceTypeOK
    <3> QED
      BY <1>2, <1>3, <2>1, <2>2, <3>1, <3>2 DEF Reads, SeatIsTheirs
  <2>7. (NonePending(q) /\ Decides(q))'
    BY <2>1, <2>2, <2>3 DEF Reads, NonePending, Decides, RowsOf, Pending, SeatInsert
  <2> QED BY <2>4, <2>5, <2>6, <2>7 DEF Reads
<1> QED BY <1>7, <1>8, <1>9, FinishStep DEF SeatInsert

LEMMA AssigningStep ==
  ASSUME SeanceInv, SeanceTypeOK', NEW r \in Requests, Assigning(r)
  PROVE  SeanceInv'
BY SeatLoadStep, SeatFindStep, SeatSaveStep, SeatInsertStep DEF Assigning

LEMMA SigningStep ==
  ASSUME SeanceInv, SeanceTypeOK', NEW r \in Requests, Signing(r)
  PROVE  SeanceInv'
<1>1. CASE \E u \in Senators : SignLoad(r, u)
  <2>1. PICK u \in Senators : SignLoad(r, u)
    BY <1>1
  <2>2. pc'[r] = "signFind"
    BY <2>1 DEF SignLoad, Goto, SeanceInv, SeanceTypeOK
  <2>3. Reads(r)'
    BY <2>1, <2>2 DEF StillSitting, StillOpen, Seating, SignLoad, Reads, SaveFits,
                      SaveIsFresh, SeatIsFree, SeatIsTheirs, NonePending, Decides
  <2> QED BY <2>1, <2>3, GoOnStep DEF SignLoad
<1>2. CASE SignFind(r) \/ SignInsert(r)
  <2>1. CASE Goto(r, "signInsert", mem[r]) /\ UNCHANGED <<seance, stale>> /\ pc[r] = "signFind"
    <3>1. pc'[r] = "signInsert"
      BY <2>1 DEF Goto, SeanceInv, SeanceTypeOK
    <3>2. StillSitting(r)
      BY DEF SeanceInv, Reads
    <3>3. Reads(r)'
      BY <2>1, <3>1, <3>2
         DEF Reads, StillSitting, StillOpen, Seating, Admitted, SaveFits, SaveIsFresh,
             SeatIsFree, SeatIsTheirs, NonePending, Decides
    <3> QED BY <1>2, <2>1, <3>3, GoOnStep DEF SignFind, SignInsert
  <2>2. CASE Finish(r)
    <3>1. pc'[r] = "idle"
      BY <2>2 DEF Finish, Goto, SeanceInv, SeanceTypeOK
    <3>2. Reads(r)'
      BY <3>1 DEF Reads, SaveFits, SaveIsFresh, StillSitting, StillOpen, SeatIsFree,
                  SeatIsTheirs, NonePending, Decides, Admitted, Seating
    <3> QED
      BY <1>2, <2>2, <3>2, GoOnStep
         DEF SignFind, SignInsert, Finish, Outdate, Unsettles
  <2> QED BY <1>2, <2>1, <2>2 DEF SignFind, SignInsert
<1> QED BY <1>1, <1>2 DEF Signing

LEMMA SpeakInsertStep ==
  ASSUME SeanceInv, SeanceTypeOK', NEW r \in Requests, SpeakInsert(r)
  PROVE  SeanceInv'
<1> DEFINE u0 == mem[r].user
           new == [user |-> u0, status |-> "EN_ATTENTE"]
<1>1. new \in Speeches /\ new # None
  BY RowNotNone DEF SeanceInv, SeanceTypeOK, SpeakInsert, Admitted, Speeches,
                    SpeechStatuses
<1>2. PICK k \in Rows : /\ speeches[k] = None
                        /\ speeches' = [speeches EXCEPT ![k] = new]
  BY DEF SpeakInsert, NextRow
<1>3. \A i \in Rows : speeches'[i] = IF i = k THEN new ELSE speeches[i]
  BY <1>2 DEF SeanceInv, SeanceTypeOK
<1>4. \A u : Pending(u)' = IF u = u0 THEN Pending(u) \union {k} ELSE Pending(u)
  <2>1. new.user = u0 /\ new.status = "EN_ATTENTE"
    OBVIOUS
  <2> HIDE DEF new
  <2> QED BY <1>1, <1>2, <1>3, <2>1 DEF Pending, RowsOf
<1>5. lost \subseteq lost' /\ ("parole" \notin lost' => r \notin stale)
  BY DEF SpeakInsert, Unsettles
<1>6. r \notin stale => Pending(u0) = {}
  BY DEF SeanceInv, Reads, NonePending, SpeakInsert
<1>7. (QuorumWithinSeats /\ OneParticipant)'
  BY <1>5 DEF SpeakInsert, SeanceInv, QuorumWithinSeats, OneParticipant, RowsOf
<1>8. OnePending'
  BY <1>4, <1>5, <1>6 DEF SeanceInv, OnePending
<1>9. ASSUME NEW q \in Requests \ {r} PROVE Reads(q)'
  <2>1. pc'[q] = pc[q] /\ mem'[q] = mem[q]
    BY <1>9, OthersStay DEF SeanceInv, SpeakInsert, Finish
  <2>2. Reads(q)
    BY DEF SeanceInv
  <2>3. q \notin stale' =>
          q \notin stale /\ ~ (pc[q] = "speakInsert" /\ mem[q].user = u0)
    BY DEF SpeakInsert, Outdate
  <2>4. (SaveFits(q) /\ SaveIsFresh(q) /\ StillSitting(q) /\ StillOpen(q))'
    BY <1>5, <2>1, <2>2, <2>3
       DEF Reads, SaveFits, SaveIsFresh, StillSitting, StillOpen, SpeakInsert
  <2>5. (SeatIsFree(q) /\ SeatIsTheirs(q))'
    BY <2>1, <2>2, <2>3 DEF Reads, SeatIsFree, SeatIsTheirs, RowsOf, SpeakInsert
  <2>6. NonePending(q)'
    BY <1>4, <2>1, <2>2, <2>3 DEF Reads, NonePending
  <2>7. Decides(q)'
    <3>1. SUFFICES ASSUME pc[q] = "decide" PROVE Decides(q)'
      BY <2>1 DEF Decides
    <3>2. mem[q].row \in Rows
      BY <3>1 DEF SeanceInv, SeanceTypeOK
    <3>3. speeches'[mem[q].row] = speeches[mem[q].row]
      BY <1>2, <1>3, <2>2, <3>1, <3>2 DEF Reads, Decides
    <3> QED BY <2>1, <2>2, <2>3, <3>1, <3>3 DEF Reads, Decides
  <2> QED BY <2>4, <2>5, <2>6, <2>7 DEF Reads
<1> QED BY <1>7, <1>8, <1>9, FinishStep DEF SpeakInsert

LEMMA DecideLoadStep ==
  ASSUME SeanceInv, SeanceTypeOK', NEW r \in Requests,
         NEW i \in Rows, NEW decision \in SpeechStatuses, DecideLoad(r, i, decision)
  PROVE  SeanceInv'
<1> DEFINE doc == [speeches[i] EXCEPT !.status = decision]
           m == [Blank EXCEPT !.row = i, !.doc = doc]
<1>1. speeches[i] \in Speeches
  BY DEF SeanceInv, SeanceTypeOK, DecideLoad
<1>2. doc \in Speeches /\ doc.user = speeches[i].user /\ doc.status = decision
  BY <1>1 DEF Speeches
<1>3. m.doc = doc /\ m.row = i
  BY <1>2, BlankType
<1>4. decision # "EN_ATTENTE"
  BY <1>1 DEF DecideLoad, SpeechTransitions, Speeches, SpeechStatuses
<1>5. pc'[r] = "decide" /\ mem'[r] = m
  BY DEF SeanceInv, SeanceTypeOK, DecideLoad, Goto
<1>6. Decides(r)'
  <2>1. speeches' = speeches
    BY DEF DecideLoad
  <2> HIDE DEF m
  <2> QED BY <1>2, <1>3, <1>4, <1>5, <2>1 DEF Decides, DecideLoad
<1>7. Reads(r)'
  BY <1>5, <1>6 DEF Reads, SaveFits, SaveIsFresh, StillSitting, StillOpen, SeatIsFree,
                    SeatIsTheirs, NonePending, Admitted, Seating
<1> QED BY <1>7, GoOnStep DEF DecideLoad

LEMMA DecideSaveStep ==
  ASSUME SeanceInv, SeanceTypeOK', NEW r \in Requests, DecideSave(r)
  PROVE  SeanceInv'
<1> DEFINE k == mem[r].row
           doc == mem[r].doc
<1>1. doc \in Speeches /\ k \in Rows /\ doc # None
  BY RowNotNone DEF SeanceInv, SeanceTypeOK, DecideSave
<1>2. speeches[k] # None /\ speeches[k].user = doc.user /\ doc.status # "EN_ATTENTE"
  BY DEF SeanceInv, Reads, Decides, DecideSave
<1>3. \A i \in Rows : speeches'[i] = IF i = k THEN doc ELSE speeches[i]
  BY <1>1 DEF SeanceInv, SeanceTypeOK, DecideSave
<1>4. \A u : Pending(u)' \subseteq Pending(u)
  BY <1>1, <1>2, <1>3 DEF Pending, RowsOf
<1>5. lost \subseteq lost'
  BY DEF DecideSave, Unsettles
<1>6. (QuorumWithinSeats /\ OneParticipant)'
  BY <1>5 DEF DecideSave, SeanceInv, QuorumWithinSeats, OneParticipant, RowsOf
<1>7. OnePending'
  BY <1>4, <1>5 DEF SeanceInv, OnePending
<1>8. ASSUME NEW q \in Requests \ {r} PROVE Reads(q)'
  <2>1. pc'[q] = pc[q] /\ mem'[q] = mem[q]
    BY <1>8, OthersStay DEF SeanceInv, DecideSave, Finish
  <2>2. Reads(q)
    BY DEF SeanceInv
  <2>3. q \notin stale' => q \notin stale /\ ~ (pc[q] = "decide" /\ mem[q].row = k)
    BY DEF DecideSave, Outdate
  <2>4. (SaveFits(q) /\ SaveIsFresh(q) /\ StillSitting(q) /\ StillOpen(q))'
    BY <1>5, <2>1, <2>2, <2>3
       DEF Reads, SaveFits, SaveIsFresh, StillSitting, StillOpen, DecideSave
  <2>5. (SeatIsFree(q) /\ SeatIsTheirs(q))'
    BY <2>1, <2>2, <2>3 DEF Reads, SeatIsFree, SeatIsTheirs, RowsOf, DecideSave
  <2>6. NonePending(q)'
    BY <1>4, <2>1, <2>2, <2>3 DEF Reads, NonePending
  <2>7. Decides(q)'
    <3>1. SUFFICES ASSUME pc[q] = "decide" PROVE Decides(q)'
      BY <2>1 DEF Decides
    <3>2. mem[q].row \in Rows
      BY <3>1 DEF SeanceInv, SeanceTypeOK
    <3> QED
      BY <1>1, <1>2, <1>3, <2>1, <2>2, <2>3, <3>1, <3>2 DEF Reads, Decides
  <2> QED BY <2>4, <2>5, <2>6, <2>7 DEF Reads
<1> QED BY <1>6, <1>7, <1>8, FinishStep DEF DecideSave

LEMMA SpeakingStep ==
  ASSUME SeanceInv, SeanceTypeOK', NEW r \in Requests, Speaking(r)
  PROVE  SeanceInv'
<1>1. CASE \E u \in Senators : SpeakLoad(r, u)
  <2>1. PICK u \in Senators : SpeakLoad(r, u)
    BY <1>1
  <2>2. pc'[r] = "speakFind"
    BY <2>1 DEF SpeakLoad, Goto, SeanceInv, SeanceTypeOK
  <2>3. Reads(r)'
    BY <2>1, <2>2 DEF StillSitting, StillOpen, Seating, SpeakLoad, Reads, SaveFits,
                      SaveIsFresh, SeatIsFree, SeatIsTheirs, NonePending, Decides
  <2> QED BY <2>1, <2>3, GoOnStep DEF SpeakLoad
<1>2. CASE SpeakFind(r)
  <2>1. CASE Pending(mem[r].user) = {}
    <3>1. pc'[r] = "speakInsert" /\ mem'[r] = mem[r] /\ UNCHANGED <<seance, speeches, stale>>
      BY <1>2, <2>1 DEF SpeakFind, Goto, SeanceInv, SeanceTypeOK
    <3>2. NonePending(r)'
      BY <2>1, <3>1 DEF NonePending, Pending, RowsOf
    <3>3. StillSitting(r)'
      BY <1>2, <3>1 DEF SeanceInv, Reads, StillSitting, SpeakFind, Admitted
    <3>4. Reads(r)'
      BY <3>1, <3>2, <3>3
         DEF Reads, StillOpen, Seating, SaveFits, SaveIsFresh, SeatIsFree, SeatIsTheirs,
             Decides
    <3> QED BY <1>2, <2>1, <3>4, GoOnStep DEF SpeakFind
  <2>2. CASE Pending(mem[r].user) # {}
    <3>1. pc'[r] = "idle"
      BY <1>2, <2>2 DEF SpeakFind, Finish, Goto, SeanceInv, SeanceTypeOK
    <3>2. Reads(r)'
      BY <3>1 DEF Reads, SaveFits, SaveIsFresh, StillSitting, StillOpen, SeatIsFree,
                  SeatIsTheirs, NonePending, Decides, Admitted, Seating
    <3> QED BY <1>2, <2>2, <3>2, GoOnStep DEF SpeakFind, Finish, Outdate
  <2> QED BY <2>1, <2>2
<1> QED BY <1>1, <1>2, SpeakInsertStep, DecideLoadStep, DecideSaveStep DEF Speaking

LEMMA SeanceInvStep ==
  ASSUME SeanceInv, [SeanceNext]_seanceVars
  PROVE  SeanceInv'
<1>1. SeanceTypeOK'
  BY SeanceTypeStep DEF SeanceInv
<1>2. ASSUME NEW r \in Requests, Conduct(r) PROVE SeanceInv'
  BY <1>1, <1>2, TransitionStep, SetModeStep, SeanceSaveStep, FailsStep DEF Conduct
<1>3. ASSUME NEW r \in Requests, Patching(r) PROVE SeanceInv'
  BY <1>1, <1>3, PatchStep DEF Patching
<1>4. CASE SeanceNext
  BY <1>1, <1>2, <1>3, <1>4, AssigningStep, SigningStep, SpeakingStep DEF SeanceNext
<1>5. CASE UNCHANGED seanceVars
  <2>1. ASSUME NEW r \in Requests PROVE Reads(r)'
    <3>1. Reads(r)
      BY DEF SeanceInv
    <3> QED
      BY <1>5, <3>1 DEF seanceVars, Reads, SaveFits, SaveIsFresh, StillSitting, StillOpen,
         SeatIsFree, SeatIsTheirs, NonePending, Decides, RowsOf, Pending
  <2>2. (QuorumWithinSeats /\ OneParticipant /\ OnePending)'
    BY <1>5 DEF SeanceInv, seanceVars, QuorumWithinSeats, OneParticipant, OnePending,
                RowsOf, Pending
  <2> QED BY <1>1, <2>1, <2>2 DEF SeanceInv
<1> QED BY <1>4, <1>5

LEMMA SeanceInvInit ==
  ASSUME SeanceInit
  PROVE  SeanceInv
<1>1. SeanceTypeOK
  BY SeanceInitType
<1>2. \A r \in Requests : Reads(r)
  BY DEF SeanceInit, Reads, SaveFits, SaveIsFresh, StillSitting, StillOpen, SeatIsFree,
         SeatIsTheirs, NonePending, Decides, Admitted, Seating
<1>3. QuorumWithinSeats
  BY DEF SeanceInit, QuorumWithinSeats
<1>4. OneParticipant /\ OnePending
  BY DEF SeanceInit, OneParticipant, OnePending, RowsOf, Pending
<1> QED BY <1>1, <1>2, <1>3, <1>4 DEF SeanceInv

(***************************************************************************)
(* The theorems.                                                           *)
(***************************************************************************)
\* Whatever the requests do, and wherever they fail, the stored documents and
\* the copies in flight have the shape the handlers rely on.
THEOREM SeanceTypeCorrect == SeanceSpec => []SeanceTypeOK
<1>1. SeanceInit => SeanceTypeOK
  BY SeanceInitType
<1>2. SeanceTypeOK /\ [SeanceNext]_seanceVars => SeanceTypeOK'
  BY SeanceTypeStep
<1> QED BY <1>1, <1>2, PTL DEF SeanceSpec

\* What each request that is not stale has read is still so (SeanceInv).
THEOREM SeanceInvariant == SeanceSpec => []SeanceInv
<1>1. SeanceInit => SeanceInv
  BY SeanceInvInit
<1>2. SeanceInv /\ [SeanceNext]_seanceVars => SeanceInv'
  BY SeanceInvStep
<1> QED BY <1>1, <1>2, PTL DEF SeanceSpec

\* The quorum stays within the seats unless a patch lowers the seats alone
\* (session_schema.py:26, session_controller.py:153): every copy in flight fits.
THEOREM QuorumAlwaysFits == SeanceSpec => []QuorumWithinSeats
<1>1. SeanceInv => QuorumWithinSeats
  BY DEF SeanceInv
<1> QED BY <1>1, SeanceInvariant, PTL

\* One row per participant (session_controller.py:215) and one pending request
\* to speak (parole_service.py:66), unless two requests of one user overlap.
THEOREM OneRow == SeanceSpec => [](OneParticipant /\ OnePending)
<1>1. SeanceInv => OneParticipant /\ OnePending
  BY DEF SeanceInv
<1> QED BY <1>1, SeanceInvariant, PTL

\* What ClosedIsFinal says of a step.
StaysClosed ==
  seance.status \in Closed /\ lost' \subseteq {"shrunk"} =>
    /\ seance'.status \in Closed
    /\ Quorum' = Quorum
    /\ participants' = participants
    /\ {i \in Rows : speeches'[i] = None} = {i \in Rows : speeches[i] = None}

\* A request that passed its check and whose séance has closed since is stale,
\* and leaves its trace in `lost' if it writes.
LEMMA StaysClosedStep ==
  ASSUME SeanceInv, NEW r \in Requests,
         Conduct(r) \/ Patching(r) \/ Assigning(r) \/ Signing(r) \/ Speaking(r),
         seance.status \in Closed, lost' \subseteq {"shrunk"}
  PROVE  /\ seance'.status \in Closed /\ seance'.seats = seance.seats
         /\ seance'.quorum = seance.quorum
         /\ UNCHANGED <<participants, signatures>>
         /\ \A i \in Rows : speeches'[i] = None <=> speeches[i] = None
<1> USE DEF SeanceInv
<1>1. Reads(r) /\ seance.status \notin Sitting
  BY DEF Closed, Sitting
<1>2. CASE SeanceSave(r)
  BY <1>1, <1>2 DEF SeanceSave, Unsettles, Reads, SaveIsFresh
<1>3. CASE SeatSave(r) \/ SeatInsert(r)
  BY <1>1, <1>3 DEF SeatSave, SeatInsert, Unsettles, Reads, StillOpen, Seating
<1>4. CASE SignInsert(r)
  BY <1>1, <1>4 DEF SignInsert, Unsettles, Reads, StillSitting, Admitted
<1>5. CASE SpeakInsert(r)
  BY <1>1, <1>5 DEF SpeakInsert, Unsettles, Reads, StillSitting, Admitted
<1>6. CASE DecideSave(r)
  <2>1. mem[r].doc # None /\ speeches[mem[r].row] # None
    BY <1>1, <1>6, RowNotNone DEF DecideSave, SeanceTypeOK, Reads, Decides
  <2> QED BY <1>6, <2>1 DEF DecideSave, SeanceTypeOK
<1>7. CASE UNCHANGED <<seance, participants, signatures, speeches>>
  BY <1>7
<1> QED
  BY <1>2, <1>3, <1>4, <1>5, <1>6, <1>7
     DEF Conduct, TransitionLoad, SetModeLoad, Fails, Patching, PatchLoad, Assigning,
         SeatLoad, SeatFind, Signing, SignLoad, SignFind, Speaking, SpeakLoad,
         SpeakFind, DecideLoad

\* "sign-in on a CLOTUREE séance is refused (too late)" (presence_service.py:5):
\* a closed séance's quorum, participants and requests are final, unless by a
\* request that had been let in before the close or saves an older copy.
THEOREM ClosedSeanceIsFinal == SeanceSpec => ClosedIsFinal
<1>1. SeanceInv /\ [SeanceNext]_seanceVars => [StaysClosed]_seanceVars
  <2>1. ASSUME SeanceInv, SeanceNext PROVE StaysClosed
    <3>1. SUFFICES ASSUME seance.status \in Closed, lost' \subseteq {"shrunk"}
                   PROVE  /\ seance'.status \in Closed
                          /\ Quorum' = Quorum
                          /\ participants' = participants
                          /\ {i \in Rows : speeches'[i] = None}
                               = {i \in Rows : speeches[i] = None}
      BY DEF StaysClosed
    <3>2. /\ seance'.status \in Closed /\ seance'.seats = seance.seats
          /\ seance'.quorum = seance.quorum
          /\ UNCHANGED <<participants, signatures>>
          /\ \A i \in Rows : speeches'[i] = None <=> speeches[i] = None
      BY <2>1, <3>1, StaysClosedStep DEF SeanceNext
    <3> QED BY <3>2 DEF Quorum
  <2> QED BY <2>1
<1>2. SeanceSpec => [][StaysClosed]_seanceVars
  BY <1>1, SeanceInvariant, PTL DEF SeanceSpec
<1>3. [][StaysClosed]_seanceVars => ClosedIsFinal
  BY DEF ClosedIsFinal, StaysClosed
<1> QED BY <1>2, <1>3, PTL

\* What SpeechDecidedOnce says of a step.
DecidedFairly ==
  \A i \in Rows :
    speeches[i] # None /\ speeches'[i] # speeches[i] /\ "parole" \notin lost' =>
      /\ speeches'[i] # None
      /\ speeches'[i].user = speeches[i].user
      /\ speeches'[i].status \in SpeechTransitions[speeches[i].status]

\* Two dispatches that loaded one request to speak: the second is stale.
LEMMA DecidedFairlyStep ==
  ASSUME SeanceInv, SeanceNext
  PROVE  DecidedFairly
<1>1. PICK r \in Requests :
        Conduct(r) \/ Patching(r) \/ Assigning(r) \/ Signing(r) \/ Speaking(r)
  BY DEF SeanceNext
<1>2. Reads(r) /\ SeanceTypeOK
  BY DEF SeanceInv
<1>3. CASE DecideSave(r)
  <2>1. mem[r].doc # None /\ mem[r].row \in Rows
    BY <1>2, <1>3, RowNotNone DEF DecideSave, SeanceTypeOK
  <2>2. \A i \in Rows : speeches'[i] = IF i = mem[r].row THEN mem[r].doc ELSE speeches[i]
    BY <1>2, <1>3 DEF DecideSave, SeanceTypeOK
  <2>3. "parole" \notin lost' => r \notin stale
    BY <1>3 DEF DecideSave, Unsettles
  <2> QED
    BY <1>2, <1>3, <2>1, <2>2, <2>3 DEF DecidedFairly, DecideSave, Reads, Decides
<1>4. CASE SpeakInsert(r)
  BY <1>2, <1>4 DEF DecidedFairly, SpeakInsert, NextRow, SeanceTypeOK
<1>5. CASE UNCHANGED speeches
  BY <1>5 DEF DecidedFairly
<1> QED
  BY <1>1, <1>3, <1>4, <1>5
     DEF Conduct, TransitionLoad, SetModeLoad, SeanceSave, Fails, Patching, PatchLoad,
         Assigning, SeatLoad, SeatFind, SeatSave, SeatInsert, Signing, SignLoad, SignFind,
         SignInsert, Speaking, SpeakLoad, SpeakFind, DecideLoad

\* A request to speak is decided once and by its life cycle, unless two
\* dispatches of it overlapped (parole_service.py:135).
THEOREM SpeechIsDecidedOnce == SeanceSpec => SpeechDecidedOnce
<1>1. SeanceInv /\ [SeanceNext]_seanceVars => [DecidedFairly]_seanceVars
  BY DecidedFairlyStep
<1>2. SeanceSpec => [][DecidedFairly]_seanceVars
  BY <1>1, SeanceInvariant, PTL DEF SeanceSpec
<1> QED BY <1>2 DEF SpeechDecidedOnce, DecidedFairly
=============================================================================
