---------------------------- MODULE ChamberProofs ----------------------------
(***************************************************************************)
(* The agenda's properties for any number of clerks and points, and those  *)
(* of the whole chamber, which follow part by part: a step of the chamber  *)
(* is a step of one part, and the others rest.                             *)
(***************************************************************************)
EXTENDS Chamber, SessionMeetingProofs, DocumentsProofs

(***************************************************************************)
(* The agenda.  What a request that is not undercut has loaded is still    *)
(* what is stored, so far as the properties care.                          *)
(***************************************************************************)
HoldsAt(c, label, loaded, late) ==
  /\ label \in {"clear", "activate"} =>
       \A p, q \in Points : loaded[p] # NoPoint /\ loaded[q] # NoPoint => p = q
  /\ c \notin late /\ label \in {"patch", "reorder"} =>
       \A p \in Points : loaded[p] # NoPoint =>
         points[p] # NoPoint /\ loaded[p].active = points[p].active
  /\ c \notin late /\ label = "delete" =>
       \A p \in Points : loaded[p] # NoPoint => p \notin Active
  /\ c \notin late /\ label = "activate" => \A p \in Active : loaded[p] # NoPoint

Holds(c) == HoldsAt(c, at[c], copy[c], undercut)

AgendaInv ==
  /\ AgendaTypeOK
  /\ OneActivePoint
  /\ \A c \in Clerks : Holds(c)

Labels == {"idle", "patch", "reorder", "clear", "activate", "delete"}

LEMMA OnlyType ==
  ASSUME NEW p \in Points, NEW doc \in PointDocs
  PROVE  /\ Only(p, doc) \in [Points -> PointDocs \union {NoPoint}]
         /\ \A q \in Points : Only(p, doc)[q] = IF q = p THEN doc ELSE NoPoint
         /\ doc # NoPoint
BY NoPointAssumption DEF Only, Nothing

LEMMA WaitType ==
  ASSUME AgendaTypeOK, NEW c \in Clerks, NEW label \in Labels,
         NEW loaded \in [Points -> PointDocs \union {NoPoint}], Wait(c, label, loaded),
         points' \in [Points -> PointDocs \union {NoPoint}],
         undercut' \subseteq Clerks, clashed' \in BOOLEAN
  PROVE  /\ AgendaTypeOK'
         /\ at'[c] = label /\ copy'[c] = loaded
         /\ \A d \in Clerks \ {c} : at'[d] = at[d] /\ copy'[d] = copy[d]
BY DEF AgendaTypeOK, Wait, Labels

\* What c writes and another has read makes the other undercut.
LEMMA OthersHold ==
  ASSUME AgendaInv, NEW c \in Clerks, NEW d \in Clerks \ {c},
         at'[d] = at[d], copy'[d] = copy[d], (undercut \ {c}) \union Felt(c) \subseteq undercut'
  PROVE  Holds(d)'
<1>1. Holds(d)
  BY DEF AgendaInv
<1>2. d \notin undercut' =>
        /\ d \notin undercut
        /\ \A p \in Points : copy[d][p] # NoPoint => points'[p] = points[p]
        /\ at[d] = "activate" =>
             \A p \in Points : copy[d][p] = NoPoint /\ p \in Active' => p \in Active
  BY DEF Felt, Loaded, Active, Stored
<1>3. ASSUME d \notin undercut', at[d] = "activate"
      PROVE  \A p \in Active' : copy[d][p] # NoPoint
  BY <1>1, <1>2, <1>3 DEF Holds, HoldsAt, Active, Stored
<1>4. ASSUME d \notin undercut', at[d] = "delete"
      PROVE  \A p \in Points : copy[d][p] # NoPoint => p \notin Active'
  BY <1>1, <1>2, <1>4 DEF Holds, HoldsAt, Active, Stored
<1>5. ASSUME d \notin undercut', at[d] \in {"patch", "reorder"}
      PROVE  \A p \in Points : copy[d][p] # NoPoint =>
               points'[p] # NoPoint /\ copy[d][p].active = points'[p].active
  BY <1>1, <1>2, <1>5 DEF Holds, HoldsAt
<1> QED BY <1>1, <1>3, <1>4, <1>5 DEF Holds, HoldsAt

LEMMA NotFelt ==
  ASSUME NEW c \in Clerks, points' = points
  PROVE  Felt(c) = {}
BY DEF Felt

LEMMA AgendaInvFrom ==
  ASSUME AgendaInv, NEW c \in Clerks, AgendaTypeOK', OneActivePoint', Holds(c)',
         \A d \in Clerks \ {c} : at'[d] = at[d] /\ copy'[d] = copy[d],
         (undercut \ {c}) \union Felt(c) \subseteq undercut'
  PROVE  AgendaInv'
BY OthersHold DEF AgendaInv

\* A request loads what it needs, and nothing stored changes.
LEMMA AgendaLoad ==
  ASSUME AgendaInv, NEW c \in Clerks, NEW label \in Labels,
         NEW loaded \in [Points -> PointDocs \union {NoPoint}], Wait(c, label, loaded),
         UNCHANGED <<points, clashed>>, undercut' = undercut \/ undercut' = undercut \ {c},
         HoldsAt(c, label, loaded, undercut')
  PROVE  AgendaInv'
<1>1. /\ AgendaTypeOK'
      /\ at'[c] = label /\ copy'[c] = loaded
      /\ \A d \in Clerks \ {c} : at'[d] = at[d] /\ copy'[d] = copy[d]
  BY WaitType DEF AgendaInv, AgendaTypeOK
<1>2. Holds(c)'
  BY <1>1 DEF Holds, HoldsAt, Active, Stored
<1>3. OneActivePoint'
  BY DEF AgendaInv, OneActivePoint, Active, Stored
<1> QED BY <1>1, <1>2, <1>3, NotFelt, AgendaInvFrom

LEMMA NothingType ==
  /\ Nothing \in [Points -> PointDocs \union {NoPoint}]
  /\ \A p \in Points : Nothing[p] = NoPoint
BY DEF Nothing

LEMMA PatchPointStep ==
  ASSUME AgendaInv, NEW c \in Clerks, NEW p \in Points, NEW rank \in Ranks,
         PatchPoint(c, p, rank)
  PROVE  AgendaInv'
<1> DEFINE doc == [points[p] EXCEPT !.rank = rank]
<1>1. points[p] \in PointDocs /\ points[p] # NoPoint
  BY DEF AgendaInv, AgendaTypeOK, PatchPoint, Stored
<1>2. doc \in PointDocs /\ doc.active = points[p].active
  BY <1>1 DEF PointDocs
<1>3. HoldsAt(c, "patch", Only(p, doc), undercut')
  BY <1>1, <1>2, OnlyType DEF HoldsAt
<1> QED BY <1>2, <1>3, OnlyType, AgendaLoad DEF PatchPoint, Labels

LEMMA DeleteLoadStep ==
  ASSUME AgendaInv, NEW c \in Clerks, NEW p \in Points, DeleteLoad(c, p)
  PROVE  AgendaInv'
<1>1. points[p] \in PointDocs
  BY DEF AgendaInv, AgendaTypeOK, DeleteLoad, Stored
<1>2. HoldsAt(c, "delete", Only(p, points[p]), undercut')
  BY <1>1, OnlyType DEF HoldsAt, DeleteLoad, Active
<1> QED BY <1>1, <1>2, OnlyType, AgendaLoad DEF DeleteLoad, Labels

LEMMA ActivateLoadStep ==
  ASSUME AgendaInv, NEW c \in Clerks, NEW p \in Points, ActivateLoad(c, p)
  PROVE  AgendaInv'
<1> DEFINE doc == [points[p] EXCEPT !.active = TRUE]
<1>1. doc \in PointDocs
  BY DEF AgendaInv, AgendaTypeOK, ActivateLoad, Stored, PointDocs
<1>2. HoldsAt(c, "clear", Only(p, doc), undercut')
  BY <1>1, OnlyType DEF HoldsAt
<1> QED BY <1>1, <1>2, OnlyType, AgendaLoad DEF ActivateLoad, Labels

LEMMA ReorderStep ==
  ASSUME AgendaInv, NEW c \in Clerks, NEW P \in SUBSET Stored, NEW rank \in [P -> Ranks],
         Reorder(c, rank)
  PROVE  AgendaInv'
<1> DEFINE loaded == [p \in Points |->
                        IF p \in DOMAIN rank /\ points[p].rank # rank[p]
                        THEN [points[p] EXCEPT !.rank = rank[p]] ELSE NoPoint]
<1>1. \A p \in P : points[p] \in PointDocs /\ points[p] # NoPoint /\ rank[p] \in Ranks
  BY DEF AgendaInv, AgendaTypeOK, Stored
<1>2. ASSUME NEW p \in P
      PROVE  LET doc == [points[p] EXCEPT !.rank = rank[p]]
             IN doc \in PointDocs /\ doc.active = points[p].active
  BY <1>1 DEF PointDocs
<1>3. loaded \in [Points -> PointDocs \union {NoPoint}]
  BY <1>2
<1>4. HoldsAt(c, "reorder", loaded, undercut')
  BY <1>1, <1>2 DEF HoldsAt
<1>5. Wait(c, "reorder", loaded)
  BY DEF Reorder
<1> HIDE DEF loaded
<1> QED BY <1>3, <1>4, <1>5, AgendaLoad DEF Reorder, Labels

LEMMA FailStep ==
  ASSUME AgendaInv, NEW c \in Clerks, Fail(c)
  PROVE  AgendaInv'
<1>1. HoldsAt(c, "idle", Nothing, undercut')
  BY NothingType DEF HoldsAt
<1> QED BY <1>1, NothingType, AgendaLoad DEF Fail, Answer, Labels

LEMMA CreateStep ==
  ASSUME AgendaInv, NEW c \in Clerks, NEW p \in Points, NEW rank \in Ranks,
         Create(c, p, rank)
  PROVE  AgendaInv'
<1> DEFINE doc == [active |-> FALSE, published |-> FALSE, rank |-> rank]
<1>1. doc \in PointDocs /\ ~ doc.active
  BY DEF PointDocs
<1> HIDE DEF doc
<1>2. /\ points' = [points EXCEPT ![p] = doc]
      /\ points[p] = NoPoint
      /\ \A d \in Clerks : copy[d][p] = NoPoint
  BY DEF Create, doc, Stored, Loaded
<1>3. \A q \in Points : points'[q] = IF q = p THEN doc ELSE points[q]
  BY <1>2 DEF AgendaInv, AgendaTypeOK
<1>4. AgendaTypeOK'
  BY <1>1, <1>2 DEF AgendaInv, AgendaTypeOK, Create
<1>5. \A q \in Points : q \in Active' <=> q \in Active
  BY <1>1, <1>2, <1>3, NoPointAssumption DEF Active, Stored
<1>6. OneActivePoint'
  BY <1>5 DEF AgendaInv, OneActivePoint, Create, Active, Stored
<1>7. \A d \in Clerks : Holds(d)'
  <2> TAKE d \in Clerks
  <2>1. Holds(d) /\ at'[d] = at[d] /\ copy'[d] = copy[d] /\ undercut' = undercut
    BY DEF AgendaInv, Create
  <2>2. \A q \in Active' : q \in Active
    BY <1>5 DEF Active, Stored
  <2>3. \A q \in Points : copy[d][q] # NoPoint => points'[q] = points[q]
    BY <1>2, <1>3
  <2> QED BY <1>5, <2>1, <2>2, <2>3 DEF Holds, HoldsAt
<1> QED BY <1>4, <1>6, <1>7 DEF AgendaInv

LEMMA PublishStep ==
  ASSUME AgendaInv, NEW c \in Clerks, NEW flag \in BOOLEAN, Publish(c, flag)
  PROVE  AgendaInv'
<1> DEFINE shown(p) == [points[p] EXCEPT !.published = flag]
<1>1a. points' = [p \in Points |-> IF p \in Stored THEN shown(p) ELSE NoPoint]
  BY DEF Publish
<1>1b. \A p \in Points : points[p] # NoPoint => points[p] \in PointDocs
  BY DEF AgendaInv, AgendaTypeOK
<1>1c. \A p \in Points : points[p] # NoPoint =>
        shown(p) \in PointDocs /\ shown(p).active = points[p].active
  BY <1>1b DEF PointDocs
<1> HIDE DEF shown
<1>1. \A p \in Points : points'[p] = IF points[p] # NoPoint THEN shown(p) ELSE NoPoint
  BY <1>1a DEF Stored
<1>2. \A p \in Points : points[p] # NoPoint =>
        /\ points'[p] \in PointDocs /\ points'[p] # NoPoint
        /\ points'[p].active = points[p].active
  BY <1>1, <1>1c, NoPointAssumption
<1>3. points' \in [Points -> PointDocs \union {NoPoint}]
  BY <1>1a, <1>1c DEF Stored
<1>4. Felt(c) \subseteq Clerks
  BY DEF Felt
<1>5. AgendaTypeOK'
  BY <1>3, <1>4 DEF AgendaInv, AgendaTypeOK, Publish
<1>6. \A p \in Points : p \in Active' <=> p \in Active
  BY <1>1, <1>2 DEF Active, Stored
<1>7. OneActivePoint'
  BY <1>6 DEF AgendaInv, OneActivePoint, Publish, Active, Stored
<1>8. Holds(c)'
  <2>1. Holds(c) /\ at'[c] = at[c] /\ copy'[c] = copy[c]
    BY DEF AgendaInv, Publish
  <2>2. c \notin undercut' => c \notin undercut
    BY DEF Publish
  <2>3. \A p \in Active' : p \in Active
    BY <1>6 DEF Active, Stored
  <2> QED BY <1>2, <1>6, <2>1, <2>2, <2>3 DEF Holds, HoldsAt
<1> QED BY <1>5, <1>7, <1>8, AgendaInvFrom DEF Publish

LEMMA DeleteStep ==
  ASSUME AgendaInv, NEW c \in Clerks, Delete(c)
  PROVE  AgendaInv'
<1>1. points' \in [Points -> PointDocs \union {NoPoint}]
  BY DEF AgendaInv, AgendaTypeOK, Delete
<1>2. clashed \in BOOLEAN /\ undercut \subseteq Clerks /\ Felt(c) \subseteq Clerks
  BY DEF AgendaInv, AgendaTypeOK, Felt
<1>3. undercut' \subseteq Clerks /\ clashed' \in BOOLEAN /\ (clashed => clashed')
  BY <1>2 DEF Delete, Writes
<1>4. /\ AgendaTypeOK'
      /\ at'[c] = "idle"
      /\ \A d \in Clerks \ {c} : at'[d] = at[d] /\ copy'[d] = copy[d]
  BY <1>1, <1>3, NothingType, WaitType DEF AgendaInv, Delete, Answer, Labels
<1>5. OneActivePoint'
  <2>1. \A p \in Points : p \in Active' => p \in Active
    BY DEF Delete, Active, Stored
  <2> QED BY <1>3, <2>1 DEF AgendaInv, OneActivePoint, Active, Stored
<1>6. Holds(c)'
  BY <1>4 DEF Holds, HoldsAt
<1>7. (undercut \ {c}) \union Felt(c) \subseteq undercut'
  BY DEF Delete, Felt
<1> QED BY <1>4, <1>5, <1>6, <1>7, AgendaInvFrom

LEMMA SavePointStep ==
  ASSUME AgendaInv, NEW c \in Clerks, SavePoint(c)
  PROVE  AgendaInv'
<1>1. PICK p \in Loaded(c) :
        /\ points' = [points EXCEPT ![p] = copy[c][p]]
        /\ IF Loaded(c) = {p}
           THEN Answer(c)
           ELSE Wait(c, "reorder", [copy[c] EXCEPT ![p] = NoPoint])
        /\ undercut' = (undercut \union Felt(c)) \ (IF Loaded(c) = {p} THEN {c} ELSE {})
  BY DEF SavePoint
<1> DEFINE doc == copy[c][p]
           rest == IF Loaded(c) = {p} THEN Nothing ELSE [copy[c] EXCEPT ![p] = NoPoint]
           label == IF Loaded(c) = {p} THEN "idle" ELSE "reorder"
<1>2. p \in Points /\ doc \in PointDocs /\ doc # NoPoint
  BY DEF Loaded, AgendaInv, AgendaTypeOK
<1>3. \A q \in Points : points'[q] = IF q = p THEN doc ELSE points[q]
  BY <1>1, <1>2 DEF AgendaInv, AgendaTypeOK
<1>4. rest \in [Points -> PointDocs \union {NoPoint}] /\ label \in Labels
  BY NothingType DEF AgendaInv, AgendaTypeOK, Labels
<1>5. Wait(c, label, rest)
  BY <1>1 DEF Answer
<1>6. /\ points' \in [Points -> PointDocs \union {NoPoint}]
      /\ undercut' \subseteq Clerks
      /\ clashed' \in BOOLEAN /\ (clashed => clashed') /\ (~ clashed' => c \notin undercut)
  BY <1>1, <1>2 DEF AgendaInv, AgendaTypeOK, Felt, SavePoint, Writes
<1> HIDE DEF rest, label
<1>7. /\ AgendaTypeOK'
      /\ at'[c] = label /\ copy'[c] = rest
      /\ \A d \in Clerks \ {c} : at'[d] = at[d] /\ copy'[d] = copy[d]
  BY <1>4, <1>5, <1>6, WaitType DEF AgendaInv
<1>8. Holds(c) /\ at[c] \in {"patch", "reorder"}
  BY DEF AgendaInv, SavePoint
<1>9. OneActivePoint'
  <2>1. c \notin undercut => points[p] # NoPoint /\ doc.active = points[p].active
    BY <1>2, <1>8 DEF Holds, HoldsAt
  <2>2. c \notin undercut => \A q \in Points : q \in Active' => q \in Active
    BY <1>2, <1>3, <2>1 DEF Active, Stored
  <2> QED BY <1>6, <2>2 DEF AgendaInv, OneActivePoint, Active, Stored
<1>10. Holds(c)'
  <2>1. CASE Loaded(c) = {p}
    BY <1>7, <2>1 DEF Holds, HoldsAt, label
  <2>2. CASE Loaded(c) # {p}
    <3>1. label = "reorder" /\ rest = [copy[c] EXCEPT ![p] = NoPoint]
      BY <2>2 DEF label, rest
    <3>2. \A q \in Points : rest[q] # NoPoint => q # p /\ rest[q] = copy[c][q]
      BY <3>1, <1>2 DEF AgendaInv, AgendaTypeOK
    <3>3. c \notin undercut' => c \notin undercut
      BY <1>1, <2>2
    <3> QED BY <1>3, <1>7, <1>8, <3>1, <3>2, <3>3 DEF Holds, HoldsAt
  <2> QED BY <2>1, <2>2
<1>11. (undercut \ {c}) \union Felt(c) \subseteq undercut'
  BY <1>1 DEF Felt
<1> QED BY <1>7, <1>9, <1>10, <1>11, AgendaInvFrom

LEMMA ActivateClearStep ==
  ASSUME AgendaInv, NEW c \in Clerks, ActivateClear(c)
  PROVE  AgendaInv'
<1>1. \A p \in Points :
        points'[p] = IF p \in Active /\ copy[c][p] = NoPoint
                     THEN [points[p] EXCEPT !.active = FALSE] ELSE points[p]
  BY DEF ActivateClear, Loaded
<1>2. \A p \in Active :
        LET doc == [points[p] EXCEPT !.active = FALSE]
        IN doc \in PointDocs /\ ~ doc.active
  BY DEF AgendaInv, AgendaTypeOK, Active, Stored, PointDocs
<1>3. points' \in [Points -> PointDocs \union {NoPoint}]
  BY <1>2 DEF AgendaInv, AgendaTypeOK, ActivateClear
<1>4. undercut' \subseteq Clerks /\ clashed' \in BOOLEAN
  BY DEF AgendaInv, AgendaTypeOK, ActivateClear, Felt
<1>5. /\ AgendaTypeOK'
      /\ at'[c] = "activate" /\ copy'[c] = copy[c]
      /\ \A d \in Clerks \ {c} : at'[d] = at[d] /\ copy'[d] = copy[d]
  <2>1. copy[c] \in [Points -> PointDocs \union {NoPoint}]
    BY DEF AgendaInv, AgendaTypeOK
  <2> QED BY <1>3, <1>4, <2>1, WaitType DEF AgendaInv, ActivateClear, Labels
<1>6. \A p \in Points : p \in Active' => p \in Active /\ copy[c][p] # NoPoint
  BY <1>1, <1>2 DEF Active, Stored
<1>7. OneActivePoint'
  BY <1>6 DEF AgendaInv, OneActivePoint, ActivateClear, Active, Stored
<1>8. Holds(c)'
  <2>1. Holds(c) /\ at[c] = "clear"
    BY DEF AgendaInv, ActivateClear
  <2>2. \A p \in Active' : copy[c][p] # NoPoint
    BY <1>6 DEF Active, Stored
  <2> QED BY <1>5, <2>1, <2>2 DEF Holds, HoldsAt
<1> QED BY <1>5, <1>7, <1>8, AgendaInvFrom DEF ActivateClear

LEMMA ActivateSaveStep ==
  ASSUME AgendaInv, NEW c \in Clerks, ActivateSave(c)
  PROVE  AgendaInv'
<1>1. \A p \in Points : points'[p] = IF copy[c][p] # NoPoint THEN copy[c][p] ELSE points[p]
  BY DEF ActivateSave, Loaded
<1>2. points' \in [Points -> PointDocs \union {NoPoint}]
  BY DEF AgendaInv, AgendaTypeOK, ActivateSave, Loaded
<1>3. /\ undercut' \subseteq Clerks
      /\ clashed' \in BOOLEAN /\ (~ clashed' => c \notin undercut)
  BY DEF AgendaInv, AgendaTypeOK, ActivateSave, Felt, Writes
<1>4. /\ AgendaTypeOK'
      /\ at'[c] = "idle"
      /\ \A d \in Clerks \ {c} : at'[d] = at[d] /\ copy'[d] = copy[d]
  BY <1>2, <1>3, NothingType, WaitType DEF AgendaInv, ActivateSave, Answer, Labels
<1>5. OneActivePoint'
  <2>1. Holds(c) /\ at[c] = "activate"
    BY DEF AgendaInv, ActivateSave
  <2>2. c \notin undercut => \A p \in Points : p \in Active' => copy[c][p] # NoPoint
    BY <1>1, <2>1 DEF Holds, HoldsAt, Active, Stored
  <2> QED BY <1>3, <2>1, <2>2 DEF Holds, HoldsAt, OneActivePoint, Active, Stored
<1>6. Holds(c)'
  BY <1>4 DEF Holds, HoldsAt
<1>7. (undercut \ {c}) \union Felt(c) \subseteq undercut'
  BY DEF ActivateSave, Felt
<1> QED BY <1>4, <1>5, <1>6, <1>7, AgendaInvFrom

LEMMA AgendaInvStep ==
  ASSUME AgendaInv, [AgendaNext]_agendaVars
  PROVE  AgendaInv'
<1>1. CASE AgendaNext
  BY <1>1, CreateStep, PatchPointStep, DeleteLoadStep, ActivateLoadStep, ReorderStep,
     PublishStep, DeleteStep, SavePointStep, ActivateClearStep, ActivateSaveStep, FailStep
     DEF AgendaNext
<1>2. CASE UNCHANGED agendaVars
  BY <1>2 DEF agendaVars, AgendaInv, AgendaTypeOK, OneActivePoint, Holds, HoldsAt, Active,
              Stored
<1> QED BY <1>1, <1>2

LEMMA AgendaInvInit ==
  ASSUME AgendaInit
  PROVE  AgendaInv
<1>1. AgendaTypeOK
  BY NothingType DEF AgendaInit, AgendaTypeOK
<1>2. Active = {}
  BY NothingType DEF AgendaInit, Active, Stored
<1> QED BY <1>1, <1>2 DEF AgendaInit, AgendaInv, OneActivePoint, Holds, HoldsAt

\* However requests interleave, points and copies in flight are well formed.
THEOREM AgendaTypeCorrect == AgendaSpec => []AgendaTypeOK
<1>1. AgendaInit => AgendaInv
  BY AgendaInvInit
<1>2. AgendaInv /\ [AgendaNext]_agendaVars => AgendaInv'
  BY AgendaInvStep
<1>3. AgendaInv => AgendaTypeOK
  BY DEF AgendaInv
<1> QED BY <1>1, <1>2, <1>3, PTL DEF AgendaSpec

\* What ActiveIsKept says of a step.
KeepsActive == \A p \in Active : points'[p] = NoPoint => clashed'

LEMMA KeepsActiveStep ==
  ASSUME AgendaInv, AgendaNext
  PROVE  KeepsActive
<1> SUFFICES ASSUME NEW p \in Active, points'[p] = NoPoint PROVE clashed'
  BY DEF KeepsActive
<1>1. p \in Points /\ points[p] \in PointDocs /\ points[p].active /\ points[p] # NoPoint
  BY DEF AgendaInv, AgendaTypeOK, Active, Stored
<1>2. PICK c \in Clerks :
        \/ \E q \in Points, rank \in Ranks : Create(c, q, rank) \/ PatchPoint(c, q, rank)
        \/ \E q \in Points : DeleteLoad(c, q) \/ ActivateLoad(c, q)
        \/ \E P \in SUBSET Stored : \E rank \in [P -> Ranks] : Reorder(c, rank)
        \/ \E flag \in BOOLEAN : Publish(c, flag)
        \/ Delete(c) \/ SavePoint(c) \/ ActivateClear(c) \/ ActivateSave(c) \/ Fail(c)
  BY DEF AgendaNext
<1>3. Holds(c) /\ clashed \in BOOLEAN
  BY DEF AgendaInv, AgendaTypeOK
<1>4. CASE Delete(c)
  <2>1. copy[c][p] # NoPoint
    BY <1>1, <1>4 DEF Delete, Loaded
  <2>2. c \in undercut
    BY <1>1, <1>3, <1>4, <2>1 DEF Holds, HoldsAt, Delete
  <2> QED BY <1>4, <2>2 DEF Delete, Writes
<1>5. ASSUME NEW flag \in BOOLEAN, Publish(c, flag) PROVE FALSE
  <2> DEFINE shown(q) == [points[q] EXCEPT !.published = flag]
  <2>1. points' = [q \in Points |-> IF q \in Stored THEN shown(q) ELSE NoPoint]
    BY <1>5 DEF Publish
  <2>2. shown(p) \in PointDocs
    BY <1>1 DEF PointDocs
  <2> HIDE DEF shown
  <2> QED BY <1>1, <2>1, <2>2, NoPointAssumption DEF Stored
<1>6. CASE ActivateClear(c)
  <2>1. [points[p] EXCEPT !.active = FALSE] \in PointDocs
    BY <1>1 DEF PointDocs
  <2> QED BY <1>1, <1>6, <2>1, NoPointAssumption DEF ActivateClear
<1>7. CASE ActivateSave(c) \/ SavePoint(c)
  BY <1>1, <1>7 DEF ActivateSave, SavePoint, Loaded, AgendaInv, AgendaTypeOK
<1>8. ASSUME NEW q \in Points, NEW rank \in Ranks, Create(c, q, rank) PROVE FALSE
  BY <1>1, <1>8 DEF Create, Stored, AgendaInv, AgendaTypeOK
<1>9. CASE UNCHANGED points
  BY <1>1, <1>9
<1> QED
  BY <1>2, <1>4, <1>5, <1>6, <1>7, <1>8, <1>9
     DEF PatchPoint, DeleteLoad, ActivateLoad, Reorder, Fail

\* The point under discussion is deleted only by a request that was overtaken
\* (agenda_controller.py:147).
THEOREM ActivePointIsKept == AgendaSpec => ActiveIsKept
<1>1. AgendaInit => AgendaInv
  BY AgendaInvInit
<1>2. AgendaInv /\ [AgendaNext]_agendaVars => AgendaInv'
  BY AgendaInvStep
<1>3. AgendaInv /\ [AgendaNext]_agendaVars => [KeepsActive]_agendaVars
  BY KeepsActiveStep
<1>4. AgendaSpec => [][KeepsActive]_agendaVars
  BY <1>1, <1>2, <1>3, PTL DEF AgendaSpec
<1> QED BY <1>4 DEF ActiveIsKept, KeepsActive

(***************************************************************************)
(* The chamber: a step is a step of one part and leaves the others alone.  *)
(***************************************************************************)
LEMMA SeanceSteps == [Next]_vars => [SeanceNext]_seanceVars
BY DEF Next, vars, SeanceStrand, SeanceNext

LEMMA AgendaSteps == [Next]_vars => [AgendaNext]_agendaVars
BY DEF Next, vars

LEMMA DocSteps == [Next]_vars => [DocNext]_docVars
BY DEF Next, vars, DocStrand, DocNext

\* What holds of the séance, of the agenda or of the documents by themselves holds
\* of the chamber: no action of one part writes a variable of another.
LEMMA PartsByThemselves == Spec => SeanceSpec /\ AgendaSpec /\ DocSpec
<1>1. Init => SeanceInit /\ AgendaInit /\ DocInit
  BY DEF Init
<1> QED
  BY <1>1, SeanceSteps, AgendaSteps, DocSteps, PTL DEF Spec, SeanceSpec, AgendaSpec, DocSpec

\* "At most one is_active=True item per session at a time"
\* (agenda_service.py:3): an activation that nothing overtook finds every active
\* point in its own copy when it saves.
THEOREM OneActivePointAlways == Spec => []OneActivePoint
<1>1. AgendaInit => AgendaInv
  BY AgendaInvInit
<1>2. AgendaInv /\ [AgendaNext]_agendaVars => AgendaInv'
  BY AgendaInvStep
<1>3. AgendaInv => OneActivePoint
  BY DEF AgendaInv
<1> QED BY <1>1, <1>2, <1>3, PartsByThemselves, PTL DEF AgendaSpec

\* One participant row per user (session_controller.py:215) and one pending
\* request to speak (parole_service.py:66) in the whole chamber.
THEOREM OneRowEachAlways == Spec => []OneRowEach
<1>1. OneParticipant /\ OnePending => OneRowEach
  BY DEF OneRowEach
<1> QED BY <1>1, OneRow, PartsByThemselves, PTL

\* Every document and every copy in flight in the chamber is well formed.
THEOREM ChamberTypeCorrect == Spec => []TypeOK
<1>1. SeanceTypeOK /\ AgendaTypeOK /\ DocTypeOK => TypeOK
  BY DEF TypeOK
<1> QED
  BY <1>1, SeanceTypeCorrect, AgendaTypeCorrect, DocTypeCorrect, PartsByThemselves, PTL

\* A greffier's decision on a request to speak (parole_service.py:116) or on an
\* amendment (document_service.py:97) is not decided again.
THEOREM DecisionsAreFinal == Spec => DecidedOnce
BY SpeechIsDecidedOnce, AmendmentRuledOnce, PartsByThemselves, PTL DEF DecidedOnce

\* The active point and a published document are not deleted from under their
\* readers (agenda_controller.py:147, document_controller.py:170).
THEOREM NothingInUseIsDeleted == Spec => InUseIsKept
BY ActivePointIsKept, PublishedDocumentIsKept, PartsByThemselves, PTL DEF InUseIsKept
=============================================================================
