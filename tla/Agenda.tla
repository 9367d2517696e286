------------------------------- MODULE Agenda -------------------------------
(***************************************************************************)
(* The points of one séance's agenda (AgendaItem documents) as the agenda  *)
(* module handles them: create, patch, delete, reorder, activate, publish. *)
(*                                                                         *)
(* As everywhere in the program an action is the code between two database *)
(* calls and save() writes the whole copy a request loaded.  save() also   *)
(* inserts: a point deleted since it was loaded comes back.                *)
(***************************************************************************)
EXTENDS Naturals, FiniteSets

CONSTANTS
  Clerks,    \* requests being served at a time; a slot is reused
  Points,    \* bound: the points there may be at a time
  Ranks,     \* values of order_index
  NoPoint    \* no such document

PointDocs == [active: BOOLEAN, published: BOOLEAN, rank: Ranks]

ASSUME NoPointAssumption == NoPoint \notin PointDocs
ASSUME RanksAssumption == Ranks \subseteq Nat

VARIABLES
  points,     \* the stored AgendaItem documents
  at,         \* where each request waits
  copy,       \* the documents it has loaded, changed, and not yet saved
  undercut,   \* history: requests whose reads have been overwritten since
  clashed     \* history: such a request has saved or deleted all the same

agendaVars == <<points, at, copy, undercut, clashed>>

AgendaTypeOK ==
  /\ points \in [Points -> PointDocs \union {NoPoint}]
  /\ at \in [Clerks -> {"idle", "patch", "reorder", "clear", "activate", "delete"}]
  /\ copy \in [Clerks -> [Points -> PointDocs \union {NoPoint}]]
  /\ undercut \subseteq Clerks
  /\ clashed \in BOOLEAN

Nothing == [p \in Points |-> NoPoint]

AgendaInit ==
  /\ points = Nothing
  /\ at = [c \in Clerks |-> "idle"]
  /\ copy = [c \in Clerks |-> Nothing]
  /\ undercut = {}
  /\ clashed = FALSE

Stored == {p \in Points : points[p] # NoPoint}
Active == {p \in Stored : points[p].active}
Loaded(c) == {p \in Points : copy[c][p] # NoPoint}

Wait(c, label, docs) ==
  /\ at' = [at EXCEPT ![c] = label]
  /\ copy' = [copy EXCEPT ![c] = docs]

Answer(c) == Wait(c, "idle", Nothing)

Only(p, doc) == [Nothing EXCEPT ![p] = doc]

\* A write is felt by whoever had loaded the point, and by an activation that
\* has cleared its siblings when one of them becomes active again.
Felt(c) ==
  {d \in Clerks \ {c} :
     \/ \E p \in Loaded(d) : points'[p] # points[p]
     \/ /\ at[d] = "activate"
        /\ \E p \in Points \ Loaded(d) :
             /\ points'[p] # NoPoint /\ points'[p].active
             /\ ~ (points[p] # NoPoint /\ points[p].active)}

Writes(c) == clashed' = (clashed \/ c \in undercut)

(***************************************************************************)
(* create, patch, delete.                                                  *)
(***************************************************************************)
Create(c, p, rank) ==
  /\ at[c] = "idle"
  /\ p \notin Stored
  /\ \A d \in Clerks : p \notin Loaded(d)
  /\ points' = [points EXCEPT
                  ![p] = [active |-> FALSE, published |-> FALSE, rank |-> rank]]
  /\ UNCHANGED <<at, copy, undercut, clashed>>

PatchPoint(c, p, rank) ==
  /\ at[c] = "idle"
  /\ p \in Stored
  /\ Wait(c, "patch", Only(p, [points[p] EXCEPT !.rank = rank]))
  /\ UNCHANGED <<points, undercut, clashed>>

DeleteLoad(c, p) ==
  /\ at[c] = "idle"
  /\ p \in Stored
  /\ ~ points[p].active
  /\ Wait(c, "delete", Only(p, points[p]))
  /\ UNCHANGED <<points, undercut, clashed>>

Delete(c) ==
  /\ at[c] = "delete"
  /\ points' = [p \in Points |-> IF p \in Loaded(c) THEN NoPoint ELSE points[p]]
  /\ Writes(c)
  /\ undercut' = (undercut \union Felt(c)) \ {c}
  /\ Answer(c)

(***************************************************************************)
(* reorder loads every point listed, then saves those whose rank changes,  *)
(* one at a time.  patch saves the one it loaded.                          *)
(***************************************************************************)
Reorder(c, rank) ==
  /\ at[c] = "idle"
  /\ \E p \in DOMAIN rank : points[p].rank # rank[p]
  /\ Wait(c, "reorder",
          [p \in Points |->
             IF p \in DOMAIN rank /\ points[p].rank # rank[p]
             THEN [points[p] EXCEPT !.rank = rank[p]] ELSE NoPoint])
  /\ UNCHANGED <<points, undercut, clashed>>

SavePoint(c) ==
  /\ at[c] \in {"patch", "reorder"}
  /\ \E p \in Loaded(c) :
       /\ points' = [points EXCEPT ![p] = copy[c][p]]
       /\ IF Loaded(c) = {p}
          THEN Answer(c)
          ELSE Wait(c, "reorder", [copy[c] EXCEPT ![p] = NoPoint])
       /\ undercut' = (undercut \union Felt(c)) \ (IF Loaded(c) = {p} THEN {c} ELSE {})
  /\ Writes(c)

(***************************************************************************)
(* activate: load the point, clear its siblings, save the point.           *)
(***************************************************************************)
ActivateLoad(c, p) ==
  /\ at[c] = "idle"
  /\ p \in Stored
  /\ Wait(c, "clear", Only(p, [points[p] EXCEPT !.active = TRUE]))
  /\ UNCHANGED <<points, undercut, clashed>>

ActivateClearNone(c) ==   \* variant: the siblings keep their flag
  /\ at[c] = "clear"
  /\ Wait(c, "activate", copy[c])
  /\ UNCHANGED <<points, undercut, clashed>>

\* One update_many: no copy is involved and nothing else is written.
ActivateClear(c) ==
  /\ at[c] = "clear"
  /\ points' = [p \in Points |->
                  IF p \in Active \ Loaded(c)
                  THEN [points[p] EXCEPT !.active = FALSE] ELSE points[p]]
  /\ undercut' = undercut \union Felt(c)
  /\ Wait(c, "activate", copy[c])
  /\ UNCHANGED clashed

ActivateSave(c) ==
  /\ at[c] = "activate"
  /\ points' = [p \in Points |-> IF p \in Loaded(c) THEN copy[c][p] ELSE points[p]]
  /\ Writes(c)
  /\ undercut' = (undercut \union Felt(c)) \ {c}
  /\ Answer(c)

\* One update_many over the séance.
Publish(c, flag) ==
  /\ at[c] = "idle"
  /\ points' = [p \in Points |->
                  IF p \in Stored THEN [points[p] EXCEPT !.published = flag]
                                  ELSE NoPoint]
  /\ undercut' = undercut \union Felt(c)
  /\ UNCHANGED <<at, copy, clashed>>

\* A database call raises, or the worker dies.
Fail(c) ==
  /\ at[c] # "idle"
  /\ undercut' = undercut \ {c}
  /\ Answer(c)
  /\ UNCHANGED <<points, clashed>>

AgendaNext ==
  \E c \in Clerks :
    \/ \E p \in Points, rank \in Ranks : Create(c, p, rank) \/ PatchPoint(c, p, rank)
    \/ \E p \in Points : DeleteLoad(c, p) \/ ActivateLoad(c, p)
    \/ \E P \in SUBSET Stored : \E rank \in [P -> Ranks] : Reorder(c, rank)
    \/ \E flag \in BOOLEAN : Publish(c, flag)
    \/ Delete(c) \/ SavePoint(c) \/ ActivateClear(c) \/ ActivateSave(c) \/ Fail(c)

AgendaSpec == AgendaInit /\ [][AgendaNext]_agendaVars

(***************************************************************************)
(* Properties.                                                             *)
(***************************************************************************)
\* "At most one is_active=True item per session at a time"
\* (agenda_service.py:3), unless a request saved a copy that another write had
\* overtaken, or an activation saved its point after another had (line 52).
OneActivePoint == ~ clashed => \A p, q \in Active : p = q

\* The point under discussion is never deleted (agenda_controller.py:147): only
\* a delete that loaded the point before it was activated takes it away.
ActiveIsKept ==
  [][\A p \in Active : points'[p] = NoPoint => clashed']_agendaVars
=============================================================================
