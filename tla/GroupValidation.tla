--------------------------- MODULE GroupValidation ---------------------------
(***************************************************************************)
(* Operations that need the agreement of several users: an endpoint under  *)
(* a grouped sudo action queues an OpsValidationRequest and one row per    *)
(* validator instead of doing its work; the validators then approve or     *)
(* reject it one by one, or approve all that await them.  A request may be *)
(* a step of another (its parent); a Redis key per process remembers which *)
(* request is the current step.                                            *)
(*                                                                         *)
(* An action is the code between two database or Redis calls.  A stored    *)
(* request keeps its panel, parent and organisation for ever, so the walk  *)
(* to its root is one step.                                                *)
(***************************************************************************)
EXTENDS Naturals, FiniteSets

CONSTANTS
  Workers,       \* HTTP requests being served at a time; a slot is reused
  RequestIds,    \* bound: the validation requests there may be
  Users,         \* validators; their order is the order they are asked in
  Orgs,          \* organisations
  Org,           \* the organisation of each request and of each user
  MaxDepth,      \* ancestors a parent may have (20 in the code)
  None, Expired

ASSUME UsersAssumption == Users \subseteq Nat
ASSUME OrgAssumption == Org \in [RequestIds \union Users -> Orgs]
ASSUME DepthAssumption == MaxDepth \in Nat

Decisions == {"APPROVED", "REJECTED"}
Statuses == {"PENDING", "IN_PROGRESS"} \union Decisions

Docs ==
  [status: Statuses, next: Users \union {None}, panel: SUBSET Users,
   parent: RequestIds \union {None}]

\* A process key carries the id of the request it was created for.
Keys == [root: RequestIds, current: RequestIds]

ASSUME NoneAssumption ==
  /\ None \notin RequestIds \union Users \union Docs \union Keys \union Statuses
  /\ Expired \notin Keys \union {None}

VARIABLES
  requests,   \* stored OpsValidationRequest documents
  rows,       \* the decision in each validator's row, which may be an undecided
              \* one (Statuses \ Decisions); None: no such row
  keys,       \* Redis: None before a key is issued, Expired when it is gone
  pc,         \* where each worker waits
  mem,        \* what it holds meanwhile
  overtaken,  \* history: workers whose reads were overwritten since
  marks       \* history: what has gone wrong with each request

gvVars == <<requests, rows, keys, pc, mem, overtaken, marks>>

Marks ==
  {"overtaken",   \* written on the strength of a read overwritten since
   "hurried",     \* counted before every validator had a row
   "failed",      \* a handler stopped between a decision and its outcome
   "bulk",        \* approved through validate_all
   "unguarded"}   \* its key was moved by a worker that could not check it

Steps ==
  {"idle", "guard", "parent", "insert", "rows", "key", "rekey",
   "find", "decide", "count", "save", "bulk", "bulksave"}

Mem ==
  [req: RequestIds \union {None}, user: Users \union {None},
   choice: Statuses \union {None}, panel: SUBSET Users,
   parent: RequestIds \union {None}, process: RequestIds \union {None},
   root: RequestIds \union {None}, checked: BOOLEAN,
   copy: [RequestIds -> Docs \union {None}]]

NoCopies == [r \in RequestIds |-> None]

NoMem ==
  [req |-> None, user |-> None, choice |-> None, panel |-> {}, parent |-> None,
   process |-> None, root |-> None, checked |-> FALSE, copy |-> NoCopies]

TypeOK ==
  /\ requests \in [RequestIds -> Docs \union {None}]
  /\ rows \in [RequestIds -> [Users -> Statuses \union {None}]]
  /\ keys \in [RequestIds -> Keys \union {Expired, None}]
  /\ pc \in [Workers -> Steps]
  /\ mem \in [Workers -> Mem]
  /\ overtaken \subseteq Workers
  /\ marks \in [RequestIds -> SUBSET Marks]

Init ==
  /\ requests = NoCopies
  /\ rows = [r \in RequestIds |-> [u \in Users |-> None]]
  /\ keys = [r \in RequestIds |-> None]
  /\ pc = [w \in Workers |-> "idle"]
  /\ mem = [w \in Workers |-> NoMem]
  /\ overtaken = {}
  /\ marks = [r \in RequestIds |-> {}]

Stored == {r \in RequestIds : requests[r] # None}
Open(r) == requests[r] # None /\ requests[r].status \notin Decisions
HasRow(r) == {u \in Users : rows[r][u] # None}
Copied(w) == {r \in RequestIds : mem[w].copy[r] # None}
First(S) == CHOOSE u \in S : \A v \in S : u <= v

\* Ancestor(p)[n] is the n-th ancestor of p, None past its root.
Ancestor(p) ==
  LET up[n \in 0 .. MaxDepth + 2] ==
        IF n = 0 THEN p
        ELSE IF up[n - 1] = None THEN None ELSE requests[up[n - 1]].parent
  IN up

Root(p) ==
  Ancestor(p)[CHOOSE n \in 0 .. MaxDepth + 1 :
                Ancestor(p)[n] # None /\ Ancestor(p)[n + 1] = None]

Goto(w, label, m) ==
  /\ pc' = [pc EXCEPT ![w] = label]
  /\ mem' = [mem EXCEPT ![w] = m]

Mark(r, m) == marks' = [marks EXCEPT ![r] = @ \union m]

\* What a write tells of: a row that is about to be decided or has been
\* counted, and the closing of a request that is held as an open one.
Felt(w) ==
  {d \in Workers \ {w} :
     \/ pc[d] = "decide" /\ rows'[mem[d].req][mem[d].user] # rows[mem[d].req][mem[d].user]
     \/ pc[d] = "save" /\ rows'[mem[d].req] # rows[mem[d].req]
     \/ \E r \in Copied(d) : Open(r) /\ requests'[r].status \in Decisions}

Overtaken(w) == IF w \in overtaken THEN {"overtaken"} ELSE {}

(***************************************************************************)
(* Queueing.  The answer of a blocked operation changes nothing here.      *)
(***************************************************************************)
\* With no validator or no organisation the operation is blocked.
QueueStart(w, r, panel, parent, process) ==
  /\ pc[w] = "idle"
  /\ requests[r] = None
  /\ \A d \in Workers : mem[d].req # r
  /\ panel # {}
  /\ Goto(w, IF parent = None THEN "insert"
             ELSE IF process = None THEN "parent" ELSE "guard",
          [NoMem EXCEPT !.req = r, !.panel = panel, !.parent = parent,
                        !.process = process])
  /\ UNCHANGED <<requests, rows, keys, overtaken, marks>>

GuardKeyBlind(w) ==   \* variant: the current step is not compared
  /\ pc[w] = "guard"
  /\ keys[mem[w].process] \in Keys
  /\ Goto(w, "parent", [mem[w] EXCEPT !.checked = TRUE])
  /\ UNCHANGED <<requests, rows, keys, overtaken, marks>>

\* The key is there: it must name the parent as the current step, and belong
\* to the same organisation.  Every request below a root is in its organisation.
GuardKey(w) ==
  /\ pc[w] = "guard"
  /\ keys[mem[w].process] \in Keys
  /\ Org[keys[mem[w].process].root] = Org[mem[w].req]
  /\ keys[mem[w].process].current = mem[w].parent
  /\ Goto(w, "parent", [mem[w] EXCEPT !.checked = TRUE])
  /\ UNCHANGED <<requests, rows, keys, overtaken, marks>>

\* The key has expired, or Redis does not answer: not checked.
GuardSkipped(w) ==
  /\ pc[w] = "guard"
  /\ Goto(w, "parent", mem[w])
  /\ UNCHANGED <<requests, rows, keys, overtaken, marks>>

ParentLoad(w) ==
  /\ pc[w] = "parent"
  /\ mem[w].parent \in Stored
  /\ Org[mem[w].parent] = Org[mem[w].req]
  /\ requests[mem[w].parent].status = "PENDING"
  /\ Ancestor(mem[w].parent)[MaxDepth + 1] = None
  /\ Goto(w, "insert", [mem[w] EXCEPT !.root = Root(mem[w].parent)])
  /\ UNCHANGED <<requests, rows, keys, overtaken, marks>>

RequestInsert(w) ==
  /\ pc[w] = "insert"
  /\ requests' = [requests EXCEPT
       ![mem[w].req] = [status |-> "PENDING", next |-> First(mem[w].panel),
                        panel |-> mem[w].panel, parent |-> mem[w].parent]]
  /\ Goto(w, "rows", mem[w])
  /\ UNCHANGED <<rows, keys, overtaken, marks>>

\* One insert per validator, in their order.
RowInsert(w) ==
  /\ pc[w] = "rows"
  /\ LET left == mem[w].panel
         u == First(left)
     IN /\ rows' = [rows EXCEPT ![mem[w].req][u] = "PENDING"]
        /\ Goto(w, IF left = {u} THEN "key" ELSE "rows",
                [mem[w] EXCEPT !.panel = left \ {u}])
  /\ UNCHANGED <<requests, keys, marks>>
  /\ overtaken' = overtaken \union Felt(w)

\* A sub-operation whose key is there moves it to its own request.
KeyLoad(w) ==
  /\ pc[w] = "key"
  /\ mem[w].process # None /\ keys[mem[w].process] \in Keys
  /\ Goto(w, "rekey", [mem[w] EXCEPT !.root = keys[mem[w].process].root])
  /\ UNCHANGED <<requests, rows, keys, overtaken, marks>>

KeyMove(w) ==
  /\ pc[w] = "rekey"
  /\ keys' = [keys EXCEPT
       ![mem[w].process] = [root |-> mem[w].root, current |-> mem[w].req]]
  /\ Mark(mem[w].process, IF mem[w].checked THEN {} ELSE {"unguarded"})
  /\ Goto(w, "idle", NoMem)
  /\ UNCHANGED <<requests, rows, overtaken>>

KeyCreateNoRoot(w) ==   \* variant: a root operation is not its own root
  /\ pc[w] \in {"key", "rekey"}
  /\ keys' = [keys EXCEPT ![mem[w].req] = [root |-> mem[w].root, current |-> mem[w].req]]
  /\ Goto(w, "idle", NoMem)
  /\ UNCHANGED <<requests, rows, overtaken, marks>>

\* A root operation, a key that is absent, or a read or a write of it that
\* failed.
KeyCreate(w) ==
  /\ pc[w] \in {"key", "rekey"}
  /\ keys' = [keys EXCEPT
       ![mem[w].req] =
         [root |-> IF mem[w].parent = None THEN mem[w].req ELSE Root(mem[w].parent),
          current |-> mem[w].req]]
  /\ Goto(w, "idle", NoMem)
  /\ UNCHANGED <<requests, rows, overtaken, marks>>

\* Six hours after the key was last written.
Expire(k) ==
  /\ keys[k] \in Keys
  /\ keys' = [keys EXCEPT ![k] = Expired]
  /\ UNCHANGED <<requests, rows, pc, mem, overtaken, marks>>

(***************************************************************************)
(* validate_or_reject: one validator's decision on one request.            *)
(***************************************************************************)
DecideLoadClosed(w, u, r, choice) ==   \* variant: a closed request is accepted
  /\ pc[w] = "idle"
  /\ r \in Stored
  /\ Goto(w, "find", [NoMem EXCEPT !.req = r, !.user = u, !.choice = choice,
                                   !.copy[r] = requests[r]])
  /\ UNCHANGED <<requests, rows, keys, overtaken, marks>>

\* The choice is any status the schema knows, PENDING and IN_PROGRESS included.
DecideLoad(w, u, r, choice) ==
  /\ pc[w] = "idle"
  /\ Open(r)
  /\ Goto(w, "find", [NoMem EXCEPT !.req = r, !.user = u, !.choice = choice,
                                   !.copy[r] = requests[r]])
  /\ UNCHANGED <<requests, rows, keys, overtaken, marks>>

Undecided(r) == {u \in HasRow(r) : rows[r][u] \notin Decisions}

\* Nobody asks whether it is this validator's turn.
RowFind(w) ==
  /\ pc[w] = "find"
  /\ mem[w].user \in Undecided(mem[w].req)
  /\ Goto(w, "decide", mem[w])
  /\ UNCHANGED <<requests, rows, keys, overtaken, marks>>

RowSave(w) ==
  /\ pc[w] = "decide"
  /\ rows' = [rows EXCEPT ![mem[w].req][mem[w].user] = mem[w].choice]
  /\ UNCHANGED <<requests, keys>>
  /\ overtaken' = overtaken \union Felt(w)
  /\ Mark(mem[w].req, Overtaken(w))
  /\ Goto(w, "count", mem[w])

With(doc, status, next) == [doc EXCEPT !.status = status, !.next = next]

Said(r, decision) == {u \in Users : rows[r][u] = decision}

OutcomesEarly(r, doc) ==   \* variant: nobody waits for the undecided
  IF Said(r, "REJECTED") = {} THEN {With(doc, "APPROVED", None)}
                              ELSE {With(doc, "REJECTED", None)}

\* The outcome of the rows that are there.  A validator whose account cannot
\* be read is passed over, so any undecided one may be next (none when no account
\* is readable: the handler then answers without a save, see Stop).  A decision
\* PENDING or IN_PROGRESS leaves its author among the undecided.
Outcomes(r, doc) ==
  IF Said(r, "APPROVED") = HasRow(r) THEN {With(doc, "APPROVED", None)}
  ELSE IF Said(r, "REJECTED") # {} THEN {With(doc, "REJECTED", None)}
  ELSE {With(doc, "IN_PROGRESS", u) : u \in Undecided(r)}

CountRejectedLast(w) ==   \* variant: a rejection counts once all have decided
  /\ pc[w] = "count"
  /\ LET r == mem[w].req
         doc == mem[w].copy[r]
     IN
     /\ \E new \in IF Undecided(r) # {}
                   THEN {With(doc, "IN_PROGRESS", u) : u \in Undecided(r)}
                   ELSE Outcomes(r, doc) :
          Goto(w, "save", [mem[w] EXCEPT !.copy[r] = new])
     /\ Mark(r, IF HasRow(r) = requests[r].panel THEN {} ELSE {"hurried"})
  /\ UNCHANGED <<requests, rows, keys, overtaken>>

Count(w) ==
  /\ pc[w] = "count"
  /\ LET r == mem[w].req IN
     /\ \E doc \in Outcomes(r, mem[w].copy[r]) :
          Goto(w, "save", [mem[w] EXCEPT !.copy[r] = doc])
     /\ Mark(r, IF HasRow(r) = requests[r].panel THEN {} ELSE {"hurried"})
  /\ UNCHANGED <<requests, rows, keys, overtaken>>

StatusSave(w) ==
  /\ pc[w] = "save"
  /\ requests' = [requests EXCEPT ![mem[w].req] = mem[w].copy[mem[w].req]]
  /\ UNCHANGED <<rows, keys>>
  /\ overtaken' = (overtaken \union Felt(w)) \ {w}
  /\ Mark(mem[w].req, Overtaken(w))
  /\ Goto(w, "idle", NoMem)

(***************************************************************************)
(* validate_all: the requests that await this validator are read once and  *)
(* approved one after the other.  The comparison with a decision already   *)
(* taken never succeeds: str() of the enumeration is not its value.        *)
(***************************************************************************)
BulkLoad(w, u) ==
  /\ pc[w] = "idle"
  /\ LET eligible == {r \in RequestIds : Open(r) /\ requests[r].next = u /\ Org[r] = Org[u]}
     IN /\ eligible # {}
        /\ Goto(w, "bulk", [NoMem EXCEPT !.user = u,
             !.copy = [r \in RequestIds |-> IF r \in eligible THEN requests[r] ELSE None]])
  /\ UNCHANGED <<requests, rows, keys, overtaken, marks>>

\* The row is read and saved whatever it holds.
BulkRow(w, r) ==
  /\ pc[w] = "bulk"
  /\ r \in Copied(w)
  /\ rows[r][mem[w].user] # None
  /\ rows' = [rows EXCEPT ![r][mem[w].user] = "APPROVED"]
  /\ UNCHANGED <<requests, keys>>
  /\ overtaken' = overtaken \union Felt(w)
  /\ Mark(r, {"bulk"} \union Overtaken(w))
  /\ Goto(w, "bulksave", [mem[w] EXCEPT !.req = r])

Drop(w, r) ==
  Goto(w, IF Copied(w) = {r} THEN "idle" ELSE "bulk",
       IF Copied(w) = {r} THEN NoMem
       ELSE [mem[w] EXCEPT !.req = None, !.copy[r] = None])

\* The rows are counted by the same comparison: none is approved, none is
\* rejected, and the first validator is next again.
BulkSave(w) ==
  /\ pc[w] = "bulksave"
  /\ LET r == mem[w].req IN
     /\ requests' = [requests EXCEPT
          ![r] = With(mem[w].copy[r], "IN_PROGRESS", First(HasRow(r)))]
     /\ Mark(r, Overtaken(w))
     /\ Drop(w, r)
     /\ overtaken' = overtaken \ (IF Copied(w) = {r} THEN {w} ELSE {})
  /\ UNCHANGED <<rows, keys>>

\* No row, no access, or a call that fails: the loop goes on to the next.
BulkSkip(w, r) ==
  /\ \/ pc[w] = "bulk" /\ r \in Copied(w)
     \/ pc[w] = "bulksave" /\ r = mem[w].req
  /\ Drop(w, r)
  /\ Mark(r, IF pc[w] = "bulksave" THEN {"failed"} ELSE {})
  /\ overtaken' = overtaken \ (IF Copied(w) = {r} THEN {w} ELSE {})
  /\ UNCHANGED <<requests, rows, keys>>

(***************************************************************************)
(* The operation is refused or blocked, a call raises, or the worker dies: *)
(* what has been written stays.                                            *)
(***************************************************************************)
Stop(w) ==
  /\ pc[w] # "idle"
  /\ Goto(w, "idle", NoMem)
  /\ IF pc[w] \in {"count", "save", "bulksave"} THEN Mark(mem[w].req, {"failed"})
                                                ELSE UNCHANGED marks
  /\ overtaken' = overtaken \ {w}
  /\ UNCHANGED <<requests, rows, keys>>

Queueing(w) ==
  \/ \E r \in RequestIds \ Stored, panel \in SUBSET Users, parent \in Stored \union {None} :
       \E process \in {k \in RequestIds : keys[k] # None} \union {None} :
         QueueStart(w, r, panel, parent, process)
  \/ GuardKey(w) \/ GuardSkipped(w) \/ ParentLoad(w) \/ RequestInsert(w)
  \/ RowInsert(w) \/ KeyLoad(w) \/ KeyMove(w) \/ KeyCreate(w)

Deciding(w) ==
  \/ \E u \in Users, r \in RequestIds, choice \in Statuses : DecideLoad(w, u, r, choice)
  \/ RowFind(w) \/ RowSave(w) \/ Count(w) \/ StatusSave(w)

Approving(w) ==
  \/ \E u \in Users : BulkLoad(w, u)
  \/ \E r \in RequestIds : BulkRow(w, r) \/ BulkSkip(w, r)
  \/ BulkSave(w)

Next ==
  \/ \E w \in Workers : Queueing(w) \/ Deciding(w) \/ Approving(w) \/ Stop(w)
  \/ \E k \in RequestIds : Expire(k)

Spec == Init /\ [][Next]_gvVars

(***************************************************************************)
(* Properties.                                                             *)
(***************************************************************************)
\* A chain of requests stays in one organisation and within the depth that
\* _resolve_parent_validation_linkage allows (generic_services.py:1062), and a
\* process key's current step hangs under the key's root, unless a worker that
\* could not check the key (line 854: absent or unreadable) has moved it since.
Lineage ==
  /\ \A r \in Stored :
       /\ requests[r].parent # None =>
            requests[r].parent \in Stored /\ Org[requests[r].parent] = Org[r]
       /\ Ancestor(r)[MaxDepth + 2] = None
  /\ \A k \in RequestIds :
       keys[k] \in Keys /\ "unguarded" \notin marks[k] =>
         keys[k].root = Root(keys[k].current)

\* "ALL validators approved -> globally approve" (static_controller.py:5053): an
\* approved request has the approval of its whole panel, unless it was counted
\* while rows were still being inserted or saved after a row had changed.
ApprovedByAll ==
  \A r \in Stored :
    requests[r].status = "APPROVED" /\ marks[r] \cap {"hurried", "overtaken"} = {} =>
      Said(r, "APPROVED") = requests[r].panel

\* Once a request is approved or rejected it stays so and no row of it changes
\* (static_controller.py:4909), unless by a worker that had read it before, or
\* because it was closed while its rows were still being inserted.
ClosedIsFinal ==
  [][\A r \in Stored :
       requests[r].status \in Decisions
         /\ <<requests'[r], rows'[r]>> # <<requests[r], rows[r]>> =>
       marks'[r] \cap {"hurried", "overtaken"} # {}]_gvVars

Quiet(r) == \A w \in Workers : mem[w].req # r /\ r \notin Copied(w)

\* When nobody is at work on a request its status is what its rows say, and an
\* open one awaits a validator who has not decided (static_controller.py:5053,
\* 5112, 5175): true as long as no decision was cut short, none was taken
\* through validate_all, and none was counted too early or saved too late.
Settled ==
  \A r \in Stored :
    Quiet(r) /\ marks[r] \subseteq {"unguarded"} =>
      /\ (requests[r].status = "APPROVED") <=> (Said(r, "APPROVED") = requests[r].panel)
      /\ (requests[r].status = "REJECTED") <=> (Said(r, "REJECTED") # {})
      /\ Open(r) => rows[r][requests[r].next] \notin Decisions

\* "Advance to next undecided validator" (static_controller.py:5329): the same
\* of requests approved through validate_all.
BulkAdvances ==
  \A r \in Stored :
    Quiet(r) /\ marks[r] \subseteq {"unguarded", "bulk"} /\ Open(r) =>
      rows[r][requests[r].next] \notin Decisions
=============================================================================
