-------------------------- MODULE DistributedLock --------------------------
(***************************************************************************)
(* One named lock of DistributedLockService: ACTIVE rows in MongoDB, that  *)
(* several worker processes find, insert and update without a transaction  *)
(* and without a unique index, and a cache in each process that answers    *)
(* "locked" for CacheTTL without asking the database.                      *)
(*                                                                         *)
(* Time is counted down: a row stores `expires_at' and the model what is   *)
(* left of it, negative once it is past.  A task that took `now' keeps how *)
(* long ago that was, because the code judges a row by that `now' and not  *)
(* by the time of its query.  A row that is no longer ACTIVE is found by   *)
(* no query, so its id stands for a new row once no task remembers it.     *)
(***************************************************************************)
EXTENDS Integers, FiniteSets

CONSTANTS
  Processes,   \* worker processes, each with its own cache
  Slots,       \* the asynchronous tasks of a process that may ask for the lock
  MaxId,       \* bound: row ids in use at a time
  LockTTL,     \* timeout_seconds
  CacheTTL,    \* _cache_ttl_seconds
  MaxDelay,    \* bound: how long a task may take from `now' to its write
  MaxFaults,   \* bound: crashes and failed database calls in a behaviour
  Cleanup,     \* cleanup_expired_locks is called (nothing in the tree calls it)
  Cleaner,     \* the task that runs it
  NoId, NoLease

Tasks == Processes \X Slots

Host(t) == t[1]

Ids == 1 .. MaxId

\* What a row says while it is ACTIVE: expires_at, and process_id_str.
Leases == [left: -MaxDelay .. LockTTL, owner: Tasks]

ASSUME TimesAssumption ==
  /\ LockTTL \in Nat \ {0}
  /\ CacheTTL \in Nat
  /\ MaxDelay \in Nat
  /\ MaxDelay < LockTTL
  /\ MaxFaults \in Nat
  /\ MaxId \in Nat
ASSUME CleanupAssumption == Cleanup \in BOOLEAN
ASSUME SentinelAssumption ==
  /\ NoId \notin Ids
  /\ Cleaner \notin Tasks
  /\ NoLease \notin Leases

VARIABLES
  rows,      \* the stored rows of this lock_name
  cache,     \* per process: for how long _lock_cache still answers "locked"
  pc,        \* where each task is
  found,     \* the row a task read and is about to write
  waited,    \* time since the task took `now'
  grant,     \* what is left of the expires_at a holder was given
  outdated,  \* the rows cleanup_expired_locks has read and not yet updated
  faults,    \* crashes and failures so far
  fresh,     \* history: who has read the rows after the last write of another
  spoiled    \* history: a row was written by who was not fresh, or released
             \* by who does not own it

vars == <<rows, cache, pc, found, waited, grant, outdated, faults, fresh, spoiled>>

Asking == {"find", "take", "insert"}
Releasing == {"refind", "release"}

TypeOK ==
  /\ rows \in [Ids -> Leases \union {NoLease}]
  /\ cache \in [Processes -> 0 .. CacheTTL + 1]
  /\ pc \in [Tasks -> {"idle", "held"} \union Asking \union Releasing]
  /\ found \in [Tasks -> Ids \union {NoId}]
  /\ \A t \in Tasks : pc[t] \in {"take", "release"} => found[t] \in Ids
  /\ waited \in [Tasks -> 0 .. MaxDelay]
  /\ grant \in [Tasks -> 0 .. LockTTL]
  /\ outdated \subseteq Ids
  /\ faults \in 0 .. MaxFaults
  /\ fresh \subseteq Tasks \union {Cleaner}
  /\ spoiled \in BOOLEAN

Init ==
  /\ rows = [i \in Ids |-> NoLease]
  /\ cache = [p \in Processes |-> 0]
  /\ pc = [t \in Tasks |-> "idle"]
  /\ found = [t \in Tasks |-> NoId]
  /\ waited = [t \in Tasks |-> 0]
  /\ grant = [t \in Tasks |-> 0]
  /\ outdated = {}
  /\ faults = 0
  /\ fresh = {}
  /\ spoiled = FALSE

(***************************************************************************)
(* Rows and tasks.                                                         *)
(***************************************************************************)
Active == {i \in Ids : rows[i] # NoLease}

StillValidRounded(i, t) ==   \* variant: the last unit of the lease is not counted
  rows[i].left + waited[t] > 1

\* now < expires_at_existing, at the `now' of the task.
StillValid(i, t) == rows[i].left + waited[t] > 0

Unused == {i \in Ids \ (Active \union outdated) : \A t \in Tasks : found[t] # i}

NewId(i) == i \in Unused /\ \A j \in Unused : i <= j

LeaseProlonged(t) ==   \* variant: the delay of the calls is added to the lease
  LockTTL + waited[t]

Lease(t) == LockTTL - waited[t]

LockRow(t) == [left |-> Lease(t), owner |-> t]

Read(x) == fresh' = fresh \union {x}

\* Whoever else has read is no longer fresh; who has written is done.
Wrote == fresh' = {}

Goto(t, label, i) ==
  /\ pc' = [pc EXCEPT ![t] = label]
  /\ found' = [found EXCEPT ![t] = i]

\* acquire_lock and release_lock return; `now' is forgotten.
Return(t, label) ==
  /\ Goto(t, label, NoId)
  /\ waited' = [waited EXCEPT ![t] = 0]

(***************************************************************************)
(* acquire_lock.  While the cache answers, the lock is refused and nothing *)
(* changes.                                                                *)
(***************************************************************************)
AcquireStart(t) ==
  /\ pc[t] = "idle"
  /\ cache[Host(t)] = 0
  /\ Goto(t, "find", NoId)
  /\ UNCHANGED <<rows, cache, waited, grant, outdated, faults, fresh, spoiled>>

AcquireRefused(t) ==
  /\ pc[t] = "find"
  /\ \E i \in Active : StillValid(i, t)
  /\ cache' = [cache EXCEPT ![Host(t)] = CacheTTL + 1]
  /\ Return(t, "idle")
  /\ UNCHANGED <<rows, grant, outdated, faults, fresh, spoiled>>

AcquireFindExpiredRefuses(t) ==   \* variant: a lock is refused while a row is ACTIVE
  /\ pc[t] = "find"
  /\ \E i \in Active : ~ StillValid(i, t)
  /\ Return(t, "idle")
  /\ UNCHANGED <<rows, cache, grant, outdated, faults, fresh, spoiled>>

AcquireFindExpiredInserts(t) ==   \* variant: an expired row is left, a new one added
  /\ pc[t] = "find"
  /\ \E i \in Active : ~ StillValid(i, t)
  /\ Goto(t, "insert", NoId)
  /\ Read(t)
  /\ UNCHANGED <<rows, cache, waited, grant, outdated, faults, spoiled>>

AcquireFindExpired(t) ==
  /\ pc[t] = "find"
  /\ \E i \in Active : ~ StillValid(i, t) /\ Goto(t, "take", i)
  /\ Read(t)
  /\ UNCHANGED <<rows, cache, waited, grant, outdated, faults, spoiled>>

AcquireFindNone(t) ==
  /\ pc[t] = "find"
  /\ Active = {}
  /\ Goto(t, "insert", NoId)
  /\ Read(t)
  /\ UNCHANGED <<rows, cache, waited, grant, outdated, faults, spoiled>>

\* The row is written; the answer may be lost (acquire_lock returns False).
AcquireWrite(t, i) ==
  /\ \/ pc[t] = "take" /\ i = found[t]
     \/ pc[t] = "insert" /\ NewId(i)
  /\ rows' = [rows EXCEPT ![i] = LockRow(t)]
  /\ Wrote
  /\ spoiled' = (spoiled \/ t \notin fresh)
  /\ UNCHANGED outdated

Acquired(t) ==
  /\ \E i \in Ids : AcquireWrite(t, i)
  /\ cache' = [cache EXCEPT ![Host(t)] = CacheTTL + 1]
  /\ grant' = [grant EXCEPT ![t] = Lease(t)]
  /\ Return(t, "held")
  /\ UNCHANGED faults

AcquireAnswerLost(t) ==
  /\ faults < MaxFaults
  /\ faults' = faults + 1
  /\ \E i \in Ids : AcquireWrite(t, i)
  /\ Return(t, "idle")
  /\ UNCHANGED <<cache, grant>>

(***************************************************************************)
(* release_lock, called by a holder: any ACTIVE row of the name is found   *)
(* and written, whoever inserted it.                                       *)
(***************************************************************************)
ReleaseStart(t) ==
  /\ pc[t] = "held"
  /\ Goto(t, "refind", NoId)
  /\ grant' = [grant EXCEPT ![t] = 0]
  /\ UNCHANGED <<rows, cache, waited, outdated, faults, fresh, spoiled>>

ReleaseFind(t) ==
  /\ pc[t] = "refind"
  /\ \E i \in Active : Goto(t, "release", i)
  /\ Read(t)
  /\ UNCHANGED <<rows, cache, waited, grant, outdated, faults, spoiled>>

\* "not found or already released": the cache keeps its entry.
ReleaseNone(t) ==
  /\ pc[t] = "refind"
  /\ Active = {}
  /\ Return(t, "idle")
  /\ UNCHANGED <<rows, cache, grant, outdated, faults, fresh, spoiled>>

Owns(t, i) == rows[i] # NoLease /\ rows[i].owner = t

Release(t) ==
  /\ pc[t] = "release"
  /\ rows' = [rows EXCEPT ![found[t]] = NoLease]
  /\ cache' = [cache EXCEPT ![Host(t)] = 0]
  /\ Wrote
  /\ spoiled' = (spoiled \/ t \notin fresh \/ ~ Owns(t, found[t]))
  /\ Return(t, "idle")
  /\ UNCHANGED <<grant, outdated, faults>>

(***************************************************************************)
(* cleanup_expired_locks: one query, then one update per row found.        *)
(***************************************************************************)
CleanupFind ==
  /\ Cleanup
  /\ outdated = {}
  /\ outdated' = {i \in Active : rows[i].left < 0}
  /\ outdated' # {}
  /\ Read(Cleaner)
  /\ UNCHANGED <<rows, cache, pc, found, waited, grant, faults, spoiled>>

CleanupUpdate ==
  /\ \E i \in outdated :
       /\ rows' = [rows EXCEPT ![i] = NoLease]
       /\ outdated' = outdated \ {i}
  /\ fresh' = IF outdated' = {} THEN {} ELSE fresh \intersect {Cleaner}
  /\ spoiled' = (spoiled \/ Cleaner \notin fresh)
  /\ UNCHANGED <<cache, pc, found, waited, grant, faults>>

\* An update raises: the sweep ends there.
CleanupFails ==
  /\ faults < MaxFaults
  /\ faults' = faults + 1
  /\ outdated # {}
  /\ outdated' = {}
  /\ fresh' = fresh \ {Cleaner}
  /\ UNCHANGED <<rows, cache, pc, found, waited, grant, spoiled>>

(***************************************************************************)
(* Time and faults.                                                        *)
(***************************************************************************)
Down(n, floor) == IF n > floor THEN n - 1 ELSE floor

Older(row) ==
  IF row = NoLease THEN NoLease ELSE [row EXCEPT !.left = Down(@, -MaxDelay)]

Tick ==
  /\ \A t \in Tasks : pc[t] \in Asking => waited[t] < MaxDelay
  /\ rows' = [i \in Ids |-> Older(rows[i])]
  /\ cache' = [p \in Processes |-> Down(cache[p], 0)]
  /\ grant' = [t \in Tasks |-> Down(grant[t], 0)]
  /\ waited' = [t \in Tasks |-> IF pc[t] \in Asking THEN waited[t] + 1 ELSE waited[t]]
  /\ UNCHANGED <<pc, found, outdated, faults, fresh, spoiled>>

\* A database call raises: both functions return False, the cache unchanged.
Fails(t) ==
  /\ faults < MaxFaults
  /\ faults' = faults + 1
  /\ pc[t] \in Asking \union Releasing
  /\ Return(t, "idle")
  /\ fresh' = fresh \ {t}
  /\ UNCHANGED <<rows, cache, grant, outdated, spoiled>>

\* A worker dies and restarts: its cache and its tasks are gone, its row stays.
Crash(p) ==
  /\ faults < MaxFaults
  /\ faults' = faults + 1
  /\ cache' = [cache EXCEPT ![p] = 0]
  /\ pc' = [t \in Tasks |-> IF Host(t) = p THEN "idle" ELSE pc[t]]
  /\ found' = [t \in Tasks |-> IF Host(t) = p THEN NoId ELSE found[t]]
  /\ waited' = [t \in Tasks |-> IF Host(t) = p THEN 0 ELSE waited[t]]
  /\ grant' = [t \in Tasks |-> IF Host(t) = p THEN 0 ELSE grant[t]]
  /\ fresh' = {x \in fresh : x \in Tasks => Host(x) # p}
  /\ UNCHANGED <<rows, outdated, spoiled>>

Task(t) ==
  \/ AcquireStart(t) \/ AcquireRefused(t)
  \/ AcquireFindExpired(t) \/ AcquireFindNone(t) \/ Acquired(t)
  \/ ReleaseStart(t) \/ ReleaseFind(t) \/ ReleaseNone(t) \/ Release(t)

Next ==
  \/ \E t \in Tasks : Task(t) \/ AcquireAnswerLost(t) \/ Fails(t)
  \/ \E p \in Processes : Crash(p)
  \/ CleanupFind \/ CleanupUpdate \/ CleanupFails
  \/ Tick

Spec == Init /\ [][Next]_vars

\* Time passes, database calls answer, holders finish, and events that need the
\* lock keep arriving.  Nothing is assumed of cleanup_expired_locks.
FairSpec == Spec /\ WF_vars(Tick) /\ \A t \in Tasks : WF_vars(Task(t))

(***************************************************************************)
(* Properties.                                                             *)
(***************************************************************************)
Holders == {t \in Tasks : pc[t] = "held" /\ grant[t] > 0}

\* "prevent duplicate processing across multiple instances"
\* (distributed_lock_service.py:13): two tasks hold the lock within their leases
\* only once some task wrote a row that another had written after it was read
\* (lines 64 to 106), or released a row that is not its own (line 157).
Exclusive ==
  ~ spoiled => \A t, u \in Holders : t = u

\* No second ACTIVE row appears, which find_one could hand out in place of the
\* holder's, unless a row was spoiled (distributed_lock_service.py:103).
OneActiveRow ==
  ~ spoiled => \A i, j \in Active : i = j

\* "Auto-expires so a crashed emitter doesn't wedge the chain"
\* (audit_chain_service.py:197): whatever rows and cache entries crashes, lost
\* answers and races leave behind, the lock is granted again and again.
NeverWedged == []<>(\E t \in Tasks : pc[t] = "held")
=============================================================================
