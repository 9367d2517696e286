----------------------- MODULE DistributedLockProofs -----------------------
(***************************************************************************)
(* Type correctness, Exclusive and OneActiveRow of DistributedLock, for    *)
(* every number of processes and tasks, every lease and cache time.        *)
(*                                                                         *)
(* Exclusive is not inductive: that a task may take or insert rests on     *)
(* what it read, and that is still true only while it is fresh.  Unspoiled *)
(* says what every fresh reader may count on, and that a holder's lease is *)
(* the one its row tells.                                                  *)
(***************************************************************************)
EXTENDS DistributedLock, TLAPS

HolderHasRow ==
  \A t \in Holders : \E i \in Active : rows[i].owner = t /\ rows[i].left = grant[t]

TakerMayTake ==
  \A t \in Tasks : t \in fresh /\ pc[t] = "take" =>
    found[t] \in Active /\ rows[found[t]].left + waited[t] <= 0

InserterMayInsert ==
  \A t \in Tasks : t \in fresh /\ pc[t] = "insert" => Active = {}

CleanerMayClean ==
  Cleaner \in fresh => \A i \in outdated : i \in Active /\ rows[i].left < 0

OneRow == \A i, j \in Active : i = j

Unspoiled ==
  OneRow /\ HolderHasRow /\ TakerMayTake /\ InserterMayInsert /\ CleanerMayClean

IInv == TypeOK /\ (~ spoiled => Unspoiled)

LEMMA DownType ==
  ASSUME NEW lo \in Int, NEW hi \in Int, NEW n \in lo .. hi
  PROVE  /\ Down(n, lo) \in lo .. hi
         /\ n > lo => Down(n, lo) = n - 1
         /\ n = lo => Down(n, lo) = n
BY DEF Down

LEMMA Bounds ==
  /\ 0 \in 0 .. CacheTTL + 1 /\ CacheTTL + 1 \in 0 .. CacheTTL + 1
  /\ 0 \in 0 .. MaxDelay /\ 0 \in 0 .. LockTTL
BY TimesAssumption

LEMMA LeaseType ==
  ASSUME TypeOK, NEW t \in Tasks
  PROVE  /\ Lease(t) \in 1 .. LockTTL
         /\ LockRow(t) \in Leases
         /\ LockRow(t) # NoLease
         /\ LockRow(t).left = Lease(t) /\ LockRow(t).owner = t
BY TimesAssumption, SentinelAssumption DEF TypeOK, Lease, LockRow, Leases

LEMMA ActiveIsLease ==
  ASSUME TypeOK, NEW i \in Active
  PROVE  i \in Ids /\ rows[i] \in Leases /\ rows[i] # NoLease
BY DEF TypeOK, Active

(***************************************************************************)
(* Type correctness.                                                       *)
(***************************************************************************)
LEMMA TypeInit == Init => TypeOK
<1> SUFFICES ASSUME Init PROVE TypeOK
  OBVIOUS
<1>1. /\ cache \in [Processes -> 0 .. CacheTTL + 1]
      /\ waited \in [Tasks -> 0 .. MaxDelay]
      /\ grant \in [Tasks -> 0 .. LockTTL]
      /\ faults \in 0 .. MaxFaults
  BY TimesAssumption DEF Init
<1>2. /\ rows \in [Ids -> Leases \union {NoLease}]
      /\ pc \in [Tasks -> {"idle", "held"} \union Asking \union Releasing]
      /\ found \in [Tasks -> Ids \union {NoId}]
      /\ \A t \in Tasks : pc[t] = "idle"
      /\ outdated \subseteq Ids /\ fresh \subseteq Tasks \union {Cleaner}
      /\ spoiled \in BOOLEAN
  BY DEF Init
<1>3. QED  BY <1>1, <1>2 DEF TypeOK

LEMMA TypeAcquire ==
  ASSUME TypeOK, NEW t \in Tasks,
         \/ AcquireStart(t) \/ AcquireRefused(t)
         \/ AcquireFindExpired(t) \/ AcquireFindNone(t)
  PROVE  TypeOK'
BY TimesAssumption
   DEF TypeOK, AcquireStart, AcquireRefused, AcquireFindExpired, AcquireFindNone,
       Goto, Return, Read, Active, Asking, Releasing

LEMMA TypeWrite ==
  ASSUME TypeOK, NEW t \in Tasks, NEW i \in Ids, AcquireWrite(t, i)
  PROVE  /\ rows' \in [Ids -> Leases \union {NoLease}]
         /\ fresh' \subseteq Tasks \union {Cleaner}
         /\ spoiled' \in BOOLEAN
         /\ outdated' \subseteq Ids
BY LeaseType DEF TypeOK, AcquireWrite, Wrote

LEMMA TypeAcquired ==
  ASSUME TypeOK, NEW t \in Tasks, Acquired(t) \/ AcquireAnswerLost(t)
  PROVE  TypeOK'
<1>1. PICK i \in Ids : AcquireWrite(t, i)
  BY DEF Acquired, AcquireAnswerLost
<1>2. CASE Acquired(t)
  <2>1. /\ cache' \in [Processes -> 0 .. CacheTTL + 1]
        /\ waited' \in [Tasks -> 0 .. MaxDelay]
        /\ faults' \in 0 .. MaxFaults
    BY <1>2, Bounds DEF TypeOK, Acquired, Return
  <2>2. grant' \in [Tasks -> 0 .. LockTTL]
    BY <1>2, LeaseType DEF TypeOK, Acquired
  <2>3. /\ pc' \in [Tasks -> {"idle", "held"} \union Asking \union Releasing]
        /\ found' \in [Tasks -> Ids \union {NoId}]
        /\ \A u \in Tasks : pc'[u] \in {"take", "release"} => found'[u] \in Ids
    BY <1>2 DEF TypeOK, Acquired, Return, Goto
  <2>4. QED  BY <1>1, TypeWrite, <2>1, <2>2, <2>3 DEF TypeOK
<1>3. CASE AcquireAnswerLost(t)
  BY <1>1, <1>3, TypeWrite, TimesAssumption
     DEF TypeOK, AcquireAnswerLost, Return, Goto, Asking, Releasing
<1>4. QED  BY <1>2, <1>3

LEMMA TypeRelease ==
  ASSUME TypeOK, NEW t \in Tasks,
         ReleaseStart(t) \/ ReleaseFind(t) \/ ReleaseNone(t) \/ Release(t)
  PROVE  TypeOK'
<1> USE TimesAssumption DEF TypeOK, Goto, Return, Asking, Releasing
<1>1. CASE ReleaseStart(t)  BY <1>1 DEF ReleaseStart
<1>2. CASE ReleaseFind(t)  BY <1>2 DEF ReleaseFind, Read, Active
<1>3. CASE ReleaseNone(t)  BY <1>3 DEF ReleaseNone
<1>4. CASE Release(t)
  <2>1. rows' \in [Ids -> Leases \union {NoLease}]
    BY <1>4 DEF Release
  <2>2. cache' \in [Processes -> 0 .. CacheTTL + 1] /\ waited' \in [Tasks -> 0 .. MaxDelay]
    BY <1>4, Bounds DEF Release
  <2>3. QED  BY <1>4, <2>1, <2>2 DEF Release, Wrote, Owns
<1>5. QED  BY <1>1, <1>2, <1>3, <1>4

LEMMA TypeCleanup ==
  ASSUME TypeOK, CleanupFind \/ CleanupUpdate \/ CleanupFails
  PROVE  TypeOK'
<1>1. CASE CleanupFind
  BY <1>1 DEF TypeOK, CleanupFind, Read, Active
<1>2. CASE CleanupUpdate
  BY <1>2 DEF TypeOK, CleanupUpdate
<1>3. CASE CleanupFails
  BY <1>3, TimesAssumption DEF TypeOK, CleanupFails
<1>4. QED  BY <1>1, <1>2, <1>3

LEMMA OlderType ==
  ASSUME NEW row \in Leases \union {NoLease}
  PROVE  /\ Older(row) \in Leases \union {NoLease}
         /\ row = NoLease <=> Older(row) = NoLease
         /\ row # NoLease => /\ Older(row).owner = row.owner
                             /\ Older(row).left = Down(row.left, -MaxDelay)
<1>1. CASE row = NoLease  BY <1>1 DEF Older
<1>2. CASE row # NoLease
  <2>1. row.left \in -MaxDelay .. LockTTL  BY <1>2 DEF Leases
  <2>2. Down(row.left, -MaxDelay) \in -MaxDelay .. LockTTL
    BY <2>1, DownType, TimesAssumption
  <2>3. Older(row) = [row EXCEPT !.left = Down(row.left, -MaxDelay)]
    BY <1>2 DEF Older
  <2>4. Older(row) \in Leases  BY <1>2, <2>2, <2>3 DEF Leases
  <2>5. QED  BY <1>2, <2>2, <2>3, <2>4, SentinelAssumption DEF Leases
<1>3. QED  BY <1>1, <1>2

LEMMA TypeTick == ASSUME TypeOK, Tick  PROVE TypeOK'
<1>1. rows' \in [Ids -> Leases \union {NoLease}]
  BY OlderType DEF TypeOK, Tick
<1>2. cache' \in [Processes -> 0 .. CacheTTL + 1]
  BY DownType, TimesAssumption DEF TypeOK, Tick
<1>3. grant' \in [Tasks -> 0 .. LockTTL]
  BY DownType, TimesAssumption DEF TypeOK, Tick
<1>4. waited' \in [Tasks -> 0 .. MaxDelay]
  BY TimesAssumption DEF TypeOK, Tick
<1>5. QED  BY <1>1, <1>2, <1>3, <1>4 DEF TypeOK, Tick

LEMMA TypeFault ==
  ASSUME TypeOK, (\E t \in Tasks : Fails(t)) \/ (\E p \in Processes : Crash(p))
  PROVE  TypeOK'
<1>1. CASE \E t \in Tasks : Fails(t)
  BY <1>1, TimesAssumption DEF TypeOK, Fails, Return, Goto
<1>2. CASE \E p \in Processes : Crash(p)
  BY <1>2, TimesAssumption DEF TypeOK, Crash
<1>3. QED  BY <1>1, <1>2

LEMMA TypeNext == TypeOK /\ [Next]_vars => TypeOK'
<1>1. ASSUME TypeOK, Next  PROVE TypeOK'
  <2>1. CASE \E t \in Tasks : Task(t) \/ AcquireAnswerLost(t)
    BY <1>1, <2>1, TypeAcquire, TypeAcquired, TypeRelease DEF Task
  <2>2. CASE (\E t \in Tasks : Fails(t)) \/ (\E p \in Processes : Crash(p))
    BY <1>1, <2>2, TypeFault
  <2>3. CASE CleanupFind \/ CleanupUpdate \/ CleanupFails
    BY <1>1, <2>3, TypeCleanup
  <2>4. CASE Tick  BY <1>1, <2>4, TypeTick
  <2>5. QED  BY <1>1, <2>1, <2>2, <2>3, <2>4 DEF Next
<1>2. ASSUME TypeOK, UNCHANGED vars  PROVE TypeOK'
  BY <1>2 DEF TypeOK, vars
<1>3. QED  BY <1>1, <1>2

\* Every variable keeps its type (distributed_lock_service.py:20-267).
THEOREM LockTypeCorrect == Spec => []TypeOK
BY TypeInit, TypeNext, PTL DEF Spec

(***************************************************************************)
(* The invariant.                                                          *)
(***************************************************************************)
LEMMA UnspoiledInit == Init => Unspoiled
BY DEF Init, Unspoiled, OneRow, HolderHasRow, TakerMayTake, InserterMayInsert,
       CleanerMayClean, Holders, Active

\* A step that writes no row, makes no holder and reads nothing.
LEMMA UnspoiledQuiet ==
  ASSUME TypeOK, Unspoiled, rows' = rows, outdated' = outdated, waited' = waited,
         fresh' \subseteq fresh,
         \A t \in Holders' : t \in Holders /\ grant'[t] = grant[t],
         \A t \in Tasks : pc'[t] \in {"take", "insert"} =>
                          pc'[t] = pc[t] /\ found'[t] = found[t]
  PROVE  Unspoiled'
<1>1. Active' = Active  BY DEF Active
<1>2. OneRow' /\ HolderHasRow'
  BY <1>1 DEF Unspoiled, OneRow, HolderHasRow
<1>3. TakerMayTake' /\ InserterMayInsert' /\ CleanerMayClean'
  BY <1>1 DEF Unspoiled, TakerMayTake, InserterMayInsert, CleanerMayClean
<1>4. QED  BY <1>2, <1>3 DEF Unspoiled

\* A task returns without having written: waited is reset to 0.
LEMMA UnspoiledReturn ==
  ASSUME TypeOK, Unspoiled, NEW t \in Tasks, Return(t, "idle"),
         rows' = rows, outdated' = outdated, grant' = grant, fresh' \subseteq fresh
  PROVE  Unspoiled'
<1>1. Active' = Active  BY DEF Active
<1>2. \A u \in Tasks : pc'[u] # "idle" =>
        pc'[u] = pc[u] /\ found'[u] = found[u] /\ waited'[u] = waited[u]
  BY DEF TypeOK, Return, Goto
<1>3. Holders' \subseteq Holders  BY <1>2 DEF Holders
<1>4. OneRow' /\ HolderHasRow'
  BY <1>1, <1>3 DEF Unspoiled, OneRow, HolderHasRow
<1>5. TakerMayTake' /\ InserterMayInsert' /\ CleanerMayClean'
  BY <1>1, <1>2 DEF Unspoiled, TakerMayTake, InserterMayInsert, CleanerMayClean
<1>6. QED  BY <1>4, <1>5 DEF Unspoiled

\* A reader is fresh, and what it read is so.
LEMMA UnspoiledFind ==
  ASSUME TypeOK, Unspoiled, NEW t \in Tasks,
         AcquireFindExpired(t) \/ AcquireFindNone(t) \/ ReleaseFind(t)
  PROVE  Unspoiled'
<1>1. rows' = rows /\ outdated' = outdated /\ waited' = waited /\ grant' = grant
      /\ fresh' = fresh \union {t}
  BY DEF AcquireFindExpired, AcquireFindNone, ReleaseFind, Read
<1>2. Active' = Active  BY <1>1 DEF Active
<1>3. /\ \A u \in Tasks \ {t} : pc'[u] = pc[u] /\ found'[u] = found[u]
      /\ pc'[t] # "held"
  BY DEF TypeOK, AcquireFindExpired, AcquireFindNone, ReleaseFind, Goto
<1>4. OneRow' /\ HolderHasRow'
  BY <1>1, <1>2, <1>3 DEF Unspoiled, OneRow, HolderHasRow, Holders
<1>5. CleanerMayClean'
  BY <1>1, <1>2, SentinelAssumption DEF Unspoiled, CleanerMayClean
<1>6. pc'[t] = "insert" => Active = {}
  BY DEF TypeOK, AcquireFindExpired, AcquireFindNone, ReleaseFind, Goto
<1>7. pc'[t] = "take" => found'[t] \in Active /\ rows[found'[t]].left + waited[t] <= 0
  <2>1. CASE AcquireFindExpired(t)
    <3>1. PICK i \in Active : ~ StillValid(i, t) /\ Goto(t, "take", i)
      BY <2>1 DEF AcquireFindExpired
    <3>2. found'[t] = i  BY <3>1 DEF Goto, TypeOK
    <3>3. rows[i].left \in Int /\ waited[t] \in Int
      BY ActiveIsLease, TimesAssumption DEF Leases, TypeOK
    <3>4. QED  BY <3>1, <3>2, <3>3 DEF StillValid
  <2>2. CASE AcquireFindNone(t) \/ ReleaseFind(t)
    BY <2>2 DEF TypeOK, AcquireFindNone, ReleaseFind, Goto
  <2>3. QED  BY <2>1, <2>2
<1>8. TakerMayTake' /\ InserterMayInsert'
  BY <1>1, <1>2, <1>3, <1>6, <1>7 DEF Unspoiled, TakerMayTake, InserterMayInsert
<1>9. QED  BY <1>4, <1>5, <1>8 DEF Unspoiled

\* The writer was fresh, so no lease but its own is running afterwards.
LEMMA UnspoiledWrite ==
  ASSUME TypeOK, Unspoiled, NEW t \in Tasks, NEW i \in Ids, AcquireWrite(t, i),
         ~ spoiled'
  PROVE  Active' = {i} /\ Holders = {} /\ fresh' = {}
         /\ rows'[i].owner = t /\ rows'[i].left = Lease(t)
<1>1. t \in fresh  BY DEF AcquireWrite
<1>2. rows' = [rows EXCEPT ![i] = LockRow(t)] /\ fresh' = {}
  BY DEF AcquireWrite, Wrote
<1>3. rows'[i] = LockRow(t) /\ \A j \in Ids \ {i} : rows'[j] = rows[j]
  BY <1>2 DEF TypeOK
<1>4. Active \subseteq {i} /\ Holders = {}
  <2>1. CASE pc[t] = "take" /\ i = found[t]
    <3>1. i \in Active /\ rows[i].left + waited[t] <= 0
      BY <1>1, <2>1 DEF Unspoiled, TakerMayTake
    <3>2. Active = {i}  BY <3>1 DEF Unspoiled, OneRow
    <3>3. rows[i].left <= 0
      BY <3>1, ActiveIsLease, TimesAssumption DEF Leases, TypeOK
    <3>4. ASSUME NEW u \in Holders  PROVE FALSE
      <4>1. rows[i].left = grant[u]  BY <3>2 DEF Unspoiled, HolderHasRow
      <4>2. grant[u] \in Int /\ grant[u] > 0
        BY TimesAssumption DEF Holders, TypeOK
      <4>3. QED  BY <3>3, <4>1, <4>2
    <3>5. QED  BY <3>2, <3>4
  <2>2. CASE pc[t] = "insert"
    <3>1. Active = {}  BY <1>1, <2>2 DEF Unspoiled, InserterMayInsert
    <3>2. QED  BY <3>1 DEF Unspoiled, HolderHasRow
  <2>3. QED  BY <2>1, <2>2 DEF AcquireWrite
<1>5. Active' = {i}
  BY <1>3, <1>4, LeaseType DEF Active
<1>6. QED  BY <1>2, <1>3, <1>4, <1>5, LeaseType

LEMMA UnspoiledAcquired ==
  ASSUME TypeOK, Unspoiled, NEW t \in Tasks, Acquired(t) \/ AcquireAnswerLost(t),
         ~ spoiled'
  PROVE  Unspoiled'
<1>1. PICK i \in Ids : AcquireWrite(t, i)
  BY DEF Acquired, AcquireAnswerLost
<1>2. /\ Active' = {i} /\ Holders = {} /\ fresh' = {}
      /\ rows'[i].owner = t /\ rows'[i].left = Lease(t)
  BY <1>1, UnspoiledWrite
<1>3. OneRow' /\ TakerMayTake' /\ InserterMayInsert' /\ CleanerMayClean'
  BY <1>2 DEF OneRow, TakerMayTake, InserterMayInsert, CleanerMayClean
<1>4. \A u \in Holders' : u = t /\ grant'[t] = Lease(t)
  <2>1. \A u \in Tasks \ {t} : pc'[u] = pc[u] /\ grant'[u] = grant[u]
    BY DEF TypeOK, Acquired, AcquireAnswerLost, Return, Goto
  <2>2. Acquired(t) => grant'[t] = Lease(t)
    BY DEF TypeOK, Acquired
  <2>3. AcquireAnswerLost(t) => pc'[t] # "held"
    BY DEF TypeOK, AcquireAnswerLost, Return, Goto
  <2>4. QED  BY <1>2, <2>1, <2>2, <2>3 DEF Holders
<1>5. HolderHasRow'  BY <1>2, <1>4 DEF HolderHasRow
<1>6. QED  BY <1>3, <1>5 DEF Unspoiled

\* What is released is the releaser's own row: no other task holds a lease.
LEMMA UnspoiledRelease ==
  ASSUME TypeOK, Unspoiled, NEW t \in Tasks, Release(t), ~ spoiled'
  PROVE  Unspoiled'
<1> DEFINE i == found[t]
<1>1. i \in Active /\ rows[i].owner = t
  BY DEF Release, Owns, TypeOK, Active
<1>2. Active = {i}  BY <1>1 DEF Unspoiled, OneRow
<1>3. Active' = {}
  BY <1>1, <1>2 DEF Release, Active, TypeOK
<1>4. \A u \in Holders : u = t
  BY <1>1, <1>2 DEF Unspoiled, HolderHasRow
<1>5. Holders' = {}
  BY <1>4 DEF Release, Return, Goto, Holders, TypeOK
<1>6. fresh' = {}  BY DEF Release, Wrote
<1>7. QED
  BY <1>3, <1>5, <1>6 DEF Unspoiled, OneRow, HolderHasRow, TakerMayTake,
                          InserterMayInsert, CleanerMayClean

\* What the sweep expires has been past its time since it was read.
LEMMA UnspoiledCleanup ==
  ASSUME TypeOK, Unspoiled, CleanupFind \/ CleanupUpdate \/ CleanupFails, ~ spoiled'
  PROVE  Unspoiled'
<1>1. CASE CleanupFind
  <2>1. rows' = rows /\ pc' = pc /\ found' = found /\ waited' = waited /\ grant' = grant
        /\ fresh' = fresh \union {Cleaner}
        /\ outdated' = {i \in Active : rows[i].left < 0}
    BY <1>1 DEF CleanupFind, Read
  <2>2. Active' = Active /\ Holders' = Holders  BY <2>1 DEF Active, Holders
  <2>3. QED
    BY <2>1, <2>2, SentinelAssumption
       DEF Unspoiled, OneRow, HolderHasRow, TakerMayTake, InserterMayInsert,
           CleanerMayClean
<1>2. CASE CleanupUpdate
  <2>1. PICK i \in outdated : /\ rows' = [rows EXCEPT ![i] = NoLease]
                             /\ outdated' = outdated \ {i}
    BY <1>2 DEF CleanupUpdate
  <2>2. Cleaner \in fresh  BY <1>2 DEF CleanupUpdate
  <2>3. i \in Active /\ rows[i].left < 0 /\ \A j \in outdated : j \in Active
    BY <2>1, <2>2 DEF Unspoiled, CleanerMayClean
  <2>4. Active = {i} /\ outdated' = {}
    BY <2>1, <2>3 DEF Unspoiled, OneRow
  <2>5. Active' = {}  BY <2>1, <2>4, <2>3 DEF Active, TypeOK
  <2>6. Holders = {}
    <3>1. ASSUME NEW u \in Holders  PROVE FALSE
      <4>1. rows[i].left = grant[u]  BY <2>4 DEF Unspoiled, HolderHasRow
      <4>2. grant[u] \in Int /\ grant[u] > 0
        BY TimesAssumption DEF Holders, TypeOK
      <4>3. rows[i].left \in Int  BY <2>3, ActiveIsLease, TimesAssumption DEF Leases
      <4>4. QED  BY <2>3, <4>1, <4>2, <4>3
    <3>2. QED  BY <3>1
  <2>7. Holders' = {} /\ fresh' = {}
    BY <1>2, <2>4, <2>6 DEF CleanupUpdate, Holders
  <2>8. QED
    BY <2>5, <2>7 DEF Unspoiled, OneRow, HolderHasRow, TakerMayTake,
                      InserterMayInsert, CleanerMayClean
<1>3. CASE CleanupFails
  <2>1. rows' = rows /\ pc' = pc /\ found' = found /\ waited' = waited /\ grant' = grant
        /\ outdated' = {} /\ fresh' \subseteq fresh
    BY <1>3 DEF CleanupFails
  <2>2. Active' = Active /\ Holders' = Holders  BY <2>1 DEF Active, Holders
  <2>3. QED
    BY <2>1, <2>2
       DEF Unspoiled, OneRow, HolderHasRow, TakerMayTake, InserterMayInsert,
           CleanerMayClean
<1>4. QED  BY <1>1, <1>2, <1>3

\* Time moves a row and the lease it grants together, and an expired row stays so.
LEMMA UnspoiledTick ==
  ASSUME TypeOK, Unspoiled, Tick  PROVE Unspoiled'
<1>1. \A i \in Ids : rows'[i] = Older(rows[i])
  BY DEF Tick
<1>2. Active' = Active
  BY <1>1, OlderType DEF Active, TypeOK
<1>3. \A i \in Active : /\ rows'[i].owner = rows[i].owner
                        /\ rows[i].left \in -MaxDelay .. LockTTL
                        /\ rows'[i].left = Down(rows[i].left, -MaxDelay)
  <2>1. TAKE i \in Active
  <2>2. i \in Ids /\ rows[i] \in Leases /\ rows[i] # NoLease  BY ActiveIsLease
  <2>3. QED  BY <1>1, <2>2, OlderType DEF Leases
<1>4. \A i \in Active : /\ rows[i].left > -MaxDelay => rows'[i].left = rows[i].left - 1
                        /\ rows[i].left = -MaxDelay => rows'[i].left = -MaxDelay
  BY <1>3, DownType, TimesAssumption
<1>5. pc' = pc /\ found' = found /\ outdated' = outdated /\ fresh' = fresh
  BY DEF Tick
<1>6. OneRow' /\ InserterMayInsert'
  BY <1>2, <1>5 DEF Unspoiled, OneRow, InserterMayInsert
<1>7. HolderHasRow'
  <2>1. SUFFICES ASSUME NEW t \in Holders'
                 PROVE \E i \in Active' : rows'[i].owner = t /\ rows'[i].left = grant'[t]
    BY DEF HolderHasRow
  <2>2. grant[t] \in 0 .. LockTTL /\ grant'[t] = Down(grant[t], 0)
    BY DEF Holders, TypeOK, Tick
  <2>3. grant'[t] = grant[t] - 1 /\ grant[t] > 1
    BY <2>2, TimesAssumption DEF Holders, Down
  <2>4. t \in Holders  BY <1>5, <2>2, <2>3, TimesAssumption DEF Holders
  <2>5. PICK i \in Active : rows[i].owner = t /\ rows[i].left = grant[t]
    BY <2>4 DEF Unspoiled, HolderHasRow
  <2>6. rows'[i].left = grant[t] - 1
    BY <1>4, <2>2, <2>3, <2>5, TimesAssumption
  <2>7. QED  BY <1>2, <1>3, <2>3, <2>5, <2>6
<1>8. TakerMayTake'
  <2>1. SUFFICES ASSUME NEW t \in Tasks, t \in fresh, pc[t] = "take"
                 PROVE  found[t] \in Active /\ rows'[found[t]].left + waited'[t] <= 0
    BY <1>2, <1>5 DEF TakerMayTake
  <2>2. found[t] \in Active /\ rows[found[t]].left + waited[t] <= 0
    BY <2>1 DEF Unspoiled, TakerMayTake
  <2>3. waited[t] \in 0 .. MaxDelay /\ waited[t] < MaxDelay /\ waited'[t] = waited[t] + 1
    BY <2>1 DEF TypeOK, Tick, Asking
  <2>4. QED  BY <1>3, <1>4, <2>2, <2>3, TimesAssumption
<1>9. CleanerMayClean'
  <2>1. SUFFICES ASSUME Cleaner \in fresh, NEW i \in outdated
                 PROVE  i \in Active /\ rows'[i].left < 0
    BY <1>2, <1>5 DEF CleanerMayClean
  <2>2. i \in Active /\ rows[i].left < 0  BY <2>1 DEF Unspoiled, CleanerMayClean
  <2>3. QED  BY <1>3, <1>4, <2>2, TimesAssumption
<1>10. QED  BY <1>6, <1>7, <1>8, <1>9 DEF Unspoiled

LEMMA UnspoiledCrash ==
  ASSUME TypeOK, Unspoiled, NEW p \in Processes, Crash(p)
  PROVE  Unspoiled'
<1>1. rows' = rows /\ outdated' = outdated /\ fresh' \subseteq fresh
  BY DEF Crash
<1>2. \A t \in Tasks : pc'[t] # "idle" =>
        pc'[t] = pc[t] /\ found'[t] = found[t] /\ waited'[t] = waited[t]
        /\ grant'[t] = grant[t]
  BY DEF TypeOK, Crash
<1>3. Active' = Active /\ Holders' \subseteq Holders
      /\ \A t \in Holders' : grant'[t] = grant[t]
  BY <1>1, <1>2 DEF Active, Holders
<1>4. QED
  BY <1>1, <1>2, <1>3
     DEF Unspoiled, OneRow, HolderHasRow, TakerMayTake, InserterMayInsert,
         CleanerMayClean

LEMMA UnspoiledNext == IInv /\ [Next]_vars => IInv'
<1>1. SUFFICES ASSUME IInv, [Next]_vars, ~ spoiled'  PROVE Unspoiled'
  BY TypeNext DEF IInv
<1>2. TypeOK  BY <1>1 DEF IInv
<1>3. CASE spoiled
  BY <1>1, <1>3
     DEF Next, vars, Task, AcquireStart, AcquireRefused, AcquireFindExpired,
         AcquireFindNone, Acquired, AcquireAnswerLost, AcquireWrite, ReleaseStart,
         ReleaseFind, ReleaseNone, Release, CleanupFind, CleanupUpdate, CleanupFails,
         Fails, Crash, Tick
<1>4. CASE ~ spoiled
  <2>1. Unspoiled  BY <1>1, <1>4 DEF IInv
  <2>2. ASSUME NEW t \in Tasks, AcquireStart(t) \/ ReleaseStart(t)  PROVE Unspoiled'
    <3>1. /\ rows' = rows /\ outdated' = outdated /\ waited' = waited /\ fresh' = fresh
          /\ \A u \in Tasks : pc'[u] \notin {"find", "refind"} =>
                              pc'[u] = pc[u] /\ found'[u] = found[u]
                              /\ grant'[u] = grant[u]
      BY <1>2, <2>2 DEF TypeOK, AcquireStart, ReleaseStart, Goto
    <3>2. QED  BY <1>2, <2>1, <3>1, UnspoiledQuiet DEF Holders
  <2>3. ASSUME NEW t \in Tasks, AcquireRefused(t) \/ ReleaseNone(t) \/ Fails(t)
        PROVE Unspoiled'
    BY <1>2, <2>1, <2>3, UnspoiledReturn DEF AcquireRefused, ReleaseNone, Fails
  <2>4. ASSUME NEW t \in Tasks, Task(t) \/ AcquireAnswerLost(t) \/ Fails(t)
        PROVE Unspoiled'
    BY <1>1, <1>2, <2>1, <2>2, <2>3, <2>4, UnspoiledFind, UnspoiledAcquired,
       UnspoiledRelease DEF Task
  <2>5. CASE UNCHANGED vars
    BY <1>2, <2>1, <2>5, UnspoiledQuiet DEF vars, Holders
  <2>6. QED
    BY <1>1, <1>2, <2>1, <2>4, <2>5, UnspoiledCleanup, UnspoiledTick, UnspoiledCrash
       DEF Next
<1>5. QED  BY <1>3, <1>4

LEMMA Invariance == Spec => []IInv
<1>1. Init => IInv  BY TypeInit, UnspoiledInit DEF IInv
<1>2. QED  BY <1>1, UnspoiledNext, PTL DEF Spec

\* Two tasks never hold the lock within their leases unless a row was written by
\* who had not read it since its last write, or released by who does not own it
\* (distributed_lock_service.py:64-106, 150).
THEOREM LockExclusive == Spec => []Exclusive
<1>1. IInv => Exclusive
  BY DEF IInv, Unspoiled, OneRow, HolderHasRow, Exclusive
<1>2. QED  BY <1>1, Invariance, PTL

\* Under the same condition the lock has one ACTIVE row at most
\* (distributed_lock_service.py:103).
THEOREM LockOneActiveRow == Spec => []OneActiveRow
<1>1. IInv => OneActiveRow
  BY DEF IInv, Unspoiled, OneRow, OneActiveRow
<1>2. QED  BY <1>1, Invariance, PTL
=============================================================================
