# Senat-Digit API: a TLA+ model

`senat_digit_api` is the back end of a sénat's sittings: séances, their agenda
and quorum, requests to speak, documents, votes with delegations and secrecy,
an inbox, and a hash-chained audit log. It is a FastAPI application on MongoDB
(Beanie 1.28 over Motor), deployed as several gunicorn worker processes, each
an asyncio loop. Nothing in it uses a MongoDB transaction, an optimistic
revision or a conditional update of a document: a handler loads a document,
decides on its copy, changes the copy and calls `save()`, which writes the whole
copy back. What serialises the handlers is a handful of unique indexes and one
best-effort lock. This directory models what follows from that.

Contents: [inventory](#1-inventory) · [modules](#2-the-modules) ·
[runs](#3-what-the-runs-check-and-show) · [bounds](#4-bounds) ·
[fairness](#5-fairness) · [proofs](#6-proofs) · [findings](#7-findings) ·
[what is not modelled](#8-what-is-not-modelled) · [plan](#9-plan)

## 1. Inventory

Paths are relative to `src/app/modules/` unless they start with `src/`.

### 1.1 The domain

| component | state it keeps | operations | what is hard | what makes it correct |
|---|---|---|---|---|
| **Scrutin** `vote/services/vote_service.py` | one `VoteConfig` document: status, secrecy and sealed key, ballot and majority type, threshold, `allow_proxies`, `ballots_cast_count` | create, patch, change_type_live, open, suspend, close, validate, annul | every operation is load, decide, `save()` of the whole copy, so two of them, or one and a cast, overwrite each other | the status follows `VOTE_STATUS_TRANSITIONS`; the terms are frozen once a ballot exists; a secret scrutin has a key, a public one none |
| **Ballots** `vote/services/ballot_service.py` | `VoteBallot` rows; the counter in the scrutin | cast | the duplicate check and the insert are two calls and no unique index backs them; the insert and the counter are two writes; the save writes back a copy loaded before the crypto and the proxy lookup | one ballot per sénateur; the counter never ahead of the ballots; the weight drawn from the voter's own pouvoirs |
| **Pouvoirs** `vote/services/proxy_service.py` | `VoteProxy` rows, per séance | assign, revoke, lists | check, then insert; a pouvoir revoked between the cast's lookup and its insert; nothing prevents a granter from voting | one active delegation per granter; no voice counted twice |
| **Tally** `vote/services/tally_service.py` | the `VoteResult` row, unique per scrutin | compute (at close, and from the PV export), manual tally | reads the scrutin, the ballots, the séance and the old row in four calls, and writes what it made of them; two tallies race on the insert | the result counts stored ballots, all of them once all is quiet; the decision is the règlement's |
| **PV export** `vote/services/pv_export_service.py` | an `ArchFile` and a `DocumentMeta` per export | export | upload, three inserts and a publish with no undo; the result printed may be older than the scrutin | only a closed scrutin is exported; the PV prints the result of that scrutin |
| **Séance** `session_meeting/services/session_service.py`, `…/api/controller/session_controller.py` | `SessionMeeting` (status, seats, quorum), `SessionParticipant` rows | create, patch, open, suspend, close, archive, set_mode, assign participants (nothing removes one) | same load/save pattern; a patch may lower `total_seats` under a running vote, and below the quorum | a closed séance stays as its minutes tell it; 0 < quorum ≤ seats; one row per participant |
| **Quorum and presence** `session_meeting/services/quorum_service.py`, `presence/services/presence_service.py` | `PresenceSignature` rows, unique per (séance, user) | sign, derive_status, compute | the séance may close between the check and the insert; two signs race on the unique index and the loser's `DuplicateKeyError` is not handled | one signature per sénateur; quorum only grows during a séance |
| **Parole** `parole/services/parole_service.py` | `ParoleRequest` rows, each with an FSM | request, dispatch, terminate, queue | check, then insert (two pending requests); two dispatches of one request, the later save wins, both are audited and notified | one pending request per sénateur; one decision per request |
| **Agenda** `agenda/services/agenda_service.py` | `AgendaItem` rows | activate, reorder, publish | deactivate-siblings and activate-target are two writes, the second of a stale copy; reorder writes item by item | at most one active point per séance |
| **Documents** `document/services/document_service.py` | `DocumentMeta`, `DocumentVersion`, `DocumentAmendment` | create_version, validate_amendment, publish | version number = parent's + 1, with no unique index; the meta and the version row are two inserts | a version number is used once per chain; an amendment is decided once |
| **Notifications** `notification/services/notification_service.py` | `NtfNotification` rows | emit_one, emit_many, fan-out, mark_read | a fan-out is one insert per participant, cut short by a crash and never resumed | a recipient gets an event once per emission; only the owner marks read |
| **Audit chain** `audit_security/services/audit_chain_service.py` | `AuditEvent` rows per organisation, unique on (organisation, sequence number), hash-chained | emit, verify_chain, self_test | read the tail, hash, insert: any number of workers at once; bounded retries; every caller swallows the failure | single fork, no gap; the verification neither misses a break nor cries wolf; what was accepted stays |
| **Audit verification** `audit_security/services/audit_chain_verification_cron.py`, `core/services/cron/cron_service.py` | one log row per sweep; the scheduler's job table | the sweep every 15 min, in each worker | a job that hangs blocks the scheduler loop | every chain is verified again and again |
| **Distributed lock** `core/services/cron/distributed_lock_service.py` | `DistributedLock` documents; a per-process cache | acquire, release, cleanup | find, then insert or update (two holders); the 30 s cache outlives the 10 s lock; release does not look at the owner | a crashed holder's lock becomes available again |
| **Grouped validation** `core/services/generic/generic_services.py` (from line 780), `core/api/controller/static_controller.py` (from line 4866) | `OpsValidationRequest`, one `OpsValidationRequestUser` row per validator, a Redis key per process | queue a request (with its parent, rows and key), validate_or_reject, validate_all | the request is stored before its rows; each validator saves a copy of the request after counting the rows; the key expires after six hours; the bulk path counts the rows by another comparison than the single one | an approved request has the approval of all its validators; a closed one stays closed; an open one awaits somebody who has not decided; a chain of requests stays in its organisation |

### 1.2 The platform

`auth` (login, tokens, devices), `security` (sudo and action middlewares, row-level
security, per-organisation KMS, websockets, validation chains), `core` (generic
CRUD over any collection, encryption, translation, files, queues), `app/lifespan`
(startup, cron threads, shutdown), `app/db`, and the seed modules
(`administration`, `api_conumers_seed`, `parametres`, `admin_user`, `rh`,
`edocs`). They surround the domain above and decide who may call it; they are
listed in `PROJECT.json` with the reason each is left out.

### 1.3 How the components interact

* **Calls.** `VoteController.close` calls `VoteService.close` and then
  `TallyService.compute`. `BallotService.cast` calls `ProxyService.active_for_holder`.
  `PvExportService.export` calls `TallyService.compute` when there is no result,
  then `DocumentService.publish`. Every domain service calls
  `AuditChainService.emit` and `NotificationService` after its own writes, inside
  `try: … except Exception: pass`, so those calls change nothing of the caller.
* **Shared state.** A cast writes the scrutin document that the greffier's
  operations write (through the counter). The tally reads what casts insert. The
  séance's `total_seats` is the base of three of the four majorities.
  Pouvoirs belong to the séance and weigh in all its scrutins.
  The séance, its agenda and its documents share no stored state; what ties them is
  that their handlers read the séance's status or participants, once.
* **Indirection.** An endpoint under a grouped sudo action does not do its work: it
  queues a validation request and answers 202. Nothing in the tree applies a request
  once it is approved, and nothing but the request itself records the approval.
* **Concurrency.** Requests of all workers interleave at every `await` on the
  database. There are no callbacks between components and no message queue in
  the domain.
* **Failures.** A worker dies between two awaits (gunicorn's 30 s timeout,
  `max_requests`, a deployment): `src/configs/gunicorn.conf.py`. There is no
  recovery procedure: what was written stays, the rest never happens.

## 2. The modules

| module | what it is | models |
|---|---|---|
| `VoteScrutin` | the core: one scrutin, its ballots, the pouvoirs of its séance, its result row, and the requests in flight | `ballot_service`, `vote_service`, `proxy_service`, `tally_service.compute` (as a reader and writer), the manual tally, the tally of the PV export |
| `ScrutinPromise` | abstract: the life cycle, terms settled before the first ballot, one vote per sénateur while open, the published result; one step per operation | — |
| `VoteRefinement` | `VoteScrutin` implements `ScrutinPromise` (`INSTANCE … WITH`) | — |
| `ScrutinHistory` | `VoteScrutin` with three history variables: what stale tallies, saves and crashes may do to the result | — |
| `VoteScrutinProofs` | theorems about `VoteScrutin` and `ScrutinHistory`, as deployed and under the discipline, and about its refinement | — |
| `TallyDecision` | the arithmetic of a tally: the count over the ballots, the base, the required count, the decision | `tally_service._required_count`, `_decision`, the loop of `compute` |
| `TallyDecisionProofs` | theorems about `TallyDecision` | — |
| `AuditChain` | the rows of one organisation, the emits in flight, `verify_chain` | `audit_chain_service`, the unique index of `audit_event_model` |
| `AuditLog` | abstract: a log that grows, each emit taking effect once or never | — |
| `AuditRefinement` | `AuditChain` implements `AuditLog` | — |
| `AuditChainProofs` | theorems about `AuditChain` and its refinement | — |
| `DistributedLock` | one named lock: its rows, a cache per process, the tasks that acquire and release it, the clean-up, time and faults | `distributed_lock_service` |
| `DistributedLockProofs` | theorems about `DistributedLock` | — |
| `SessionMeeting` | one séance, its participants, signatures and requests to speak, and the requests in flight | `session_service`, `session_controller`, `presence_service`, `quorum_service`, `parole_service` |
| `SessionMeetingProofs` | theorems about `SessionMeeting` | — |
| `Agenda` | the points of one séance | `agenda_service`, `agenda_controller` |
| `Documents` | documents, versions, amendments, the export's document, the fan-out of a publication | `document_service`, `document_controller`, `pv_export_service`, `notification_service` |
| `DocumentsProofs` | theorems about `Documents` | — |
| `Chamber` | the composition of the three: séance, agenda and documents side by side | — |
| `ChamberProofs` | theorems about `Agenda` and about the composition | — |
| `GroupValidation` | validation requests, their rows, the process keys, and the workers that queue and decide | `generic_services` (queueing, linkage, keys), `static_controller` (validate_or_reject, validate_all) |
| `GroupValidationProofs` | theorems about `GroupValidation` | — |
| `MCVoteScrutin`, `MCScrutinHistory`, `MCTallyDecision`, `MCGroupValidation` | values for TLC: the symmetry, the thresholds, the organisations and the constraint | — |

In each model module a definition marked `variant` just before another one is the
form a plausible bug would give that definition; it is used by no specification
(`PROJECT.json`, "mutants", substitutes it to see the property fail).

### 2.1 VoteScrutin

**State.** `cfg` is the stored `VoteConfig`, `ballots`, `pouvoirs` and `result`
the stored rows, `pc[r]` the database call request `r` is waiting for and
`mem[r]` what it keeps in local variables meanwhile: the document it loaded
(`doc`), the user it acts for, the rows and the result it read. A row is named by
the request that inserted it, so is a key. The types are abstracted to what the
handlers tell apart: `rule` stands for ballot type, majority type and threshold
together; a ballot's weight is its set of proxy rows (weight = 1 + their number);
its choice does not matter here, and the arithmetic on choices is `TallyDecision`.
A result is the rule and the set of ballots it was computed from. An encrypted
voter id is modelled by the voter and the key: only the holder of that key
recognises the voter (`AlreadyVoted`).

**Actions.** An action is the code between two database calls.

| action | code |
|---|---|
| `CastLoad` → `CastCheck` → `CastProxies` → `CastInsert` → `CastCount` | `BallotService.cast`: load and status check; duplicate check (clear or decrypting) and the missing-key refusal; proxies and the weight's bound; ballot insert; save of the copy with the counter incremented |
| `TransitionLoad`, `Save` | `_transition`: load and check, then `save()`; after CLOS `Save` goes on to the tally, as the close endpoint does |
| `CloseAgain` | the close endpoint on a scrutin already CLOS: no save, but a tally |
| `ChangeTypeLoad`, `Save` | `change_type_live`: counter and status checks, the new terms, a fresh or dropped key |
| `PatchLoad`, `Save` | `patch` |
| `TallyLoad` → `TallySum` → `TallyFind` → `TallyWrite` | `TallyService.compute`: scrutin, ballots, existing row, then overwrite or insert; an insert that meets the unique index is refused |
| `ManualLoad`, `ManualSave` | `create_manual_tally`: the entry goes to a field the document model does not declare, the assignment raises and is ignored, and the row is saved as it was read |
| `ExportLoad`, `ExportFind` | the part of the PV export that can write this state: compute a missing result |
| `AssignCheck`, `AssignInsert`, `Revoke` | `ProxyService` |
| `Crash` | the worker dies; the request ends where it waits |

**Discipline.** The code admits any interleaving. Three constants describe what
the *clients* refrain from, so that a run can say under which use a promise holds:
`ChairDiscipline` ("free": nothing; "serial": the greffier's requests do not
overlap one another; "exclusive": a greffier's request runs when nothing else is
in flight, and nothing starts while one runs), `VoterSerial` (no sénateur has two
casts, or two delegations, in flight) and `Crashes`, the awaits at which a worker may die. The theorems about the scrutin as deployed
use none of them; a theorem about a disciplined use names what it needs as its hypothesis
(`Disciplined`, `Steadfast` or `VoterSerial`).

**History.** `ScrutinHistory` adds what the present state has forgotten, and what no action reads: `shut`
(CLOS has been saved), `early` (the ballots stored when it first was) and `cut` (a request died
between its close and its result).

### 2.2 TallyDecision

`counts` are the four weighted counts, `terms` the majority type, the threshold and
`total_seats`; one action, `Count`, is one turn of the loop (`max(1, weight)`
included), and `decision` is what `_decision` answers on the counts so far. A
custom threshold is a fraction; `RoundsUp` names the (seats, threshold) whose product
in doubles falls just above the integer it should be (25 seats at 56 %: Python's
`25 * 0.56` is `14.000000000000002`, and `math.ceil` gives 15). `RoundsUpAssumption`: that happens only where
the exact product is an integer and the threshold strictly between 0 and 1, since a double is off by far
less than the distance of any other product to the next integer. `NoSeats` is
`total_seats = None`: creating a scrutin does not check that the séance exists.

### 2.3 AuditChain

`rows` maps sequence numbers to rows; `draft[e]` is what emit `e` read (next
number, tail hash), `tries[e]` its refused inserts, `holders` the emits whose
`acquire_lock` said yes. `acquire_lock` never waits (it has a `retry_interval_seconds`
parameter and does not use it) and the emit goes on whatever it answers, so the
lock is an input, granted or not, at any time and to any number of emits; what
depends on it is only the release at the end. The hash is idealised as injective:
the hash of a row is the sequence of payloads it covers. `verify_chain(from, to)`
is the walk over the window: it compares each row's `prev` with the `hash` of the
row before it and recomputes the row's own.

`since` is a history variable: the tail when an emit began.

### 2.4 DistributedLock

`rows` are the ACTIVE rows of one lock name (a row in any other status is found by no
query, so it is no row here); `cache[p]` is how long process `p` still answers
"locked" without asking; `pc`, `found` and `waited` are what each task is at, the row it
read, and how long ago it took `now`. Time is counted *down*: a row holds what is left
of its `expires_at`, and `Tick` lowers everything at once, so the states stay finite
though the run goes on for ever. The code judges a row by the `now` taken at the top of
`acquire_lock`, not by the time of its query; `waited` is that difference.

| action | code |
|---|---|
| `AcquireStart` | the cache does not answer; `now` is taken |
| `AcquireRefused`, `AcquireFindExpired`, `AcquireFindNone` | `find_one` of an ACTIVE row: still valid, expired, none |
| `Acquired`, `AcquireAnswerLost` | the update of the expired row, or the insert of a new one; the answer may not come back |
| `ReleaseStart`, `ReleaseFind`, `ReleaseNone`, `Release` | `release_lock`: whichever row is ACTIVE is found and written, whoever owns it |
| `CleanupFind`, `CleanupUpdate`, `CleanupFails` | `cleanup_expired_locks` |
| `Tick`, `Fails`, `Crash` | time; a database call raises; a worker dies and loses its cache |

`fresh` (who has read since the last write of another) and `spoiled` (a row was written by
who was not fresh, or released by who does not own it) are history: the two ways in
which the code lets two holders in are what `spoiled` records, and nothing else.

### 2.5 SessionMeeting, Agenda, Documents, Chamber

The same form as `VoteScrutin`: the stored rows, `pc`/`at`/`step` (the call each request
waits for) and `mem`/`copy`/`held` (the copies it loaded, already changed). A request slot
is reused, so behaviours are not bounded by the number of requests; a request that is
refused before it awaits anything is a stuttering step.

Nothing in these handlers protects a read from the write of another, so nearly every
promise of their comments is false under some interleaving. Rather than assume that
away, each module keeps in history variables *which* requests hold a read that has since
been overwritten (`stale`, `undercut`, `behind`) and whether such a request has written
all the same (`lost`, `clashed`, `muddled`). A property then says exactly when the
promise holds: unless that has happened. `Misled`, `Felt`, `Overtaken` say, for each write,
whose reads it overwrites, and only reads the handler relies on: closing the séance
misleads an admitted signature, lowering its seats does not.

* `SessionMeeting` has the séance's `TransitionLoad`, `SetModeLoad`, `PatchLoad` → `SeanceSave`;
  `SeatLoad` → `SeatFind` → `SeatSave`/`SeatInsert` (assign_participant); `SignLoad` →
  `SignFind` → `SignInsert` (the unique index refuses a second row); `SpeakLoad` → `SpeakFind`
  → `SpeakInsert`; `DecideLoad` → `DecideSave` (dispatch and terminate); `Fails`.
* `Agenda` has `Create`, `PatchPoint`, `DeleteLoad` → `Delete`, `Reorder` → `SavePoint`…, `ActivateLoad` →
  `ActivateClear` → `ActivateSave`, `Publish`. `save()` inserts what is not there: a point deleted
  since it was loaded comes back.
* `Documents` has `CreateDocument`, `VersionLoad` → `VersionInsert`, `PatchDocument` → `SaveDocument`,
  `DeleteDocumentLoad` → `DeleteDocument`, `PublishLoad` → `PublishSave` → `Notify`… (one insert per
  participant), `ExportInsert` → `ExportChain` → `ExportLoad` → (as a publication), `Propose`, `RuleLoad` →
  `Rule`, `Falters`. `forked` records a version made of a document that is not, or no longer, the latest
  of its chain; `cut` a fan-out that stopped in the middle; `edges` counts how often a
  document went from hidden to published.
* `Chamber` puts them side by side. They share no variable, so a behaviour follows one
  `strand` of the work and the other parts rest: the composition adds no
  interleaving that matters, and the lemma `PartsByThemselves` of `ChamberProofs` carries each part's theorems over.

### 2.6 GroupValidation

`requests` and `rows` are the stored request documents and validators' rows, `keys` the
Redis process keys (`Expired` once gone); `pc` and `mem` are the workers. Queueing is
`QueueStart` → `GuardKey`/`GuardSkipped` → `ParentLoad` → `RequestInsert` → `RowInsert` (once per
validator) → `KeyLoad` → `KeyMove`, or `KeyCreate`; one validator's decision is `DecideLoad` → `RowFind` →
`RowSave` → `Count` → `StatusSave`; the bulk approval is `BulkLoad`, then for each request `BulkRow` →
`BulkSave`, or `BulkSkip`. Redis may not answer at any call, in which case the code goes on
(`GuardSkipped`, `KeyCreate`). `First` is the order validators are asked in; whose turn it is is
nowhere enforced, and the model enforces it nowhere. A decision is any member of
`EMultipleValidationStatus`, as the schema admits (`user_schema.py:46`): PENDING and IN_PROGRESS are stored on
the row, leave their author `Undecided` and move the request to IN_PROGRESS, where he may decide again.

`Root` walks up the parents, which never change once stored, so the walk (up to 20
reads) is one step. `overtaken` and `marks` are history, as in 2.5: `marks[r]` says what has
gone wrong with request `r` (written on an overwritten read; counted before all its rows
were there; a handler stopped between a decision and its outcome; approved in bulk; its
key moved by a worker that could not check it).

## 3. What the runs check, and show

Seven runs pass.

**`ScrutinDeployed`** — the scrutin as deployed: no discipline, crashes, every
operation. `TypeOK`; `CountBound` (the counter never exceeds the ballots, so
`ballots_cast_count > 0` always means a ballot exists); `SecretHasKey` (whatever
saves overwrite each other, secrecy and key agree, so the "DEK manquante … état
incohérent" refusal is unreachable); `WeightIsHeld` (a ballot's weight comes from
pouvoirs that name its voter); `ResultCountsBallots` (a result, however stale its
write, counts stored ballots only); `ClosedIsTallied` (of `ScrutinHistory`: a result, though a
`TallyWrite` or a `ManualSave` may overwrite it with an older one, never drops a ballot that was in at the
first close; and a closed scrutin has its result or is being tallied, unless a worker died on
the way: no tally gives up because others have meanwhile reopened, validated or annulled the scrutin).
What overwriting *can* do is lose the ballots that came in after the first close, through a stale cast's
reopening; that, and the close without a result after a crash, the property leaves open because the code does both.

**`ScrutinDisciplined`** — the greffier's requests run alone, a sénateur has one
request in flight, and a worker dies anywhere but between a ballot and its count or between
a close and its result. Then the promises of the docs hold:
`OneBallotPerVoter`, `OneDelegation`, `FrozenAfterFirstBallot`, `TallyComplete`
(when all is quiet and the scrutin is closed, the result counts every ballot by
the rule in force), and `KeepsPromise`: the scrutin implements `ScrutinPromise`,
with its life cycle. Casts still interleave with each other here, up to five at
once, and their saves still overwrite the counter: the promise does not
depend on the counter being exact, only on its being positive once a ballot is in
and all is quiet.

The discipline is not decoration: dropping any part of it breaks a promise. With
`ChairDiscipline = "serial"` and casts in flight a cast's save reopens a scrutin just
closed (`ScrutinReopened`), a `change_type_live` that loaded before the first insert
changes the terms after it, and a tally misses the ballot of a cast
that was under way; with `VoterSerial = FALSE` a double click votes twice
(`ScrutinTwoBallots`) or delegates twice; with "count" in `Crashes` a worker that dies between
insert and save leaves a ballot uncounted, and the terms of a scrutin with a ballot can be
changed; with "tally" in it a closed scrutin has no result. All other crashes are allowed in the run,
so these two windows are the only ones in which a death breaks a promise. One ballot per sénateur needs less than the rest: by theorem
`NobodyVotesTwiceUnlessRetyped` one cast in flight per sénateur suffices, among crashes and whatever
else the greffier does, as long as nobody changes the type of the scrutin (a type
change renews the key, and nobody recognises a voter under the old one).

**`TallyRules`** — `TypeOK`; `AdoptedIsReached` and `ReachedIsAdopted`: the rounded
integers of `_required_count` decide exactly as the règlement's fractions (more than
half, at least two thirds, at least the threshold), with two exceptions: an empty base, and a
custom threshold whose own product over the base at hand a double rounds up, which costs exactly one
POUR more (the other majorities and thresholds over that base are not excepted); `Monotone`: one more POUR never defeats,
one more CONTRE never carries, ABSTENTION and NPV move nothing.

**`AuditChain`** — three concurrent emits, two attempts each, any lock
behaviour, crashes. `TypeOK`; `ChainIntact` (no gap, no fork, every hash right);
`NoFalseAlarm` (every window verifies at every moment, also while emits run);
`RecordedOnce` (an emit that answered is in the chain once, one that raised is
not); `LossNeedsContention` (an event is given up only after that many *other* events
entered meanwhile: a lone emit never loses); `IsALog` (refinement of `AuditLog`);
`EmitEnds` (no emit waits for ever).

**`DistributedLock`** — two processes, one task in each, one crash or lost answer, a
clean-up running at any time. `Exclusive` (two tasks hold the lock within their leases
only once it is spoiled) and `OneActiveRow`; that is, the *only* ways to two holders are two
overlapping find-then-write and the release or clean-up of a row that is not one's
own. A slow task, a lost answer, an expired lease alone, a cache that lies, a crash: none of
them suffices. `NeverWedged`: whatever rows and cache entries are left behind, the lock is
granted again and again. Deadlock is checked in this run.

**`Chamber`** — the séance, its agenda and its documents, two requests at a time on each, with
crashes. `QuorumWithinSeats` (the quorum can be met, unless a patch lowered the seats
and named no quorum: stale saves alone never break it); `OneRowEach` (participants,
pending requests to speak); `OneActivePoint`; `VersionsAreNumbered`; `EachHearsOnce` (the rows of a
publication are, once its fan-out is through, exactly one per participant and passage to
published); `ClosedIsFinal` (after the close nothing of the quorum, the participants or the
number of requests to speak moves); `DecidedOnce` (a request to speak, an amendment);
`InUseIsKept` (the active point and a published document are not deleted). Each has
its exception for a write on an overwritten read, and each exception is reached in the
run.

**`GroupValidation`** — two workers queue and decide four requests of two organisations, with
stops at every call. `Lineage` (parents stay in the organisation and within the depth; a
process key's current step hangs under its root unless somebody moved the key unchecked);
`ApprovedByAll`; `ClosedIsFinal`; `Settled` (when nobody works on a request, its status is what its
rows say and, open, it awaits somebody who has not decided), again with the exceptions
named by `marks`. Validators decide in any order and put a decision off as often as they like.

Five runs expect a violation of what the repository says of itself; section 7.

## 4. Bounds

| run | instance | why it is enough |
|---|---|---|
| `ScrutinDeployed` | 4 requests, 2 sénateurs, 2 rules, weight ≤ 2 | open, cast, and two more of any kind at once: every pair of operations races, each with a crash; two closes race a cast, so a second tally finds the scrutin reopened by it. A weight bound of 2 makes the weight's limit (100 in the code) reachable. All its properties are also proved for any size |
| `ScrutinDisciplined` | 5 requests, 3 sénateurs | open, close and three concurrent casts; open, cast, change, cast, close; delegations among three. All its properties are also proved for any size |
| `TallyRules` | seats {1, 2, 3, 6, 10, 25}, weights {0, 1, 2}, at most 14 voices (`MaxCounted`), four thresholds | both parities, multiples of three and not, a product that rounds up (25 × 56 % needs 14 voices to matter), the degenerate 0 and 1 thresholds. All its properties are also proved for any values |
| `AuditChain` | 3 emits, 2 attempts | one emit can be overtaken twice and give up. The invariants and the refinement are also proved for any number of emits and attempts |
| `DistributedLock` | 2 processes of one task, lease 2, cache 1, delay 1, one fault, 4 row ids | two tasks are what it takes to overlap, and both cache and lease run out in either order with a delay of the other. `MaxDelay < LockTTL` says that the two calls of one `acquire_lock` take less than the lease it asks for (10 s for the only caller, `audit_chain_service.py:192`; 300 s by default): a lease that is past when it is written grants nothing. The invariants are proved for any size |
| `Chamber` | 2 requests, 2 sénateurs, seats and quorums {1, 2}, 2 rows (`MaxRows`); 2 clerks, 2 points; 2 writers, 4 documents, versions ≤ 3 (`MaxVersion`), 2 participants, each document published at most twice (`MaxEdges`), 2 amendments | every pair of handlers overlaps at every call. Three versions and four documents let a version be made of one that has been overtaken, and a deleted number be used again. `Bounded` does not follow an agenda or documents past an overwritten copy (nothing is claimed after it) and publishes one document at a time; seats vary only in the strands where somebody patches or counts them. All nine properties are also proved for any size, without these bounds |
| `GroupValidation` | 2 workers, 2 validators, 4 requests, 2 organisations, parents of depth 0 (`MaxDepth`) | `Bounded` follows two kinds of behaviour: *Queued*, four requests of one validator linked as parents, which nobody decides (for `Lineage`: a child, a grandchild refused for its depth, another organisation); *Decided*, one request of up to two validators decided in every way, with a second of one validator that bulk approvals take along. A decision is put off (`PutOff`: PENDING by the first validator, IN_PROGRESS by the second, which count alike) on a request without a mark or a second request beside it, by both workers and with any decision following. Keys are followed in *Queued* only; no decision looks at one. The properties are also proved for any size and depth, without these bounds |
| `GroupBulk` | 1 worker, 2 validators, 2 requests | the bulk approval needs no concurrency to go wrong |

In the vote's and the chain's runs each request is one HTTP request, served once; the number of requests is the only
bound on the length of a scrutin's history. `Symmetry` is used only where the
properties are safety properties and treat the permuted values alike.
Deadlock checking is off where the modelled system really stops: a scrutin whose
requests are served, an organisation whose events are emitted, a count that has
reached the end of the ballots, and in `Chamber` amendments that are all ruled on. It is on in `DistributedLock`, `GroupValidation` and `GroupBulk`.

## 5. Fairness

Two specifications have any. `AuditChain`'s `FairSpec`: weak fairness of each emit. An emit is a
coroutine of a live worker waiting for database calls that answer (Motor's calls
time out, and an error ends the emit); nothing it waits for can be taken away
from it by another emit, since it never waits for the lock. A crash ends the
emit, so `EmitEnds` needs no assumption about crashes.

`DistributedLock`'s `FairSpec`: weak fairness of `Tick` (time passes) and of each task's own
steps (database calls answer, a holder's critical section ends and it releases, and
events that need the lock keep arriving). Nothing is assumed of the clean-up, which no
code in the tree schedules, and crashes and lost answers are bounded by `MaxFaults`, since
a process that crashes for ever gets nothing done.

The scrutin's specification states no fairness and no liveness: nothing in the code
makes a greffier close a vote (`duration_seconds` is stored and never enforced).

## 6. Proofs

Checked by `tlapm` for every value of the constants that satisfies the `ASSUME`s
(which TLC evaluates on every run). The assumptions are: the sentinels standing for
Python's `None` are none of the values they are not; `MaxWeight` and
`MaxRetries` are positive; seats are positive integers (the schema's `ge=1`) and thresholds
fractions between 0 and 1, whose product a double rounds up only where it is an integer; validators
are numbered and each request and user has one organisation; the lock's delays are shorter than its leases; finitely many
requests write documents at a time (`WritersAssumption`, which counting those still in a
fan-out needs).

| theorem | says | inductive invariant and why it is needed |
|---|---|---|
| `TypeCorrect` | `TypeOK` | `TypeInv`: also what each waiting request must hold in memory at each point, since its next step reads it |
| `SecretAlwaysHasKey` | `SecretHasKey` | `KeyInv`: secrecy and key agree in every *copy* in flight as well, since any of them may be saved |
| `CountNeverAhead` | `CountBound` | `CountInv`: every copy counts at most the ballots there are now, the ballots are finite, and a request waiting at its insert has not inserted yet, so that its insert makes room for the one it then counts |
| `ResultIsDrawnFromBallots` | `ResultCountsBallots` | `ResultInv`: the ballots a tally holds in memory, and the row a manual tally holds, are stored |
| `ClosedScrutinIsTallied` | `ClosedIsTallied`, of `HSpec`, under no discipline | `ClosedInv`: after the first close every tally in flight, and every row a manual tally holds, has the early ballots in memory, since ballots are never taken away and a tally starts after a close; and whoever is past a close is still to write the result, has written it or died (`Awaited`). A step that neither saves nor tallies closes nothing (`ClosedAwait`) |
| `WeightAlwaysHeld` | `WeightIsHeld` | `WeightInv`: the rows found for a voter are his in memory too; rows keep their holder by the lemma `StepKeeps` |
| `OneDelegationAtATime` | `OneDelegation`, under `VoterSerial` | `DelegationInv`: nobody else is delegating for a granter whose request has passed the check, and he still has no active row |
| `NobodyVotesTwice`, `FrozenOnceVoted`, `ClosedIsFullyCounted`, `LifeCycleIsFollowed` | `OneBallotPerVoter`, `FrozenAfterFirstBallot`, `TallyComplete`, `FollowsLifeCycle`, under `Disciplined` | `OrderInv`. `Alone`: whoever does the greffier's work is alone in flight. `CasterOf`: a cast's copy differs from the scrutin by its counter only, and past its check the voter has no ballot. `BallotsOK`: ballots carry today's key, and the counter is zero only while the casts that inserted one are still on their way to count it, which is why a lost increment does not thaw the terms. `SaverOf`, `TallierOf`: what is about to be saved or tallied is what is stored, changed once. `ResultOK`: a closed scrutin has the result that is due, or somebody is computing it |
| `ScrutinKeepsItsPromise` | `KeepsPromise`: `VoteScrutin` implements `ScrutinPromise`, under `Disciplined` | the same with `KeyInv` and `CountInv`, and a simulation: the insert of a ballot is the abstract vote, a save the abstract operation, the write of a tally the publication, every other step a stutter |
| `NobodyVotesTwiceUnlessRetyped` | `OneBallotPerVoter`, under `Steadfast` (one cast in flight per sénateur, no type change) | `SteadfastInv`: all copies have the terms of the scrutin, stale or not, so every ballot is under today's key and the duplicate check sees it |
| `TallyTypeCorrect` | `TypeOK` of the tally | — |
| `AdoptionIsReached`, `ReachingIsAdoption` | `AdoptedIsReached`, `ReachedIsAdopted` | no induction over the ballots: counts are naturals, and `CeilDivReaches` (a natural reaches the ceiling of a/b exactly when b times it reaches a) turns the rounded comparison into the fraction's. Where a custom product is rounded up it is an integer (`RoundsUpAssumption`), so one POUR beyond the fraction reaches one above it |
| `TallyIsMonotone` | `Monotone` | no invariant but `TypeOK`. With the seats as the base the required count stands still; without a séance it moves with the expressed votes, and `CeilDivReaches` lets the majority be compared as products (`MeetsMonotone`). `RoundsUpAssumption` bounds what rounding adds |
| `AuditTypeCorrect` | `TypeOK` of the chain | `TypeInv` adds `Contiguous` (the sequence numbers are `0..n-1`, so the last row `NextSeq` and `TailHash` speak of exists) and `Counted` (a running emit has a try left) |
| `SingleFork` | `ChainIntact` | `ChainInv`: a draft whose number is still free was read from the present tail, so its `prev` is the present tail's hash. That is why the unique index alone suffices, whatever the lock does |
| `VerifyAccepts` | `NoFalseAlarm` | from `ChainIntact`: in a gapless chain the row before `s` in any window is `s - 1` |
| `EventsRecordedOnce` | `RecordedOnce` | `OnceInv`: distinct rows carry distinct events, and where an emit stands tells whether its event is in the chain (a crashed one may be either) |
| `LossOnlyByContention` | `LossNeedsContention` | `ContentionInv`: an emit's tail has moved by at least its refused inserts since it began |
| `ChainIsALog` | `IsALog`: `AuditChain` implements `AuditLog` | from `OnceInv`: the insert that meets a free number is the instant at which the emit takes effect; an emit that has not inserted is one that has not taken effect |
| `EmitsRunDown` | an emit takes at most `2 * MaxRetries + 2` steps | the variant `Rank` is within that range (`ContentionInv`) and each step of an emit lowers it, whatever the others do. It is the safe half of `EmitEnds`; that a step is enabled and taken is TLC's |
| `LockTypeCorrect` | `TypeOK` of the lock | — |
| `LockExclusive`, `LockOneActiveRow` | `Exclusive`, `OneActiveRow` | `IInv`: that a task may take or insert rests on what it read, which is true only while it is `fresh`. `Unspoiled` says what every fresh reader may count on (the row it found is ACTIVE and past at its own `now`; there is none), and that a holder's lease is the one its row tells |
| `QuorumAlwaysFits`, `ClosedSeanceIsFinal`, `OneRow`, `SpeechIsDecidedOnce`, `SeanceTypeCorrect` | `QuorumWithinSeats`, `ClosedIsFinal`, … | `SeanceInv`: every copy of the séance in flight satisfies the quorum, stale or not, which is why stale saves alone never break it; and what a request that is *not* stale has read is still so at each point where it waits |
| `VersionsAlwaysNumbered` | `VersionsAreNumbered` | `DocInv`: a version about to be inserted is one above the document it was made of, and if that is still the latest nothing in the chain is above it; a copy of a request that is not `behind` agrees with the stored document; a document that an export has not given its chain yet (`ChainIsFree`) shares it with nobody |
| `EachAlwaysHearsOnce` | `EachHearsOnce` | the same: a request about to publish, not `behind`, announces exactly when its save makes the document appear; the recipients still to be served are finite and each `Notify` moves one from one side of the sum to the other |
| `AmendmentRuledOnce`, `PublishedDocumentIsKept`, `DocTypeCorrect` | the rest of `Documents` | from `DocInv` |
| `OneActivePointAlways`, `ActivePointIsKept`, `AgendaTypeCorrect` | the agenda's | `AgendaInv`: an activation that has cleared its siblings and is not `undercut` still finds all of them clear; every other copy in flight that is not undercut has the flag that is stored |
| `ChamberTypeCorrect`, `OneRowEachAlways`, `DecisionsAreFinal`, `NothingInUseIsDeleted` | the properties of `Chamber` that speak of several parts | part by part, from the theorems above: the parts share no variable, so a step of one is a stutter of the others (lemma `PartsByThemselves`, which follows from how `Chamber` is written and says nothing of the code) |
| `ValidationTypeCorrect` | `TypeOK` of the validation | `ShapeInv`: what a worker holds at each call, among it what the handler has found and not yet written; and `LineInv`: a stored parent is stored and of the same organisation, and the walk up from any request ends within the depth, so that the root it reaches is a request |
| `WholePanelApproved`, `RestingRequestIsSettled`, `ClosedRequestIsFinal` | `ApprovedByAll`, `Settled`, `ClosedIsFinal` | `DecisionInv`. `FreshOf`: a request that a worker holds and nobody has overtaken is still open. `CountedOf`: what is about to be saved was counted on all rows, as they still are. `DecidedOf`: nothing of a closed request is still to come, and an open one at rest has the status its rows call for (undecided rows, put off or not, among them), unless `marks` says otherwise |
| `ChainsHangUnderTheirRoot` | `Lineage` | `KeyInv`: a key names the root it hangs under, and a worker whose guard passed still holds a parent under the root of its process; stored parents never change, so roots do not |

So every safety invariant, every action property and every refinement that a passing run checks is
proved for any size of the instance. `Disciplined` and `Steadfast` are not empty: `ScrutinDisciplined` is an
instance of the first, and every passing property of it is the conclusion of a theorem; the runs of
section 7 show that the promises fail without it.

`Root` walks up the parents by a recursive function, and what such a function computes is
usually an induction over data, which the prover cannot do. Here the length of the walk is a
natural, and a set of naturals has a least element (`Least`, from the library's `WFMin` for the
order of the naturals, a theorem without an operator parameter): that the walk exists
(`WalkExists`) and is `Ancestor` (`AncestorIsLine`) follows by looking at the least length at which
it would fail.

Model-checked only: `EmitEnds` and `NeverWedged`, as liveness under fairness and `ENABLED` are beyond the
prover.

## 7. Findings

Each is an entry of `PROJECT.json`. The first five are runs that expect the violation.

* **`ScrutinReopened`** (`FollowsLifeCycle`). A cast loads the scrutin while OUVERT;
  the greffier closes it; the cast's `cfg.save()` (`ballot_service.py:127`), meant for
  the counter, writes OUVERT back. The life cycle "enforced by VoteService"
  (`vote_enum.py:42`) has no CLOS → OUVERT, and the result is already computed.
* **`ScrutinTwoBallots`** (`OneBallotPerVoter`). Two casts of one sénateur both pass the
  duplicate check (`ballot_service.py:68`, `:83`) before either inserts; no index stops the
  second ("Reject duplicate ballots", `ballot_service.py:7`).
* **`ScrutinGranterVotes`** (`OneVoicePerVoter`). A granter is "the sénateur giving up
  their vote" (`vote_proxy_model.py:43`); nothing in `cast` looks at pouvoirs granted, so
  he votes and so does his holder, for him. No concurrency is needed. A pouvoir
  revoked and granted again also weighs in twice, once through each holder.
* **`AuditLoss`** (`FailureDetected`). "Audit failures must NOT block the FSM. Detected by
  /verify/audit_chain" (`vote_service.py:231`): an emit that gave up inserted nothing, so the
  chain is whole without it, and by theorem `VerifyAccepts` the verification accepts
  it. The event is lost in silence.
* **`GroupBulk`** (`BulkAdvances`). validate_all compares `str(r.decision)` with "APPROVED"
  (`static_controller.py:5313`); the decision is an `Enum` member whose `str()` is
  `EMultipleValidationStatus.APPROVED`. So nobody counts as having decided: the first validator, who
  has just approved, is next again ("Advance to next undecided validator", line 5329), a request
  stays open when all have approved, and line 5287 lets a recorded rejection be overwritten.

Five more are shown by the exceptions that properties of passing runs name: the property
holds of everything *else*, and TLC reaches the exception.

* **`QuorumWithinSeats`** of `Chamber`: "required_quorum_count cannot exceed total_seats"
  (`session_schema.py:26`) is checked by a patch only when it names the quorum
  (`session_controller.py:153`); a patch of the seats alone leaves a quorum that cannot be met.
* **`OneActivePoint`** of `Chamber`: "Race condition is benign", "both calls converge to one
  winner" (`agenda_service.py:35`): two activations that both clear before either saves
  leave two active points, for good.
* **`VersionsAreNumbered`** of `Chamber`: "Monotonic int per chain. Latest version has the highest
  number" (`document_meta_model.py:84`): two versions of one parent, even one after the
  other, have the same number.
* **`Exclusive`** of `DistributedLock`: "prevent duplicate processing across multiple instances"
  (`distributed_lock_service.py:13`): two overlapping acquires both answer True, and a release takes
  away whichever row is ACTIVE.
* **`AdoptedIsReached`** of `TallyRules`: "abstention is *not* tacit consent", "so the resolution can't pass"
  (`tests/unit/test_tally_decision.py:215`, tested with 109 seats). Without a séance the base is the
  expressed votes; of an empty base 0 POUR are required (`tally_service.py:46`), so a
  resolution nobody voted for is ADOPTE on abstentions alone, by an absolute majority too.

One more is a restriction the documentation states and the code does not make, so the run includes
what it would forbid:

* **`Settled`** of `GroupValidation`: "Submit an APPROVED or REJECTED decision", "Only the designated
  next_validator_id who has has_validation_access may act" (`validation_requests_endpoint.py:81`). The
  handler compares its caller with nobody (`static_controller.py:4931`) and its schema admits PENDING and IN_PROGRESS: any
  undecided validator acts, in any order. The properties hold all the same.

What the exceptions leave out is what the code does, and no property catches it. History variables or a
discipline of the clients except, in whole or in part: an older tally or manual tally written last and the
crash after a close (`ClosedIsTallied`, `TallyComplete`: `tally_service.py:165`, `vote_controller.py:164`, `:419`);
the crash between a ballot and its count (`ballot_service.py:125`); a double delegation (`OneDelegation`:
`proxy_service.py:32`); two callers in the lock's window and the release of another's row (`spoiled`); overlapping
writes of séance, participants, speeches, points and documents (`stale`, `lost`, `undercut`, `clashed`, `behind`,
`muddled`), a patch of the seats alone (`shrunk`), a version of an older document (`forked`), a fan-out cut
short (`cut`); a second PV after a failed one, which is a chain of its own; and in grouped validation a write on an
overwritten read, a count before all rows are there, a stop before the outcome, a bulk approval and a key moved
unguarded (`marks`). In each case the property says that nothing *but* this breaks the promise.

Also read from the code, without a run of their own: `25 * 0.56` requires 15 of 25 where
the test's rule "ceil(N * threshold)" (`tests/unit/test_tally_decision.py:165`)
gives 14 (constant `RoundsUp`); the manual tally's "we just capture the raw entry so it isn't
lost" (`vote_controller.py:372`) saves nothing of the entry (`ManualSave`); "when acquired, every
concurrent emit waits its turn" (`audit_chain_service.py:20`): none ever waits (`EmitLock`).

## 8. What is not modelled

* Within the modelled components: creation beyond the initial states; titles,
  durations, timestamps; reads (lists, details), which change nothing; authentication and
  roles (who may call); the ballots' choices in `VoteScrutin` (the tally's arithmetic
  is separate); several scrutins on one séance (they share pouvoirs only, and only
  `ProxyService` writes those); the cryptography (Fernet is ideal: only the key opens);
  SHA-256 (injective) and the JSON canonicalisation; a call to MongoDB whose answer is
  lost (the driver retries it; a request whose call fails for good ends there, as in
  `Crash`).
* In the chamber: `DocumentVersion` rows (they repeat the number and are only listed), signed
  URLs, the upload and the rendering of a PV, mark_read (a flag nothing else reads), notifications of other
  events than a publication, lists and queues, which only read; the audit emits of these handlers, which
  are `AuditChain`'s.
* Of grouped validation: who the validators are (access records, groups, mappings between
  organisations) is an input; the record a create has stored before it queues its request,
  and which it does not take back when queueing raises; mails and notifications; the comment, place and time
  stored with a decision; rows without validation access, which no code creates
  (`generic_services.py:1237`). When no undecided validator's account can be read the handler
  answers without saving the request, which `Stop` before the save covers. That
  nothing applies an approved request is a fact of the tree, not of the model.
* The verification sweep (`audit_chain_verification_cron.py`) calls `verify_chain`, which `AuditChain`
  evaluates over every window at every moment, and stores a snapshot nothing reads back;
  the scheduler is a library.
* The platform's websockets (connections per worker, events stored in Redis until read) and its
  delete history (a restore inserts a snapshot, then retires the entry) keep state of their own,
  which no vote, séance or request reads: candidates for models of their own.
* Authentication, middlewares and the generic CRUD decide who may call and move data; they keep
  no state that the protocols above depend on. Seeds, configuration, generated code,
  rendering, uploads and push are out of scope. They are most of the tree's
  lines (`PROJECT.json`, "components").

## 9. Plan

In this order; done first is what carries the votes.

1. *Done.* `VoteScrutin`, its promise, its refinement and proofs; `TallyDecision` and
   proofs; `AuditChain`, `AuditLog`, refinement and proofs.
2. *Done.* `DistributedLock` and proofs; the séance with its presence, quorum and speeches; the
   agenda; the documents with the export's and the fan-out; their composition `Chamber` and
   its proofs; `GroupValidation`.
3. *Done.* The proofs of `GroupValidation`, of the disciplined promises and of both refinements.
   Left to prove: that the theorems about the lock and the chain hold of their composition (4).
4. Models: `AuditChain` with `DistributedLock` in place of its oracle (the theorems say it makes no
   difference to the chain); the rest of the PV export composed with `VoteScrutin`'s result;
   the websockets' deliveries; the restore of the delete history.
