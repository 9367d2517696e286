---------------------------- MODULE VoteScrutin ----------------------------
(***************************************************************************)
(* One scrutin (a VoteConfig document), its ballots, the pouvoirs          *)
(* (proxies) of its séance and its result row, as the vote module handles  *)
(* them: BallotService.cast, VoteService (transitions, change_type_live,   *)
(* patch), ProxyService and TallyService.compute with the manual tally.    *)
(*                                                                         *)
(* The program runs several asynchronous workers on one MongoDB without    *)
(* transactions.  A handler is interrupted at each `await` on the          *)
(* database, so an action stands for the code from one database call to    *)
(* the next.  Between them the handler keeps its own copy of the document  *)
(* it loaded, and Document.save() writes the WHOLE copy back, whatever     *)
(* happened to the stored document meanwhile: `mem' is that copy.          *)
(*                                                                         *)
(* A request that is refused (HTTP 4xx) before it has awaited anything     *)
(* changes nothing; it is a stuttering step.                               *)
(***************************************************************************)
EXTENDS Naturals, FiniteSets

CONSTANTS
  Requests,        \* the HTTP requests of a behaviour; each is served once
  Voters,          \* the sénateurs
  Rules,           \* what ballot_type, majority_type and threshold say
  Ops,             \* the operations the clients ask for in this instance
  Targets,         \* the statuses some transition request may aim at
  MaxWeight,       \* VoteBallotModel.weight le=...
  ChairDiscipline, \* how the greffier's requests are issued: "free", "serial"
                   \* (one at a time), "exclusive" (and nothing else in flight)
  VoterSerial,     \* no sénateur has two casts, or two delegations, in flight
  Crashes,         \* the awaits at which a worker may die
  InitDek,         \* the key sealed when a scrutin is created secret
  NoDek,           \* sealed_dek_b64 = None; on a ballot: stored in clear
  NoDoc, NoUser, NoResult

AllOps == {"cast", "transition", "change", "patch", "assign", "revoke", "manual", "export"}

ASSUME OpsAssumption == Ops \subseteq AllOps
ASSUME MaxWeightAssumption == MaxWeight \in Nat \ {0}
ASSUME DisciplineAssumption ==
  /\ ChairDiscipline \in {"free", "serial", "exclusive"}
  /\ VoterSerial \in BOOLEAN
VARIABLES
  cfg,        \* the stored VoteConfig document
  ballots,    \* the stored VoteBallot rows
  pouvoirs,   \* the stored VoteProxy rows of the séance
  result,     \* the stored VoteResult row, unique per scrutin
  pc,         \* where each request waits
  mem         \* what each request holds in memory while it waits

vars == <<cfg, ballots, pouvoirs, result, pc, mem>>

(***************************************************************************)
(* Documents.                                                              *)
(***************************************************************************)
Statuses == {"PROJET", "OUVERT", "SUSPENDU", "CLOS", "VALIDE", "ANNULE"}

ASSUME TargetsAssumption == Targets \subseteq Statuses

Transitions ==
  [PROJET   |-> {"OUVERT"},
   OUVERT   |-> {"SUSPENDU", "CLOS"},
   SUSPENDU |-> {"OUVERT", "CLOS"},
   CLOS     |-> {"VALIDE", "ANNULE"},
   VALIDE   |-> {},
   ANNULE   |-> {}]

\* A key is named by the request that generated it.
Deks == Requests \union {InitDek, NoDek}

Configs ==
  [status: Statuses, secret: BOOLEAN, dek: Deks, rule: Rules,
   proxies: BOOLEAN, count: Nat]

\* A ballot row is named by the request that inserted it.  `voter' is who the
\* row identifies: in clear when dek = NoDek, else encrypted under dek.
Ballots == [id: Requests, voter: Voters, dek: Deks, proxies: SUBSET Requests]

Pouvoirs == [id: Requests, granter: Voters, holder: Voters, active: BOOLEAN]

\* What a tally is computed from: the majority rule and the ballots read.
Results == [rule: Rules, ballots: SUBSET Requests]

\* The sentinels stand for Python's None and for nothing else.
ASSUME SentinelAssumption ==
  /\ NoDek \notin Requests \union {InitDek}
  /\ InitDek \notin Requests
  /\ NoResult \notin Results

Memory ==
  [user: Voters \union {NoUser},
   doc:  Configs \union {NoDoc},
   rows: SUBSET Requests,
   res:  Results \union {NoResult}]

Blank == [user |-> NoUser, doc |-> NoDoc, rows |-> {}, res |-> NoResult]

CastPCs  == {"check", "proxies", "insert", "count"}
ChairPCs == {"save", "tally", "sum", "find", "write", "manual", "export"}
InFlight == CastPCs \union ChairPCs \union {"assign"}

ASSUME CrashesAssumption == Crashes \subseteq InFlight

TypeOK ==
  /\ cfg \in Configs
  /\ ballots \subseteq Ballots
  /\ pouvoirs \subseteq Pouvoirs
  /\ result \in Results \union {NoResult}
  /\ pc \in [Requests -> InFlight \union {"idle", "done"}]
  /\ mem \in [Requests -> Memory]

Init ==
  /\ \E secret, proxies \in BOOLEAN, rule \in Rules :
       cfg = [status |-> "PROJET", secret |-> secret,
              dek |-> IF secret THEN InitDek ELSE NoDek,
              rule |-> rule, proxies |-> proxies, count |-> 0]
  /\ ballots = {}
  /\ pouvoirs = {}
  /\ result = NoResult
  /\ pc = [r \in Requests |-> "idle"]
  /\ mem = [r \in Requests |-> Blank]

(***************************************************************************)
(* Requests.                                                               *)
(***************************************************************************)
\* The request answers: with its result, with an error, or not at all.
Finish(r) ==
  /\ pc' = [pc EXCEPT ![r] = "done"]
  /\ mem' = [mem EXCEPT ![r] = Blank]

Await(r, label, m) ==
  /\ pc' = [pc EXCEPT ![r] = label]
  /\ mem' = [mem EXCEPT ![r] = m]

\* What the clients refrain from; the code itself admits everything.
NoChairInFlight == \A q \in Requests : pc[q] \notin ChairPCs

NothingInFlight == \A q \in Requests : pc[q] \notin InFlight

VoterMayStart(v) ==
  /\ ChairDiscipline = "exclusive" => NoChairInFlight
  /\ VoterSerial => \A q \in Requests : pc[q] \in CastPCs => mem[q].user # v

ChairMayStart ==
  /\ ChairDiscipline = "serial" => NoChairInFlight
  /\ ChairDiscipline = "exclusive" => NothingInFlight

(***************************************************************************)
(* BallotService.cast.                                                     *)
(***************************************************************************)
CastLoad(r, v) ==
  /\ pc[r] = "idle"
  /\ "cast" \in Ops
  /\ VoterMayStart(v)
  /\ cfg.status = "OUVERT"
  /\ Await(r, "check", [Blank EXCEPT !.user = v, !.doc = cfg])
  /\ UNCHANGED <<cfg, ballots, pouvoirs, result>>

\* The key under which the loaded configuration has the ballot stored.
CastDek(d) == IF d.secret THEN d.dek ELSE NoDek

\* A public scrutin looks for a ballot in clear, a secret one decrypts the
\* encrypted ballots and skips those its key does not open.
AlreadyVotedInClear(d, v) ==   \* variant: encrypted ballots are overlooked
  \E b \in ballots : b.voter = v /\ b.dek = NoDek

AlreadyVoted(d, v) ==
  \E b \in ballots : b.voter = v /\ b.dek = CastDek(d)

CastCheck(r) ==
  /\ pc[r] = "check"
  /\ LET m == mem[r] IN
       IF AlreadyVoted(m.doc, m.user) \/ (m.doc.secret /\ m.doc.dek = NoDek)
       THEN Finish(r)
       ELSE Await(r, IF m.doc.proxies THEN "proxies" ELSE "insert", m)
  /\ UNCHANGED <<cfg, ballots, pouvoirs, result>>

ActiveForGranter(v) == {p \in pouvoirs : p.granter = v /\ p.active}   \* variant

ActiveForHolder(v) == {p \in pouvoirs : p.holder = v /\ p.active}

CastProxies(r) ==
  /\ pc[r] = "proxies"
  /\ LET rows == {p.id : p \in ActiveForHolder(mem[r].user)} IN
       IF Cardinality(rows) + 1 > MaxWeight
       THEN Finish(r)   \* the ballot model's validation error
       ELSE Await(r, "insert", [mem[r] EXCEPT !.rows = rows])
  /\ UNCHANGED <<cfg, ballots, pouvoirs, result>>

CastAnonymousBallot(r) ==   \* variant: a secret ballot forgets its voter
  [id |-> r, voter |-> IF mem[r].doc.secret THEN NoUser ELSE mem[r].user,
   dek |-> CastDek(mem[r].doc), proxies |-> mem[r].rows]

CastBallot(r) ==
  [id |-> r, voter |-> mem[r].user, dek |-> CastDek(mem[r].doc),
   proxies |-> mem[r].rows]

CastInsertWeighted(r) ==   \* variant: the counter adds up weights
  /\ pc[r] = "insert"
  /\ ballots' = ballots \union {CastBallot(r)}
  /\ Await(r, "count", [mem[r] EXCEPT !.doc.count = @ + 1 + Cardinality(mem[r].rows)])
  /\ UNCHANGED <<cfg, pouvoirs, result>>

CastUpsert(r) ==   \* variant: a second ballot replaces the first
  /\ pc[r] = "insert"
  /\ ballots' = {b \in ballots : b.voter # mem[r].user} \union {CastBallot(r)}
  /\ Await(r, "count", [mem[r] EXCEPT !.doc.count = @ + 1])
  /\ UNCHANGED <<cfg, pouvoirs, result>>

CastInsert(r) ==
  /\ pc[r] = "insert"
  /\ ballots' = ballots \union {CastBallot(r)}
  /\ Await(r, "count", [mem[r] EXCEPT !.doc.count = @ + 1])
  /\ UNCHANGED <<cfg, pouvoirs, result>>

CastCount(r) ==
  /\ pc[r] = "count"
  /\ cfg' = mem[r].doc
  /\ Finish(r)
  /\ UNCHANGED <<ballots, pouvoirs, result>>

(***************************************************************************)
(* VoteService: transitions, change_type_live, patch.  Each loads the      *)
(* document, decides on the copy, changes the copy, and saves it.          *)
(***************************************************************************)
TransitionUnchecked(r, target) ==   \* variant: only "already there" is refused
  /\ pc[r] = "idle"
  /\ "transition" \in Ops
  /\ ChairMayStart
  /\ target # cfg.status
  /\ Await(r, "save", [Blank EXCEPT !.doc = [cfg EXCEPT !.status = target]])
  /\ UNCHANGED <<cfg, ballots, pouvoirs, result>>

TransitionLoad(r, target) ==
  /\ pc[r] = "idle"
  /\ "transition" \in Ops
  /\ ChairMayStart
  /\ target \in Transitions[cfg.status]
  /\ Await(r, "save", [Blank EXCEPT !.doc = [cfg EXCEPT !.status = target]])
  /\ UNCHANGED <<cfg, ballots, pouvoirs, result>>

\* Closing a scrutin already CLOS saves nothing but tallies again.
CloseAgain(r) ==
  /\ pc[r] = "idle"
  /\ "transition" \in Ops
  /\ "CLOS" \in Targets
  /\ ChairMayStart
  /\ cfg.status = "CLOS"
  /\ Await(r, "tally", Blank)
  /\ UNCHANGED <<cfg, ballots, pouvoirs, result>>

RetypedKeepingKey(d, r, rule, secret) ==   \* variant: the key is never dropped
  [d EXCEPT !.rule = rule, !.secret = secret,
            !.dek = IF secret /\ ~ d.secret THEN r ELSE @]

\* Turning secrecy on generates a fresh key, turning it off drops the key.
Retyped(d, r, rule, secret) ==
  [d EXCEPT !.rule = rule, !.secret = secret,
            !.dek = CASE secret = d.secret -> d.dek
                      [] secret # d.secret -> IF secret THEN r ELSE NoDek]

ChangeTypeAnytime(r, rule, secret) ==   \* variant: the counter is not consulted
  /\ pc[r] = "idle"
  /\ "change" \in Ops
  /\ ChairMayStart
  /\ cfg.status \in {"PROJET", "OUVERT", "SUSPENDU"}
  /\ Await(r, "save", [Blank EXCEPT !.doc = Retyped(cfg, r, rule, secret)])
  /\ UNCHANGED <<cfg, ballots, pouvoirs, result>>

ChangeTypeLoad(r, rule, secret) ==
  /\ pc[r] = "idle"
  /\ "change" \in Ops
  /\ ChairMayStart
  /\ cfg.count = 0
  /\ cfg.status \in {"PROJET", "OUVERT", "SUSPENDU"}
  /\ Await(r, "save", [Blank EXCEPT !.doc = Retyped(cfg, r, rule, secret)])
  /\ UNCHANGED <<cfg, ballots, pouvoirs, result>>

PatchLoad(r, proxies) ==
  /\ pc[r] = "idle"
  /\ "patch" \in Ops
  /\ ChairMayStart
  /\ cfg.status = "PROJET"
  /\ Await(r, "save", [Blank EXCEPT !.doc = [cfg EXCEPT !.proxies = proxies]])
  /\ UNCHANGED <<cfg, ballots, pouvoirs, result>>

SaveOnly(r) ==   \* variant: closing leaves the tally to somebody else
  /\ pc[r] = "save"
  /\ cfg' = mem[r].doc
  /\ Finish(r)
  /\ UNCHANGED <<ballots, pouvoirs, result>>

\* cfg.save(); the close endpoint then goes on to compute the tally.
Save(r) ==
  /\ pc[r] = "save"
  /\ cfg' = mem[r].doc
  /\ IF mem[r].doc.status = "CLOS" THEN Await(r, "tally", Blank) ELSE Finish(r)
  /\ UNCHANGED <<ballots, pouvoirs, result>>

(***************************************************************************)
(* TallyService.compute and the manual tally.                              *)
(***************************************************************************)
TallyLoadOnlyClosed(r) ==   \* variant: a scrutin that has moved on is not tallied
  /\ pc[r] = "tally"
  /\ IF cfg.status = "CLOS" THEN Await(r, "sum", [Blank EXCEPT !.doc = cfg]) ELSE Finish(r)
  /\ UNCHANGED <<cfg, ballots, pouvoirs, result>>

TallyLoad(r) ==
  /\ pc[r] = "tally"
  /\ Await(r, "sum", [Blank EXCEPT !.doc = cfg])
  /\ UNCHANGED <<cfg, ballots, pouvoirs, result>>

TallySum(r) ==
  /\ pc[r] = "sum"
  /\ Await(r, "find", [mem[r] EXCEPT !.rows = {b.id : b \in ballots}])
  /\ UNCHANGED <<cfg, ballots, pouvoirs, result>>

TallyFind(r) ==
  /\ pc[r] = "find"
  /\ Await(r, "write", [mem[r] EXCEPT !.res = result])
  /\ UNCHANGED <<cfg, ballots, pouvoirs, result>>

\* Overwrites the row it found; else inserts one, which the unique index
\* refuses when a concurrent tally has inserted its own.
TallyWrite(r) ==
  /\ pc[r] = "write"
  /\ result' = IF mem[r].res = NoResult /\ result # NoResult
               THEN result
               ELSE [rule |-> mem[r].doc.rule, ballots |-> mem[r].rows]
  /\ Finish(r)
  /\ UNCHANGED <<cfg, ballots, pouvoirs>>

\* The entered counts go to an undeclared field, which the model refuses and
\* the handler ignores: what is saved is the result row as it was read.
ManualLoad(r) ==
  /\ pc[r] = "idle"
  /\ "manual" \in Ops
  /\ ChairMayStart
  /\ result # NoResult
  /\ Await(r, "manual", [Blank EXCEPT !.res = result])
  /\ UNCHANGED <<cfg, ballots, pouvoirs, result>>

ManualSave(r) ==
  /\ pc[r] = "manual"
  /\ result' = mem[r].res
  /\ Finish(r)
  /\ UNCHANGED <<cfg, ballots, pouvoirs>>

(***************************************************************************)
(* PvExportService.export writes of this state only the tally it computes  *)
(* when the result row is missing.                                         *)
(***************************************************************************)
ExportLoad(r) ==
  /\ pc[r] = "idle"
  /\ "export" \in Ops
  /\ ChairMayStart
  /\ cfg.status \in {"CLOS", "VALIDE", "ANNULE"}
  /\ Await(r, "export", Blank)
  /\ UNCHANGED <<cfg, ballots, pouvoirs, result>>

ExportFind(r) ==
  /\ pc[r] = "export"
  /\ IF result = NoResult THEN Await(r, "tally", Blank) ELSE Finish(r)
  /\ UNCHANGED <<cfg, ballots, pouvoirs, result>>

(***************************************************************************)
(* ProxyService.  Only revoke writes an existing row, and always the same  *)
(* value, so its load and save are one action.                             *)
(***************************************************************************)
GranterMayStart(v) ==
  /\ ChairDiscipline = "exclusive" => NoChairInFlight
  /\ VoterSerial => \A q \in Requests : pc[q] = "assign" => mem[q].user # v

AssignUnchecked(r, granter) ==   \* variant: an active delegation is overlooked
  /\ pc[r] = "idle"
  /\ "assign" \in Ops
  /\ GranterMayStart(granter)
  /\ Await(r, "assign", [Blank EXCEPT !.user = granter])
  /\ UNCHANGED <<cfg, ballots, pouvoirs, result>>

AssignCheck(r, granter) ==
  /\ pc[r] = "idle"
  /\ "assign" \in Ops
  /\ GranterMayStart(granter)
  /\ ~ \E p \in pouvoirs : p.granter = granter /\ p.active
  /\ Await(r, "assign", [Blank EXCEPT !.user = granter])
  /\ UNCHANGED <<cfg, ballots, pouvoirs, result>>

AssignInsert(r, holder) ==
  /\ pc[r] = "assign"
  /\ holder # mem[r].user
  /\ pouvoirs' = pouvoirs \union
       {[id |-> r, granter |-> mem[r].user, holder |-> holder, active |-> TRUE]}
  /\ Finish(r)
  /\ UNCHANGED <<cfg, ballots, result>>

Revoke(r, p) ==
  /\ pc[r] = "idle"
  /\ "revoke" \in Ops
  /\ ChairDiscipline = "exclusive" => NoChairInFlight
  /\ p.active
  /\ pouvoirs' = (pouvoirs \ {p}) \union {[p EXCEPT !.active = FALSE]}
  /\ Finish(r)
  /\ UNCHANGED <<cfg, ballots, result>>

\* A worker is killed (timeout, max_requests, deployment): the request dies
\* where it waits, and what it has not written is lost.
Crash(r) ==
  /\ pc[r] \in Crashes
  /\ Finish(r)
  /\ UNCHANGED <<cfg, ballots, pouvoirs, result>>

Cast(r) ==
  \/ \E v \in Voters : CastLoad(r, v)
  \/ CastCheck(r)
  \/ CastProxies(r)
  \/ CastInsert(r)
  \/ CastCount(r)

Chair(r) ==
  \/ \E target \in Targets : TransitionLoad(r, target)
  \/ CloseAgain(r)
  \/ \E rule \in Rules, secret \in BOOLEAN : ChangeTypeLoad(r, rule, secret)
  \/ \E proxies \in BOOLEAN : PatchLoad(r, proxies)
  \/ Save(r)
  \/ TallyLoad(r)
  \/ TallySum(r)
  \/ TallyFind(r)
  \/ TallyWrite(r)
  \/ ManualLoad(r)
  \/ ManualSave(r)
  \/ ExportLoad(r)
  \/ ExportFind(r)

Proxy(r) ==
  \/ \E granter \in Voters : AssignCheck(r, granter)
  \/ \E holder \in Voters : AssignInsert(r, holder)
  \/ \E p \in pouvoirs : Revoke(r, p)

Next == \E r \in Requests : Cast(r) \/ Chair(r) \/ Proxy(r) \/ Crash(r)

Spec == Init /\ [][Next]_vars

(***************************************************************************)
(* What holds whatever the interleaving, with crashes, as the code stands. *)
(***************************************************************************)
\* ballots_cast_count, incremented on stale copies, may lose ballots but never
\* counts one that is not stored (ballot_service.py:126): a count above zero,
\* which freezes change_type_live, always means a ballot exists.
CountBound == cfg.count <= Cardinality(ballots)

\* However saves overwrite one another, a stored configuration is secret exactly
\* when it carries a key: the "DEK manquante ... état incohérent" refusal of
\* ballot_service.py:78 is never reached.
SecretHasKey == cfg.secret <=> cfg.dek # NoDek

\* A tally, however stale the write, counts stored ballots only, never one that
\* was about to be inserted (tally_service.py:121).
ResultCountsBallots ==
  result # NoResult => result.ballots \subseteq {b.id : b \in ballots}

\* The weight of a ballot comes from distinct proxy rows that really name its
\* voter as holder (ballot_service.py:106): never from somebody else's.
WeightIsHeld ==
  \A b \in ballots : \A i \in b.proxies :
    \E p \in pouvoirs : p.id = i /\ p.holder = b.voter

(***************************************************************************)
(* What the code promises: checked under the discipline that makes it      *)
(* true, and refuted without it (see the README).                          *)
(***************************************************************************)
\* "Reject duplicate ballots (same voter + same vote_config)"
\* (ballot_service.py:7): no sénateur has two ballots on the scrutin.
OneBallotPerVoter ==
  \A b, c \in ballots : b.voter = c.voter => b = c

\* "After even one ballot exists, the type, secrecy, and majority are FROZEN"
\* (vote_service.py:5).
FrozenAfterFirstBallot ==
  [][ballots # {} => /\ cfg'.rule = cfg.rule
                     /\ cfg'.secret = cfg.secret
                     /\ cfg'.dek = cfg.dek]_vars

\* "Allowed transitions (enforced by VoteService)" (vote_enum.py:42): the stored
\* status moves only along them; a scrutin CLOS does not open again.
FollowsLifeCycle ==
  [][cfg'.status # cfg.status => cfg'.status \in Transitions[cfg.status]]_vars

\* Once a scrutin is closed and nothing is in flight, the result row counts
\* every ballot by the rule in force: its headcount is the "number of ballots"
\* (vote_result_model.py:45).
TallyComplete ==
  NothingInFlight /\ cfg.status \in {"CLOS", "VALIDE", "ANNULE"}
    => result = [rule |-> cfg.rule, ballots |-> {b.id : b \in ballots}]

\* "one voter, one delegation" (proxy_service.py:31): at most one active proxy
\* row per granter.
OneDelegation ==
  \A p, q \in pouvoirs :
    p.active /\ q.active /\ p.granter = q.granter => p = q

\* The sénateurs whose voice a ballot carries: its voter and the granters.
Voices(b) == {b.voter} \union {p.granter : p \in {q \in pouvoirs : q.id \in b.proxies}}

\* A granter is "the sénateur giving up their vote" (vote_proxy_model.py:43):
\* no voice weighs in twice on a scrutin, in person or through a holder.
OneVoicePerVoter ==
  /\ \A b \in ballots : Cardinality(Voices(b)) = 1 + Cardinality(b.proxies)
  /\ \A b, c \in ballots : b # c => Voices(b) \cap Voices(c) = {}
=============================================================================
