------------------------- MODULE VoteScrutinProofs -------------------------
(***************************************************************************)
(* What holds of every scrutin, whatever the number of requests, sénateurs *)
(* and rules: first whatever the interleaving and the crashes, where the   *)
(* discipline constants play no part, then what the clients' discipline    *)
(* makes true.                                                             *)
(***************************************************************************)
EXTENDS VoteRefinement, ScrutinHistory, FiniteSetTheorems, TLAPS

(***************************************************************************)
(* Types.  A waiting request holds what the rest of its handler reads.     *)
(***************************************************************************)
Holding == CastPCs \union {"save", "sum", "find", "write"}

Loaded ==
  \A r \in Requests :
    /\ pc[r] \in Holding => mem[r].doc \in Configs
    /\ pc[r] \in CastPCs \union {"assign"} => mem[r].user \in Voters
    /\ pc[r] = "manual" => mem[r].res \in Results

TypeInv == TypeOK /\ Loaded

\* A sealed key is told from the absence of one.
LEMMA FreshKey == \A r \in Requests : r # NoDek /\ InitDek # NoDek
  BY SentinelAssumption

\* change_type_live's copy is a configuration again.
LEMMA RetypedType ==
  ASSUME NEW d \in Configs, NEW r \in Requests, NEW rule \in Rules,
         NEW secret \in BOOLEAN
  PROVE  Retyped(d, r, rule, secret) \in Configs
  BY DEF Retyped, Configs, Deks

LEMMA InitTypeInv == Init => TypeInv
<1> SUFFICES ASSUME Init PROVE TypeInv
  OBVIOUS
<1>1. cfg \in Configs
  BY DEF Init, Configs, Deks, Statuses
<1>2. TypeOK
  BY <1>1 DEF Init, TypeOK, Blank, Memory
<1>3. Loaded
  BY DEF Init, Loaded, Holding, CastPCs
<1> QED  BY <1>2, <1>3 DEF TypeInv

LEMMA NextTypeInv == TypeInv /\ [Next]_vars => TypeInv'
<1> SUFFICES ASSUME TypeInv, [Next]_vars PROVE TypeInv'
  OBVIOUS
<1> USE DEF TypeInv, TypeOK, Loaded, Holding, CastPCs, ChairPCs, InFlight, Memory
<1>1. ASSUME NEW r \in Requests, Finish(r), UNCHANGED <<cfg, ballots, pouvoirs, result>>
      PROVE  TypeInv'
  BY <1>1 DEF Finish, Blank
<1>2. ASSUME NEW r \in Requests, NEW v \in Voters, CastLoad(r, v)
      PROVE  TypeInv'
  BY <1>2 DEF CastLoad, Await, Blank
<1>3. ASSUME NEW r \in Requests, CastCheck(r)
      PROVE  TypeInv'
  BY <1>1, <1>3 DEF CastCheck, Await
<1>4. ASSUME NEW r \in Requests, CastProxies(r)
      PROVE  TypeInv'
  <2> DEFINE rows == {p.id : p \in ActiveForHolder(mem[r].user)}
  <2>1. rows \in SUBSET Requests
    BY DEF ActiveForHolder, Pouvoirs
  <2>2. CASE Finish(r)
    BY <1>1, <1>4, <2>2 DEF CastProxies
  <2>3. CASE Await(r, "insert", [mem[r] EXCEPT !.rows = rows])
    <3> HIDE DEF rows
    <3> QED  BY <1>4, <2>1, <2>3 DEF CastProxies, Await
  <2> QED  BY <1>4, <2>2, <2>3 DEF CastProxies
<1>5. ASSUME NEW r \in Requests, CastInsert(r)
      PROVE  TypeInv'
  <2>1. CastBallot(r) \in Ballots
    <3>1. mem[r].doc \in Configs /\ mem[r] \in Memory /\ mem[r].user \in Voters
      BY <1>5 DEF CastInsert
    <3> HIDE DEF TypeInv, TypeOK, Loaded, Memory
    <3>2. CastDek(mem[r].doc) \in Deks
      BY <3>1 DEF CastDek, Configs, Deks
    <3>3. mem[r].rows \in SUBSET Requests
      BY <3>1 DEF Memory
    <3> QED  BY <3>1, <3>2, <3>3 DEF CastBallot, Ballots
  <2> DEFINE m == [mem[r] EXCEPT !.doc.count = @ + 1]
  <2>2. m \in Memory /\ m.doc \in Configs /\ m.user \in Voters
    BY <1>5 DEF CastInsert, Configs
  <2>3. /\ ballots' = ballots \union {CastBallot(r)}
        /\ Await(r, "count", m)
        /\ UNCHANGED <<cfg, pouvoirs, result>>
    BY <1>5 DEF CastInsert
  <2> HIDE DEF m
  <2> QED  BY <2>1, <2>2, <2>3 DEF Await
<1>6. ASSUME NEW r \in Requests, CastCount(r)
      PROVE  TypeInv'
  BY <1>6 DEF CastCount, Finish, Blank
<1>7. ASSUME NEW r \in Requests, NEW target \in Targets, TransitionLoad(r, target)
      PROVE  TypeInv'
  BY <1>7, TargetsAssumption DEF TransitionLoad, Await, Blank, Configs
<1>8. ASSUME NEW r \in Requests, CloseAgain(r)
      PROVE  TypeInv'
  BY <1>8 DEF CloseAgain, Await, Blank
<1>8a. ASSUME NEW r \in Requests, ExportLoad(r)
       PROVE  TypeInv'
  BY <1>8a DEF ExportLoad, Await, Blank
<1>8b. ASSUME NEW r \in Requests, ExportFind(r)
       PROVE  TypeInv'
  BY <1>1, <1>8b DEF ExportFind, Await, Blank
<1>9. ASSUME NEW r \in Requests, NEW rule \in Rules, NEW secret \in BOOLEAN,
             ChangeTypeLoad(r, rule, secret)
      PROVE  TypeInv'
  BY <1>9, RetypedType DEF ChangeTypeLoad, Await, Blank
<1>10. ASSUME NEW r \in Requests, NEW proxies \in BOOLEAN, PatchLoad(r, proxies)
       PROVE  TypeInv'
  BY <1>10 DEF PatchLoad, Await, Blank, Configs
<1>11. ASSUME NEW r \in Requests, Save(r)
       PROVE  TypeInv'
  BY <1>11 DEF Save, Await, Finish, Blank
<1>12. ASSUME NEW r \in Requests, TallyLoad(r)
       PROVE  TypeInv'
  BY <1>12 DEF TallyLoad, Await, Blank
<1>13. ASSUME NEW r \in Requests, TallySum(r)
       PROVE  TypeInv'
  BY <1>13 DEF TallySum, Await, Ballots
<1>14. ASSUME NEW r \in Requests, TallyFind(r)
       PROVE  TypeInv'
  BY <1>14 DEF TallyFind, Await
<1>15. ASSUME NEW r \in Requests, TallyWrite(r)
       PROVE  TypeInv'
  BY <1>15 DEF TallyWrite, Finish, Blank, Results, Configs
<1>16. ASSUME NEW r \in Requests, ManualLoad(r)
       PROVE  TypeInv'
  BY <1>16 DEF ManualLoad, Await, Blank
<1>17. ASSUME NEW r \in Requests, ManualSave(r)
       PROVE  TypeInv'
  BY <1>17 DEF ManualSave, Finish, Blank
<1>18. ASSUME NEW r \in Requests, NEW granter \in Voters, AssignCheck(r, granter)
       PROVE  TypeInv'
  BY <1>18 DEF AssignCheck, Await, Blank
<1>19. ASSUME NEW r \in Requests, NEW holder \in Voters, AssignInsert(r, holder)
       PROVE  TypeInv'
  <2>1. [id |-> r, granter |-> mem[r].user, holder |-> holder, active |-> TRUE] \in Pouvoirs
    BY <1>19 DEF AssignInsert, Pouvoirs
  <2> QED  BY <1>19, <2>1 DEF AssignInsert, Finish, Blank
<1>20. ASSUME NEW r \in Requests, NEW p \in pouvoirs, Revoke(r, p)
       PROVE  TypeInv'
  BY <1>20 DEF Revoke, Finish, Blank, Pouvoirs
<1>21. ASSUME NEW r \in Requests, Crash(r)
       PROVE  TypeInv'
  BY <1>1, <1>21 DEF Crash
<1>22. ASSUME UNCHANGED vars
       PROVE  TypeInv'
  BY <1>22 DEF vars
<1> QED
  BY <1>2, <1>3, <1>4, <1>5, <1>6, <1>7, <1>8, <1>8a, <1>8b, <1>9, <1>10, <1>11, <1>12, <1>13,
     <1>14, <1>15, <1>16, <1>17, <1>18, <1>19, <1>20, <1>21, <1>22
  DEF Next, Cast, Chair, Proxy

\* Whatever the handlers do to each other, the stored documents stay documents
\* and every waiting request holds the copy the rest of its handler uses.
THEOREM TypeCorrect == Spec => []TypeOK
<1>1. Init => TypeInv
  BY InitTypeInv
<1>2. TypeInv /\ [Next]_vars => TypeInv'
  BY NextTypeInv
<1>3. TypeInv => TypeOK
  BY DEF TypeInv
<1> QED  BY <1>1, <1>2, <1>3, PTL DEF Spec

(***************************************************************************)
(* The key.  A stale copy overwrites secrecy and key together, so the pair *)
(* agrees in every copy as in the stored document.                         *)
(***************************************************************************)
Keyed(d) == d.secret <=> d.dek # NoDek

KeyInv ==
  /\ Keyed(cfg)
  /\ \A r \in Requests : pc[r] \in Holding => Keyed(mem[r].doc)

\* change_type_live changes secrecy and key together.
LEMMA RetypedKeyed ==
  ASSUME NEW d \in Configs, Keyed(d), NEW r \in Requests, NEW rule \in Rules,
         NEW secret \in BOOLEAN
  PROVE  Keyed(Retyped(d, r, rule, secret))
  BY FreshKey DEF Retyped, Keyed, Configs

LEMMA InitKeyInv == Init => KeyInv
<1> SUFFICES ASSUME Init PROVE KeyInv
  OBVIOUS
<1>1. Keyed(cfg)
  <2>1. PICK secret \in BOOLEAN, proxies \in BOOLEAN, rule \in Rules :
          cfg = [status |-> "PROJET", secret |-> secret,
                 dek |-> IF secret THEN InitDek ELSE NoDek,
                 rule |-> rule, proxies |-> proxies, count |-> 0]
    BY DEF Init
  <2>2. cfg.secret = secret /\ cfg.dek = IF secret THEN InitDek ELSE NoDek
    BY <2>1
  <2> QED  BY <2>2, SentinelAssumption DEF Keyed
<1>2. ASSUME NEW r \in Requests PROVE pc[r] \notin Holding
  BY DEF Init, Holding, CastPCs
<1> QED  BY <1>1, <1>2 DEF KeyInv

\* A request that answers holds nothing any more; one that awaits holds its copy.
LEMMA KeyFinish ==
  ASSUME TypeInv, KeyInv, NEW r \in Requests, Finish(r), Keyed(cfg')
  PROVE  KeyInv'
  BY DEF Finish, Blank, KeyInv, Keyed, TypeInv, TypeOK, Holding, CastPCs

LEMMA KeyAwait ==
  ASSUME TypeInv, KeyInv, Keyed(cfg'), NEW r \in Requests, NEW label, NEW m,
         Await(r, label, m), label \in Holding => Keyed(m.doc)
  PROVE  KeyInv'
  BY DEF Await, KeyInv, Keyed, TypeInv, TypeOK

LEMMA NextKeyInv == TypeInv /\ KeyInv /\ [Next]_vars => KeyInv'
<1> SUFFICES ASSUME TypeInv, KeyInv, [Next]_vars PROVE KeyInv'
  OBVIOUS
<1> USE DEF KeyInv
<1>1. ASSUME NEW r \in Requests, Finish(r), UNCHANGED cfg
      PROVE  KeyInv'
  BY <1>1, KeyFinish
<1>2. ASSUME NEW r \in Requests, NEW v \in Voters, CastLoad(r, v)
      PROVE  KeyInv'
  BY <1>2, KeyAwait DEF CastLoad, Blank
<1>3. ASSUME NEW r \in Requests, CastCheck(r)
      PROVE  KeyInv'
  <2>1. pc[r] \in Holding /\ UNCHANGED cfg
    BY <1>3 DEF CastCheck, Holding, CastPCs
  <2> QED  BY <1>1, <1>3, <2>1, KeyAwait DEF CastCheck
<1>4. ASSUME NEW r \in Requests, CastProxies(r)
      PROVE  KeyInv'
  <2>1. pc[r] \in Holding /\ UNCHANGED cfg
    BY <1>4 DEF CastProxies, Holding, CastPCs
  <2>2. mem[r] \in Memory
    BY DEF TypeInv, TypeOK
  <2>3. \A rows : [mem[r] EXCEPT !.rows = rows].doc = mem[r].doc
    BY <2>2 DEF Memory
  <2> QED  BY <1>1, <1>4, <2>1, <2>3, KeyAwait DEF CastProxies
<1>5. ASSUME NEW r \in Requests, CastInsert(r)
      PROVE  KeyInv'
  <2>1. mem[r] \in Memory /\ mem[r].doc \in Configs /\ Keyed(mem[r].doc) /\ UNCHANGED cfg
    BY <1>5 DEF CastInsert, TypeInv, TypeOK, Loaded, Holding, CastPCs
  <2> DEFINE m == [mem[r] EXCEPT !.doc.count = @ + 1]
  <2>2. Keyed(m.doc)
    BY <2>1 DEF Keyed, Memory, Configs
  <2>3. Await(r, "count", m)
    BY <1>5 DEF CastInsert
  <2> HIDE DEF m
  <2> QED  BY <2>1, <2>2, <2>3, KeyAwait
<1>6. ASSUME NEW r \in Requests, CastCount(r)
      PROVE  KeyInv'
  BY <1>6, KeyFinish DEF CastCount, Holding, CastPCs
<1>7. ASSUME NEW r \in Requests, NEW target \in Targets, TransitionLoad(r, target)
      PROVE  KeyInv'
  <2>1. Keyed([cfg EXCEPT !.status = target])
    BY DEF Keyed, TypeInv, TypeOK, Configs
  <2> QED  BY <1>7, <2>1, KeyAwait DEF TransitionLoad, Blank
<1>8. ASSUME NEW r \in Requests, CloseAgain(r)
      PROVE  KeyInv'
  BY <1>8, KeyAwait DEF CloseAgain, Holding, CastPCs
<1>8a. ASSUME NEW r \in Requests, ExportLoad(r)
       PROVE  KeyInv'
  BY <1>8a, KeyAwait DEF ExportLoad, Holding, CastPCs
<1>8b. ASSUME NEW r \in Requests, ExportFind(r)
       PROVE  KeyInv'
  BY <1>8b, KeyFinish, KeyAwait DEF ExportFind, Holding, CastPCs
<1>9. ASSUME NEW r \in Requests, NEW rule \in Rules, NEW secret \in BOOLEAN,
             ChangeTypeLoad(r, rule, secret)
      PROVE  KeyInv'
  <2>1. Keyed(Retyped(cfg, r, rule, secret))
    BY RetypedKeyed DEF TypeInv, TypeOK
  <2> QED  BY <1>9, <2>1, KeyAwait DEF ChangeTypeLoad, Blank
<1>10. ASSUME NEW r \in Requests, NEW proxies \in BOOLEAN, PatchLoad(r, proxies)
       PROVE  KeyInv'
  <2>1. Keyed([cfg EXCEPT !.proxies = proxies])
    BY DEF Keyed, TypeInv, TypeOK, Configs
  <2> QED  BY <1>10, <2>1, KeyAwait DEF PatchLoad, Blank
<1>11. ASSUME NEW r \in Requests, Save(r)
       PROVE  KeyInv'
  BY <1>11, KeyFinish, KeyAwait DEF Save, Holding, CastPCs
<1>12. ASSUME NEW r \in Requests, TallyLoad(r)
       PROVE  KeyInv'
  BY <1>12, KeyAwait DEF TallyLoad, Blank
<1>13. ASSUME NEW r \in Requests, TallySum(r)
       PROVE  KeyInv'
  <2>1. mem[r] \in Memory /\ pc[r] \in Holding /\ UNCHANGED cfg
    BY <1>13 DEF TallySum, TypeInv, TypeOK, Holding
  <2>2. \A rows : [mem[r] EXCEPT !.rows = rows].doc = mem[r].doc
    BY <2>1 DEF Memory
  <2> QED  BY <1>13, <2>1, <2>2, KeyAwait DEF TallySum
<1>14. ASSUME NEW r \in Requests, TallyFind(r)
       PROVE  KeyInv'
  <2>1. mem[r] \in Memory /\ pc[r] \in Holding /\ UNCHANGED cfg
    BY <1>14 DEF TallyFind, TypeInv, TypeOK, Holding
  <2>2. [mem[r] EXCEPT !.res = result].doc = mem[r].doc
    BY <2>1 DEF Memory
  <2> QED  BY <1>14, <2>1, <2>2, KeyAwait DEF TallyFind
<1>15. ASSUME NEW r \in Requests, TallyWrite(r)
       PROVE  KeyInv'
  BY <1>1, <1>15 DEF TallyWrite
<1>16. ASSUME NEW r \in Requests, ManualLoad(r)
       PROVE  KeyInv'
  BY <1>16, KeyAwait DEF ManualLoad, Holding, CastPCs
<1>17. ASSUME NEW r \in Requests, ManualSave(r)
       PROVE  KeyInv'
  BY <1>1, <1>17 DEF ManualSave
<1>18. ASSUME NEW r \in Requests, NEW granter \in Voters, AssignCheck(r, granter)
       PROVE  KeyInv'
  BY <1>18, KeyAwait DEF AssignCheck, Holding, CastPCs
<1>19. ASSUME NEW r \in Requests, NEW holder \in Voters, AssignInsert(r, holder)
       PROVE  KeyInv'
  BY <1>1, <1>19 DEF AssignInsert
<1>20. ASSUME NEW r \in Requests, NEW p \in pouvoirs, Revoke(r, p)
       PROVE  KeyInv'
  BY <1>1, <1>20 DEF Revoke
<1>21. ASSUME NEW r \in Requests, Crash(r)
       PROVE  KeyInv'
  BY <1>1, <1>21 DEF Crash
<1>22. ASSUME UNCHANGED vars
       PROVE  KeyInv'
  BY <1>22 DEF vars, Keyed
<1> QED
  BY <1>2, <1>3, <1>4, <1>5, <1>6, <1>7, <1>8, <1>8a, <1>8b, <1>9, <1>10, <1>11, <1>12, <1>13,
     <1>14, <1>15, <1>16, <1>17, <1>18, <1>19, <1>20, <1>21, <1>22
  DEF Next, Cast, Chair, Proxy

\* The configuration is secret exactly when it carries a key, whatever saves
\* overwrite one another (vote_service.py:160-168): the refusal of
\* ballot_service.py:78 is dead code.
THEOREM SecretAlwaysHasKey == Spec => []SecretHasKey
<1>1. Init => TypeInv /\ KeyInv
  BY InitTypeInv, InitKeyInv
<1>2. TypeInv /\ KeyInv /\ [Next]_vars => (TypeInv /\ KeyInv)'
  BY NextTypeInv, NextKeyInv
<1>3. KeyInv => SecretHasKey
  BY DEF KeyInv, Keyed, SecretHasKey
<1> QED  BY <1>1, <1>2, <1>3, PTL DEF Spec

(***************************************************************************)
(* The counter.  Ballots are only ever added, so a copy that counted at    *)
(* most the ballots stored when it was read does so when it is saved; and  *)
(* a request adds its ballot before its copy counts it.                    *)
(***************************************************************************)
Covered(d) == d.count <= Cardinality(ballots)

CountInv ==
  /\ IsFiniteSet(ballots)
  /\ Covered(cfg)
  /\ \A r \in Requests : pc[r] \in Holding => Covered(mem[r].doc)
  /\ \A b \in ballots : pc[b.id] \in {"count", "done"}

LEMMA InitCountInv == Init => CountInv
<1> SUFFICES ASSUME Init PROVE CountInv
  OBVIOUS
<1>1. ballots = {} /\ cfg.count = 0 /\ \A r \in Requests : pc[r] \notin Holding
  BY DEF Init, Holding, CastPCs
<1>2. IsFiniteSet(ballots) /\ Cardinality(ballots) = 0
  BY <1>1, FS_EmptySet
<1> QED  BY <1>1, <1>2 DEF CountInv, Covered

LEMMA CountFinish ==
  ASSUME TypeInv, CountInv, NEW r \in Requests, Finish(r), UNCHANGED ballots,
         Covered(cfg')
  PROVE  CountInv'
  BY DEF Finish, CountInv, Covered, TypeInv, TypeOK, Holding, CastPCs, Ballots

LEMMA CountAwait ==
  ASSUME TypeInv, CountInv, NEW r \in Requests, NEW label, NEW m,
         Await(r, label, m), UNCHANGED ballots, Covered(cfg'),
         pc[r] \notin {"count", "done"},
         label \in Holding => Covered(m.doc)
  PROVE  CountInv'
  BY DEF Await, CountInv, Covered, TypeInv, TypeOK, Ballots

LEMMA CountInsert ==
  ASSUME TypeInv, CountInv, NEW r \in Requests, CastInsert(r)
  PROVE  CountInv'
<1> DEFINE m == [mem[r] EXCEPT !.doc.count = @ + 1]
<1>1. /\ pc[r] = "insert"
      /\ ballots' = ballots \union {CastBallot(r)}
      /\ Await(r, "count", m)
      /\ UNCHANGED cfg
  BY DEF CastInsert
<1>2. CastBallot(r).id = r /\ CastBallot(r) \notin ballots
  BY <1>1 DEF CastBallot, CountInv
<1>3. IsFiniteSet(ballots') /\ Cardinality(ballots') = Cardinality(ballots) + 1
  BY <1>1, <1>2, FS_AddElement DEF CountInv
<1>4. Cardinality(ballots) \in Nat
  BY FS_CardinalityType DEF CountInv
<1>5. mem[r] \in Memory /\ mem[r].doc \in Configs /\ Covered(mem[r].doc)
  BY <1>1 DEF TypeInv, TypeOK, Loaded, CountInv, Holding, CastPCs
<1>6. m.doc.count <= Cardinality(ballots')
  BY <1>3, <1>4, <1>5 DEF Covered, Memory, Configs
<1> HIDE DEF m
<1>7. cfg.count <= Cardinality(ballots')
  BY <1>3, <1>4 DEF CountInv, Covered, TypeInv, TypeOK, Configs
<1>8. \A q \in Requests : pc[q] \in Holding => mem[q].doc.count <= Cardinality(ballots')
  BY <1>3, <1>4 DEF CountInv, Covered, TypeInv, TypeOK, Loaded, Configs
<1>9. \A q \in Requests : pc'[q] \in Holding => mem'[q].doc.count <= Cardinality(ballots')
  BY <1>1, <1>6, <1>8 DEF Await, TypeInv, TypeOK
<1>10. \A b \in ballots' : pc'[b.id] \in {"count", "done"}
  BY <1>1, <1>2 DEF Await, CountInv, TypeInv, TypeOK, Ballots
<1> QED  BY <1>1, <1>3, <1>7, <1>9, <1>10 DEF CountInv, Covered

LEMMA NextCountInv == TypeInv /\ CountInv /\ [Next]_vars => CountInv'
<1> SUFFICES ASSUME TypeInv, CountInv, [Next]_vars PROVE CountInv'
  OBVIOUS
<1> USE DEF CountInv
<1>1. ASSUME NEW r \in Requests, Finish(r), UNCHANGED <<cfg, ballots>>
      PROVE  CountInv'
  BY <1>1, CountFinish DEF Covered
<1>2. ASSUME NEW r \in Requests, NEW v \in Voters, CastLoad(r, v)
      PROVE  CountInv'
  BY <1>2, CountAwait DEF CastLoad, Blank, Covered
<1>3. ASSUME NEW r \in Requests, CastCheck(r)
      PROVE  CountInv'
  <2>1. pc[r] = "check" /\ pc[r] \in Holding /\ UNCHANGED <<cfg, ballots>> /\ Covered(cfg')
    BY <1>3 DEF CastCheck, Holding, CastPCs, Covered
  <2> QED  BY <1>1, <1>3, <2>1, CountAwait DEF CastCheck
<1>4. ASSUME NEW r \in Requests, CastProxies(r)
      PROVE  CountInv'
  <2>1. /\ pc[r] = "proxies" /\ pc[r] \in Holding /\ UNCHANGED <<cfg, ballots>>
        /\ Covered(cfg')
    BY <1>4 DEF CastProxies, Holding, CastPCs, Covered
  <2>2. mem[r] \in Memory
    BY DEF TypeInv, TypeOK
  <2>3. \A rows : [mem[r] EXCEPT !.rows = rows].doc = mem[r].doc
    BY <2>2 DEF Memory
  <2> QED  BY <1>1, <1>4, <2>1, <2>3, CountAwait DEF CastProxies
<1>5. ASSUME NEW r \in Requests, CastInsert(r)
      PROVE  CountInv'
  BY <1>5, CountInsert
<1>6. ASSUME NEW r \in Requests, CastCount(r)
      PROVE  CountInv'
  BY <1>6, CountFinish DEF CastCount, Holding, CastPCs, Covered
<1>7. ASSUME NEW r \in Requests, NEW target \in Targets, TransitionLoad(r, target)
      PROVE  CountInv'
  <2>1. Covered([cfg EXCEPT !.status = target])
    BY DEF Covered, TypeInv, TypeOK, Configs
  <2> QED  BY <1>7, <2>1, CountAwait DEF TransitionLoad, Blank, Covered
<1>8. ASSUME NEW r \in Requests, CloseAgain(r)
      PROVE  CountInv'
  BY <1>8, CountAwait DEF CloseAgain, Holding, CastPCs, Covered
<1>8a. ASSUME NEW r \in Requests, ExportLoad(r)
       PROVE  CountInv'
  BY <1>8a, CountAwait DEF ExportLoad, Holding, CastPCs, Covered
<1>8b. ASSUME NEW r \in Requests, ExportFind(r)
       PROVE  CountInv'
  BY <1>8b, CountFinish, CountAwait DEF ExportFind, Holding, CastPCs, Covered
<1>9. ASSUME NEW r \in Requests, NEW rule \in Rules, NEW secret \in BOOLEAN,
             ChangeTypeLoad(r, rule, secret)
      PROVE  CountInv'
  <2>1. Covered(Retyped(cfg, r, rule, secret))
    BY DEF Retyped, Covered, TypeInv, TypeOK, Configs
  <2> QED  BY <1>9, <2>1, CountAwait DEF ChangeTypeLoad, Blank, Covered
<1>10. ASSUME NEW r \in Requests, NEW proxies \in BOOLEAN, PatchLoad(r, proxies)
       PROVE  CountInv'
  <2>1. Covered([cfg EXCEPT !.proxies = proxies])
    BY DEF Covered, TypeInv, TypeOK, Configs
  <2> QED  BY <1>10, <2>1, CountAwait DEF PatchLoad, Blank, Covered
<1>11. ASSUME NEW r \in Requests, Save(r)
       PROVE  CountInv'
  <2>1. /\ pc[r] = "save" /\ UNCHANGED ballots /\ Covered(cfg')
    BY <1>11 DEF Save, Holding, Covered
  <2> QED  BY <1>11, <2>1, CountFinish, CountAwait DEF Save, Holding, CastPCs
<1>12. ASSUME NEW r \in Requests, TallyLoad(r)
       PROVE  CountInv'
  BY <1>12, CountAwait DEF TallyLoad, Blank, Covered
<1>13. ASSUME NEW r \in Requests, TallySum(r)
       PROVE  CountInv'
  <2>1. /\ mem[r] \in Memory /\ pc[r] = "sum" /\ pc[r] \in Holding
        /\ UNCHANGED <<cfg, ballots>> /\ Covered(cfg')
    BY <1>13 DEF TallySum, TypeInv, TypeOK, Holding, Covered
  <2>2. \A rows : [mem[r] EXCEPT !.rows = rows].doc = mem[r].doc
    BY <2>1 DEF Memory
  <2> QED  BY <1>13, <2>1, <2>2, CountAwait DEF TallySum
<1>14. ASSUME NEW r \in Requests, TallyFind(r)
       PROVE  CountInv'
  <2>1. /\ mem[r] \in Memory /\ pc[r] = "find" /\ pc[r] \in Holding
        /\ UNCHANGED <<cfg, ballots>> /\ Covered(cfg')
    BY <1>14 DEF TallyFind, TypeInv, TypeOK, Holding, Covered
  <2>2. [mem[r] EXCEPT !.res = result].doc = mem[r].doc
    BY <2>1 DEF Memory
  <2> QED  BY <1>14, <2>1, <2>2, CountAwait DEF TallyFind
<1>15. ASSUME NEW r \in Requests, TallyWrite(r)
       PROVE  CountInv'
  BY <1>1, <1>15 DEF TallyWrite
<1>16. ASSUME NEW r \in Requests, ManualLoad(r)
       PROVE  CountInv'
  BY <1>16, CountAwait DEF ManualLoad, Holding, CastPCs, Covered
<1>17. ASSUME NEW r \in Requests, ManualSave(r)
       PROVE  CountInv'
  BY <1>1, <1>17 DEF ManualSave
<1>18. ASSUME NEW r \in Requests, NEW granter \in Voters, AssignCheck(r, granter)
       PROVE  CountInv'
  BY <1>18, CountAwait DEF AssignCheck, Holding, CastPCs, Covered
<1>19. ASSUME NEW r \in Requests, NEW holder \in Voters, AssignInsert(r, holder)
       PROVE  CountInv'
  BY <1>1, <1>19 DEF AssignInsert
<1>20. ASSUME NEW r \in Requests, NEW p \in pouvoirs, Revoke(r, p)
       PROVE  CountInv'
  BY <1>1, <1>20 DEF Revoke
<1>21. ASSUME NEW r \in Requests, Crash(r)
       PROVE  CountInv'
  BY <1>1, <1>21 DEF Crash
<1>22. ASSUME UNCHANGED vars
       PROVE  CountInv'
  BY <1>22 DEF vars, Covered
<1> QED
  BY <1>2, <1>3, <1>4, <1>5, <1>6, <1>7, <1>8, <1>8a, <1>8b, <1>9, <1>10, <1>11, <1>12, <1>13,
     <1>14, <1>15, <1>16, <1>17, <1>18, <1>19, <1>20, <1>21, <1>22
  DEF Next, Cast, Chair, Proxy

\* The stored counter never exceeds the ballots stored (ballot_service.py:125-127):
\* a count above zero, which freezes change_type_live, means a ballot exists.
THEOREM CountNeverAhead == Spec => []CountBound
<1>1. Init => TypeInv /\ CountInv
  BY InitTypeInv, InitCountInv
<1>2. TypeInv /\ CountInv /\ [Next]_vars => (TypeInv /\ CountInv)'
  BY NextTypeInv, NextCountInv
<1>3. CountInv => CountBound
  BY DEF CountInv, Covered, CountBound
<1> QED  BY <1>1, <1>2, <1>3, PTL DEF Spec

(***************************************************************************)
(* The result.  A tally holds the ballots it read, which stay stored, and  *)
(* a manual tally holds a result that was written.                         *)
(***************************************************************************)
ResultInv ==
  /\ result # NoResult => result.ballots \subseteq Ids
  /\ \A r \in Requests :
       /\ pc[r] \in {"find", "write"} => mem[r].rows \subseteq Ids
       /\ pc[r] = "manual" => mem[r].res.ballots \subseteq Ids

\* Steps that write no result and tally nothing.
LEMMA ResultFinish ==
  ASSUME TypeInv, ResultInv, NEW r \in Requests, Finish(r), UNCHANGED result,
         ballots \subseteq ballots'
  PROVE  ResultInv'
  BY DEF Finish, ResultInv, Ids, TypeInv, TypeOK

LEMMA ResultAwait ==
  ASSUME TypeInv, ResultInv, NEW r \in Requests, NEW label, NEW m,
         Await(r, label, m), UNCHANGED result, ballots \subseteq ballots',
         label \in {"find", "write"} => m.rows \subseteq Ids,
         label = "manual" => m.res.ballots \subseteq Ids
  PROVE  ResultInv'
  BY DEF Await, ResultInv, Ids, TypeInv, TypeOK

LEMMA NextResultInv == TypeInv /\ ResultInv /\ [Next]_vars => ResultInv'
<1> SUFFICES ASSUME TypeInv, ResultInv, [Next]_vars PROVE ResultInv'
  OBVIOUS
<1>1. ASSUME NEW r \in Requests, NEW v \in Voters, CastLoad(r, v)
      PROVE  ResultInv'
  BY <1>1, ResultAwait DEF CastLoad
<1>2. ASSUME NEW r \in Requests, CastCheck(r)
      PROVE  ResultInv'
  BY <1>2, ResultFinish, ResultAwait DEF CastCheck
<1>3. ASSUME NEW r \in Requests, CastProxies(r)
      PROVE  ResultInv'
  BY <1>3, ResultFinish, ResultAwait DEF CastProxies
<1>4. ASSUME NEW r \in Requests, CastInsert(r)
      PROVE  ResultInv'
  BY <1>4, ResultAwait DEF CastInsert
<1>5. ASSUME NEW r \in Requests, CastCount(r)
      PROVE  ResultInv'
  BY <1>5, ResultFinish DEF CastCount
<1>6. ASSUME NEW r \in Requests, NEW target \in Targets, TransitionLoad(r, target)
      PROVE  ResultInv'
  BY <1>6, ResultAwait DEF TransitionLoad
<1>7. ASSUME NEW r \in Requests, CloseAgain(r)
      PROVE  ResultInv'
  BY <1>7, ResultAwait DEF CloseAgain
<1>7a. ASSUME NEW r \in Requests, ExportLoad(r)
       PROVE  ResultInv'
  BY <1>7a, ResultAwait DEF ExportLoad
<1>7b. ASSUME NEW r \in Requests, ExportFind(r)
       PROVE  ResultInv'
  BY <1>7b, ResultFinish, ResultAwait DEF ExportFind
<1>8. ASSUME NEW r \in Requests, NEW rule \in Rules, NEW secret \in BOOLEAN,
             ChangeTypeLoad(r, rule, secret)
      PROVE  ResultInv'
  BY <1>8, ResultAwait DEF ChangeTypeLoad
<1>9. ASSUME NEW r \in Requests, NEW proxies \in BOOLEAN, PatchLoad(r, proxies)
      PROVE  ResultInv'
  BY <1>9, ResultAwait DEF PatchLoad
<1>10. ASSUME NEW r \in Requests, Save(r)
       PROVE  ResultInv'
  BY <1>10, ResultFinish, ResultAwait DEF Save
<1>11. ASSUME NEW r \in Requests, TallyLoad(r)
       PROVE  ResultInv'
  BY <1>11, ResultAwait DEF TallyLoad
<1>12. ASSUME NEW r \in Requests, TallySum(r)
       PROVE  ResultInv'
  <2> DEFINE m == [mem[r] EXCEPT !.rows = {b.id : b \in ballots}]
  <2>1. m.rows = Ids
    BY DEF Ids, TypeInv, TypeOK, Memory
  <2>2. Await(r, "find", m) /\ UNCHANGED <<result, ballots>>
    BY <1>12 DEF TallySum
  <2> HIDE DEF m
  <2> QED  BY <2>1, <2>2, ResultAwait
<1>13. ASSUME NEW r \in Requests, TallyFind(r)
       PROVE  ResultInv'
  <2> DEFINE m == [mem[r] EXCEPT !.res = result]
  <2>1. m.rows = mem[r].rows
    BY DEF TypeInv, TypeOK, Memory
  <2>2. Await(r, "write", m) /\ UNCHANGED <<result, ballots>> /\ pc[r] = "find"
    BY <1>13 DEF TallyFind
  <2> HIDE DEF m
  <2> QED  BY <2>1, <2>2, ResultAwait DEF ResultInv
<1>14. ASSUME NEW r \in Requests, TallyWrite(r)
       PROVE  ResultInv'
  BY <1>14 DEF TallyWrite, Finish, ResultInv, Ids, TypeInv, TypeOK
<1>15. ASSUME NEW r \in Requests, ManualLoad(r)
       PROVE  ResultInv'
  BY <1>15, ResultAwait DEF ManualLoad, Blank, ResultInv
<1>16. ASSUME NEW r \in Requests, ManualSave(r)
       PROVE  ResultInv'
  BY <1>16 DEF ManualSave, Finish, ResultInv, Ids, TypeInv, TypeOK
<1>17. ASSUME NEW r \in Requests, NEW granter \in Voters, AssignCheck(r, granter)
       PROVE  ResultInv'
  BY <1>17, ResultAwait DEF AssignCheck
<1>18. ASSUME NEW r \in Requests, NEW holder \in Voters, AssignInsert(r, holder)
       PROVE  ResultInv'
  BY <1>18, ResultFinish DEF AssignInsert
<1>19. ASSUME NEW r \in Requests, NEW p \in pouvoirs, Revoke(r, p)
       PROVE  ResultInv'
  BY <1>19, ResultFinish DEF Revoke
<1>20. ASSUME NEW r \in Requests, Crash(r)
       PROVE  ResultInv'
  BY <1>20, ResultFinish DEF Crash
<1>21. ASSUME UNCHANGED vars
       PROVE  ResultInv'
  BY <1>21 DEF vars, ResultInv, Ids
<1> QED
  BY <1>1, <1>2, <1>3, <1>4, <1>5, <1>6, <1>7, <1>7a, <1>7b, <1>8, <1>9, <1>10, <1>11, <1>12,
     <1>13, <1>14, <1>15, <1>16, <1>17, <1>18, <1>19, <1>20, <1>21
  DEF Next, Cast, Chair, Proxy

\* However stale a tally is when it is written, and whatever it overwrites, the
\* result row counts stored ballots only (tally_service.py:121-192).
THEOREM ResultIsDrawnFromBallots == Spec => []ResultCountsBallots
<1>1. Init => TypeInv /\ ResultInv
  BY InitTypeInv DEF Init, ResultInv
<1>2. TypeInv /\ ResultInv /\ [Next]_vars => (TypeInv /\ ResultInv)'
  BY NextTypeInv, NextResultInv
<1>3. ResultInv => ResultCountsBallots
  BY DEF ResultInv, ResultCountsBallots, Ids
<1> QED  BY <1>1, <1>2, <1>3, PTL DEF Spec

(***************************************************************************)
(* What a step may never do to the rows: a ballot stays, a proxy row keeps *)
(* its parties, and the result row is rewritten but never removed.         *)
(***************************************************************************)
Kept ==
  /\ ballots \subseteq ballots'
  /\ \A p \in pouvoirs : \E q \in pouvoirs' :
       /\ q.id = p.id /\ q.granter = p.granter /\ q.holder = p.holder
       /\ q.active => p.active
  /\ result # NoResult => result' # NoResult

LEMMA StepKeeps == TypeInv /\ [Next]_vars => Kept
<1> SUFFICES ASSUME TypeInv, [Next]_vars PROVE Kept
  OBVIOUS
<1>1. ASSUME NEW r \in Requests, NEW p \in pouvoirs, Revoke(r, p)
      PROVE  Kept
  <2>1. [p EXCEPT !.active = FALSE] \in pouvoirs'
    BY <1>1 DEF Revoke
  <2>2. ASSUME NEW q \in pouvoirs, q # p PROVE q \in pouvoirs'
    BY <1>1, <2>2 DEF Revoke
  <2>3. p \in Pouvoirs
    BY DEF TypeInv, TypeOK
  <2> QED  BY <1>1, <2>1, <2>2, <2>3 DEF Revoke, Kept, Pouvoirs
<1>2. ASSUME NEW r \in Requests, TallyWrite(r)
      PROVE  Kept
  <2>1. [rule |-> mem[r].doc.rule, ballots |-> mem[r].rows] \in Results
    BY <1>2 DEF TallyWrite, TypeInv, TypeOK, Loaded, Holding, Memory, Results, Configs
  <2> QED  BY <1>2, <2>1, SentinelAssumption DEF TallyWrite, Kept
<1>3. ASSUME NEW r \in Requests, ManualSave(r)
      PROVE  Kept
  BY <1>3, SentinelAssumption DEF ManualSave, Kept, TypeInv, Loaded
<1>4. ASSUME NEW r \in Requests, NEW holder \in Voters, AssignInsert(r, holder)
      PROVE  Kept
  BY <1>4 DEF AssignInsert, Kept
<1>5. ASSUME NEW r \in Requests, CastInsert(r)
      PROVE  Kept
  BY <1>5 DEF CastInsert, Kept
<1>6. ASSUME UNCHANGED <<ballots, pouvoirs, result>>
      PROVE  Kept
  BY <1>6 DEF Kept
<1> QED
  BY <1>1, <1>2, <1>3, <1>4, <1>5, <1>6
  DEF Next, Cast, Chair, Proxy, vars, CastLoad, CastCheck, CastProxies, CastCount,
      TransitionLoad, CloseAgain, ChangeTypeLoad, PatchLoad, Save, TallyLoad,
      TallySum, TallyFind, ManualLoad, ExportLoad, ExportFind, AssignCheck, Crash

(***************************************************************************)
(* The weight.  Proxy rows keep their holder, so rows that were found for  *)
(* a voter stay his, in a request's memory and on its ballot.              *)
(***************************************************************************)
HeldIn(P, v, rows) == \A i \in rows : \E p \in P : p.id = i /\ p.holder = v

WeightInv ==
  /\ \A b \in ballots : HeldIn(pouvoirs, b.voter, b.proxies)
  /\ \A r \in Requests :
       /\ pc[r] \in {"check", "proxies"} => mem[r].rows = {}
       /\ pc[r] = "insert" => HeldIn(pouvoirs, mem[r].user, mem[r].rows)

\* What is held stays held.
LEMMA HeldStays ==
  ASSUME TypeInv, [Next]_vars
  PROVE  \A v, rows : HeldIn(pouvoirs, v, rows) => HeldIn(pouvoirs', v, rows)
<1>1. \A p \in pouvoirs : \E q \in pouvoirs' : q.id = p.id /\ q.holder = p.holder
  BY StepKeeps DEF Kept
<1> QED  BY <1>1 DEF HeldIn

LEMMA WeightFinish ==
  ASSUME TypeInv, WeightInv, [Next]_vars, NEW r \in Requests, Finish(r), UNCHANGED ballots
  PROVE  WeightInv'
<1>1. \A b \in ballots : HeldIn(pouvoirs', b.voter, b.proxies)
  BY HeldStays DEF WeightInv
<1>2. \A q \in Requests : pc[q] = "insert" => HeldIn(pouvoirs', mem[q].user, mem[q].rows)
  BY HeldStays DEF WeightInv
<1> QED  BY <1>1, <1>2 DEF WeightInv, Finish, TypeInv, TypeOK

LEMMA WeightAwait ==
  ASSUME TypeInv, WeightInv, [Next]_vars, NEW r \in Requests, NEW label, NEW m,
         Await(r, label, m), UNCHANGED ballots,
         label \in {"check", "proxies"} => m.rows = {},
         label = "insert" => HeldIn(pouvoirs', m.user, m.rows)
  PROVE  WeightInv'
<1>1. \A b \in ballots : HeldIn(pouvoirs', b.voter, b.proxies)
  BY HeldStays DEF WeightInv
<1>2. \A q \in Requests : pc[q] = "insert" => HeldIn(pouvoirs', mem[q].user, mem[q].rows)
  BY HeldStays DEF WeightInv
<1> QED  BY <1>1, <1>2 DEF WeightInv, Await, TypeInv, TypeOK

LEMMA NextWeightInv == TypeInv /\ WeightInv /\ [Next]_vars => WeightInv'
<1> SUFFICES ASSUME TypeInv, WeightInv, [Next]_vars PROVE WeightInv'
  OBVIOUS
<1>1. ASSUME NEW r \in Requests, NEW v \in Voters, CastLoad(r, v)
      PROVE  WeightInv'
  <2>1. [Blank EXCEPT !.user = v, !.doc = cfg].rows = {}
    BY DEF Blank
  <2> QED  BY <1>1, <2>1, WeightAwait DEF CastLoad
<1>2. ASSUME NEW r \in Requests, CastCheck(r)
      PROVE  WeightInv'
  <2>1. pc[r] = "check" /\ UNCHANGED <<ballots, pouvoirs>> /\ mem[r].rows = {}
    BY <1>2 DEF CastCheck, WeightInv
  <2>2. HeldIn(pouvoirs', mem[r].user, mem[r].rows)
    BY <2>1 DEF HeldIn
  <2> QED  BY <1>2, <2>1, <2>2, WeightFinish, WeightAwait DEF CastCheck
<1>3. ASSUME NEW r \in Requests, CastProxies(r)
      PROVE  WeightInv'
  <2> DEFINE rows == {p.id : p \in ActiveForHolder(mem[r].user)}
             m == [mem[r] EXCEPT !.rows = rows]
  <2>1. m.user = mem[r].user /\ m.rows = rows
    BY DEF TypeInv, TypeOK, Memory
  <2>2. HeldIn(pouvoirs, mem[r].user, rows)
    BY DEF HeldIn, ActiveForHolder
  <2>3. (Finish(r) \/ Await(r, "insert", m)) /\ UNCHANGED <<ballots, pouvoirs>>
    BY <1>3 DEF CastProxies
  <2> HIDE DEF m, rows
  <2> QED  BY <2>1, <2>2, <2>3, WeightFinish, WeightAwait
<1>4. ASSUME NEW r \in Requests, CastInsert(r)
      PROVE  WeightInv'
  <2> DEFINE m == [mem[r] EXCEPT !.doc.count = @ + 1]
  <2>1. /\ Await(r, "count", m) /\ UNCHANGED pouvoirs /\ pc[r] = "insert"
        /\ ballots' = ballots \union {CastBallot(r)}
    BY <1>4 DEF CastInsert
  <2>2. HeldIn(pouvoirs, CastBallot(r).voter, CastBallot(r).proxies)
    BY <2>1 DEF CastBallot, WeightInv
  <2> HIDE DEF m
  <2> QED  BY <2>1, <2>2 DEF WeightInv, Await, TypeInv, TypeOK
<1>5. ASSUME NEW r \in Requests, CastCount(r)
      PROVE  WeightInv'
  BY <1>5, WeightFinish DEF CastCount
<1>6. ASSUME NEW r \in Requests, NEW target \in Targets, TransitionLoad(r, target)
      PROVE  WeightInv'
  BY <1>6, WeightAwait DEF TransitionLoad
<1>7. ASSUME NEW r \in Requests, CloseAgain(r)
      PROVE  WeightInv'
  BY <1>7, WeightAwait DEF CloseAgain
<1>7a. ASSUME NEW r \in Requests, ExportLoad(r)
       PROVE  WeightInv'
  BY <1>7a, WeightAwait DEF ExportLoad
<1>7b. ASSUME NEW r \in Requests, ExportFind(r)
       PROVE  WeightInv'
  BY <1>7b, WeightFinish, WeightAwait DEF ExportFind
<1>8. ASSUME NEW r \in Requests, NEW rule \in Rules, NEW secret \in BOOLEAN,
             ChangeTypeLoad(r, rule, secret)
      PROVE  WeightInv'
  BY <1>8, WeightAwait DEF ChangeTypeLoad
<1>9. ASSUME NEW r \in Requests, NEW proxies \in BOOLEAN, PatchLoad(r, proxies)
      PROVE  WeightInv'
  BY <1>9, WeightAwait DEF PatchLoad
<1>10. ASSUME NEW r \in Requests, Save(r)
       PROVE  WeightInv'
  BY <1>10, WeightFinish, WeightAwait DEF Save
<1>11. ASSUME NEW r \in Requests, TallyLoad(r)
       PROVE  WeightInv'
  BY <1>11, WeightAwait DEF TallyLoad
<1>12. ASSUME NEW r \in Requests, TallySum(r)
       PROVE  WeightInv'
  BY <1>12, WeightAwait DEF TallySum
<1>13. ASSUME NEW r \in Requests, TallyFind(r)
       PROVE  WeightInv'
  BY <1>13, WeightAwait DEF TallyFind
<1>14. ASSUME NEW r \in Requests, TallyWrite(r)
       PROVE  WeightInv'
  BY <1>14, WeightFinish DEF TallyWrite
<1>15. ASSUME NEW r \in Requests, ManualLoad(r)
       PROVE  WeightInv'
  BY <1>15, WeightAwait DEF ManualLoad
<1>16. ASSUME NEW r \in Requests, ManualSave(r)
       PROVE  WeightInv'
  BY <1>16, WeightFinish DEF ManualSave
<1>17. ASSUME NEW r \in Requests, NEW granter \in Voters, AssignCheck(r, granter)
       PROVE  WeightInv'
  BY <1>17, WeightAwait DEF AssignCheck
<1>18. ASSUME NEW r \in Requests, NEW holder \in Voters, AssignInsert(r, holder)
       PROVE  WeightInv'
  BY <1>18, WeightFinish DEF AssignInsert
<1>19. ASSUME NEW r \in Requests, NEW p \in pouvoirs, Revoke(r, p)
       PROVE  WeightInv'
  BY <1>19, WeightFinish DEF Revoke
<1>20. ASSUME NEW r \in Requests, Crash(r)
       PROVE  WeightInv'
  BY <1>20, WeightFinish DEF Crash
<1>21. ASSUME UNCHANGED vars
       PROVE  WeightInv'
  BY <1>21 DEF vars, WeightInv
<1> QED
  BY <1>1, <1>2, <1>3, <1>4, <1>5, <1>6, <1>7, <1>7a, <1>7b, <1>8, <1>9, <1>10, <1>11, <1>12,
     <1>13, <1>14, <1>15, <1>16, <1>17, <1>18, <1>19, <1>20, <1>21
  DEF Next, Cast, Chair, Proxy

\* A ballot weighs in the voices of its own voter's pouvoirs and of nobody
\* else's (ballot_service.py:102-108), even when they are revoked meanwhile.
THEOREM WeightAlwaysHeld == Spec => []WeightIsHeld
<1>1. Init => TypeInv /\ WeightInv
  BY InitTypeInv DEF Init, WeightInv
<1>2. TypeInv /\ WeightInv /\ [Next]_vars => (TypeInv /\ WeightInv)'
  BY NextTypeInv, NextWeightInv
<1>3. WeightInv => WeightIsHeld
  BY DEF WeightInv, WeightIsHeld, HeldIn
<1> QED  BY <1>1, <1>2, <1>3, PTL DEF Spec

(***************************************************************************)
(* The closed scrutin and its result.  The first save of CLOS notes the    *)
(* ballots that are in; every tally reads the ballots after it, a manual   *)
(* tally copies a result written after it, and nothing but a tally's write *)
(* or its death ends a tally.                                              *)
(***************************************************************************)
AfterClose == TallyPCs \union {"manual", "export"}

Awaited == result # NoResult \/ (\E r \in Requests : pc[r] \in TallyPCs) \/ cut

\* What a waiting request may save or write.
HolderOf(r) ==
  /\ pc[r] \in CastPCs => mem[r].doc.status = "OUVERT"
  /\ pc[r] = "save" /\ mem[r].doc.status \in {"VALIDE", "ANNULE"} => shut
  /\ pc[r] \in AfterClose => shut
  /\ pc[r] \in {"find", "write"} => early \subseteq mem[r].rows
  /\ pc[r] = "manual" => early \subseteq mem[r].res.ballots

ClosedInv ==
  /\ shut \in BOOLEAN
  /\ early \subseteq Ids
  /\ cfg.status \in Closed => shut
  /\ shut => Awaited
  /\ result # NoResult => shut /\ early \subseteq result.ballots
  /\ \A r \in Requests : HolderOf(r)

\* A step that leaves the configuration and the result alone, and does not end
\* a tally, closes nothing.
LEMMA ClosedAwait ==
  ASSUME TypeInv, ClosedInv, NoteClose, NEW r \in Requests, NEW label, NEW m,
         Await(r, label, m), UNCHANGED <<cfg, result, cut>>, ballots \subseteq ballots',
         pc[r] \in TallyPCs => label \in TallyPCs,
         label \in CastPCs => m.doc.status = "OUVERT",
         label = "save" /\ m.doc.status \in {"VALIDE", "ANNULE"} => shut,
         label \in AfterClose => shut,
         label \in {"find", "write"} => early \subseteq m.rows,
         label = "manual" => early \subseteq m.res.ballots
  PROVE  ClosedInv'
<1>1. shut' = shut /\ early' = early
  BY DEF NoteClose, ClosedInv, Closed
<1>2. early' \subseteq Ids'
  BY <1>1 DEF ClosedInv, Ids
<1>3. /\ pc'[r] = label /\ mem'[r] = m
      /\ \A q \in Requests : q # r => pc'[q] = pc[q] /\ mem'[q] = mem[q]
  BY DEF Await, TypeInv, TypeOK
<1>4. shut' => Awaited'
  BY <1>1, <1>3 DEF ClosedInv, Awaited
<1>5. ASSUME NEW q \in Requests PROVE HolderOf(q)'
  BY <1>1, <1>3 DEF ClosedInv, HolderOf
<1> QED  BY <1>1, <1>2, <1>4, <1>5 DEF ClosedInv

LEMMA ClosedFinish ==
  ASSUME TypeInv, ClosedInv, NoteClose, NEW r \in Requests, Finish(r),
         UNCHANGED <<cfg, result, cut>>, ballots \subseteq ballots',
         pc[r] \notin TallyPCs
  PROVE  ClosedInv'
  BY ClosedAwait DEF Finish, Await, AfterClose, TallyPCs, CastPCs

\* The greffier's requests that save: a transition aims at VALIDE or ANNULE only
\* from CLOS, the others keep a status that is not closed.
LEMMA ClosedSave ==
  ASSUME TypeInv, ClosedInv, [Next]_vars, NoteClose, NEW r \in Requests, Save(r), UNCHANGED cut
  PROVE  ClosedInv'
<1> DEFINE d == mem[r].doc
<1>1. /\ pc[r] = "save" /\ cfg' = d /\ UNCHANGED <<ballots, result>>
      /\ pc'[r] = IF d.status = "CLOS" THEN "tally" ELSE "done"
      /\ \A q \in Requests : q # r => pc'[q] = pc[q] /\ mem'[q] = mem[q]
  BY DEF Save, Await, Finish, TypeInv, TypeOK
<1>2. shut' = (shut \/ d.status = "CLOS") /\ shut' \in BOOLEAN
  BY <1>1 DEF NoteClose, ClosedInv
<1>3. cfg'.status \in Closed => shut'
  BY <1>1, <1>2 DEF ClosedInv, HolderOf, Closed
<1>4. early' \subseteq Ids'
  BY <1>1 DEF NoteClose, ClosedInv, Ids
<1>5. ASSUME shut' = shut PROVE ClosedInv'
  <2>1. early' = early
    BY <1>5, <1>2 DEF NoteClose, ClosedInv
  <2>2. shut' => Awaited'
    BY <1>1, <1>5 DEF ClosedInv, Awaited, TallyPCs
  <2>3. ASSUME NEW q \in Requests PROVE HolderOf(q)'
    <3>1. CASE q # r
      BY <1>1, <1>5, <2>1, <3>1 DEF ClosedInv, HolderOf
    <3>2. CASE q = r
      BY <1>1, <1>2, <3>2 DEF HolderOf, AfterClose, TallyPCs, CastPCs
    <3> QED  BY <3>1, <3>2
  <2> QED  BY <1>1, <1>2, <1>3, <1>4, <1>5, <2>1, <2>2, <2>3 DEF ClosedInv
<1>6. ASSUME shut' # shut PROVE ClosedInv'
  <2>1. ~ shut /\ shut' /\ d.status = "CLOS"
    BY <1>2, <1>6 DEF ClosedInv
  <2>2. result' = NoResult
    BY <1>1, <2>1 DEF ClosedInv
  <2>3. Awaited'
    BY <1>1, <2>1 DEF Awaited, TallyPCs
  <2>4. ASSUME NEW q \in Requests PROVE HolderOf(q)'
    <3>1. CASE q # r
      <4>1. pc[q] \notin AfterClose
        BY <2>1 DEF ClosedInv, HolderOf
      <4> QED  BY <1>1, <2>1, <3>1, <4>1 DEF ClosedInv, HolderOf, AfterClose, TallyPCs
    <3>2. CASE q = r
      BY <1>1, <2>1, <3>2 DEF HolderOf, AfterClose, TallyPCs, CastPCs
    <3> QED  BY <3>1, <3>2
  <2> QED  BY <1>2, <1>3, <1>4, <2>1, <2>2, <2>3, <2>4 DEF ClosedInv
<1> QED  BY <1>5, <1>6

\* A cast saves a scrutin OUVERT again, whatever has closed it meanwhile.
LEMMA ClosedCount ==
  ASSUME TypeInv, ClosedInv, NoteClose, NEW r \in Requests, CastCount(r), UNCHANGED cut
  PROVE  ClosedInv'
<1>1. /\ pc[r] = "count" /\ cfg' = mem[r].doc /\ UNCHANGED <<ballots, result>>
      /\ pc'[r] = "done"
      /\ \A q \in Requests : q # r => pc'[q] = pc[q] /\ mem'[q] = mem[q]
  BY DEF CastCount, Finish, TypeInv, TypeOK
<1>2. cfg'.status = "OUVERT"
  BY <1>1 DEF ClosedInv, HolderOf, CastPCs
<1>3. shut' = shut /\ early' = early
  BY <1>2 DEF NoteClose, ClosedInv
<1>4. cfg'.status \notin Closed
  BY <1>2 DEF Closed
<1>5. shut' => Awaited'
  BY <1>1, <1>3 DEF ClosedInv, Awaited, TallyPCs
<1>6. ASSUME NEW q \in Requests PROVE HolderOf(q)'
  <2>1. CASE q # r
    BY <1>1, <1>3, <2>1 DEF ClosedInv, HolderOf
  <2>2. CASE q = r
    BY <1>1, <2>2 DEF HolderOf, AfterClose, TallyPCs, CastPCs
  <2> QED  BY <2>1, <2>2
<1> QED  BY <1>1, <1>3, <1>4, <1>5, <1>6 DEF ClosedInv, Ids

\* The two writes of a result.
LEMMA ClosedResult ==
  ASSUME TypeInv, ClosedInv, NoteClose, NEW r \in Requests, Finish(r), shut,
         UNCHANGED <<cfg, ballots, cut>>, result' # NoResult, early \subseteq result'.ballots
  PROVE  ClosedInv'
<1>1. shut' = shut /\ early' = early
  BY DEF NoteClose, ClosedInv, Closed
<1>2. /\ pc'[r] = "done"
      /\ \A q \in Requests : q # r => pc'[q] = pc[q] /\ mem'[q] = mem[q]
  BY DEF Finish, TypeInv, TypeOK
<1>3. ASSUME NEW q \in Requests PROVE HolderOf(q)'
  BY <1>1, <1>2 DEF ClosedInv, HolderOf, AfterClose, TallyPCs, CastPCs
<1> QED  BY <1>1, <1>3 DEF ClosedInv, Ids, Awaited

LEMMA ClosedCrash ==
  ASSUME TypeInv, ClosedInv, NEW r \in Requests, Crash(r),
         cut' = (cut \/ pc[r] \in TallyPCs), UNCHANGED <<shut, early>>
  PROVE  ClosedInv'
<1>1. /\ pc'[r] = "done" /\ UNCHANGED <<cfg, ballots, result>>
      /\ \A q \in Requests : q # r => pc'[q] = pc[q] /\ mem'[q] = mem[q]
  BY DEF Crash, Finish, TypeInv, TypeOK
<1>2. shut' => Awaited'
  <2>1. CASE pc[r] \in TallyPCs
    BY <2>1 DEF Awaited
  <2>2. CASE pc[r] \notin TallyPCs
    BY <1>1, <2>2 DEF Awaited, ClosedInv
  <2> QED  BY <2>1, <2>2
<1>3. ASSUME NEW q \in Requests PROVE HolderOf(q)'
  BY <1>1 DEF ClosedInv, HolderOf, AfterClose, TallyPCs, CastPCs
<1> QED  BY <1>1, <1>2, <1>3 DEF ClosedInv, Ids

LEMMA HistoryStep == HNext => Next
  BY DEF HNext, Next

LEMMA NextClosedInv == TypeInv /\ ClosedInv /\ [HNext]_historyVars => ClosedInv'
<1> SUFFICES ASSUME TypeInv, ClosedInv, [HNext]_historyVars PROVE ClosedInv'
  OBVIOUS
<1>1. CASE UNCHANGED historyVars
  BY <1>1 DEF historyVars, ClosedInv, HolderOf, Awaited, Ids
<1>2. ASSUME NEW r \in Requests, Crash(r), cut' = (cut \/ pc[r] \in TallyPCs),
             UNCHANGED <<shut, early>>
      PROVE  ClosedInv'
  BY <1>2, ClosedCrash
<1>3. ASSUME NEW r \in Requests, Cast(r), NoteClose, UNCHANGED cut
      PROVE  ClosedInv'
  <2>1. ASSUME NEW v \in Voters, CastLoad(r, v) PROVE ClosedInv'
    <3>1. [Blank EXCEPT !.user = v, !.doc = cfg].doc = cfg
      BY DEF Blank
    <3> QED  BY <1>3, <2>1, <3>1, ClosedAwait DEF CastLoad, AfterClose, TallyPCs
  <2>2. ASSUME CastCheck(r) PROVE ClosedInv'
    BY <1>3, <2>2, ClosedFinish, ClosedAwait
       DEF CastCheck, AfterClose, TallyPCs, CastPCs, ClosedInv, HolderOf
  <2>3. ASSUME CastProxies(r) PROVE ClosedInv'
    <3> DEFINE rows == {p.id : p \in ActiveForHolder(mem[r].user)}
               m == [mem[r] EXCEPT !.rows = rows]
    <3>1. m.doc = mem[r].doc
      BY DEF TypeInv, TypeOK, Memory
    <3>2. /\ Finish(r) \/ Await(r, "insert", m)
          /\ pc[r] = "proxies" /\ UNCHANGED <<cfg, ballots, result>>
      BY <2>3 DEF CastProxies
    <3> HIDE DEF m, rows
    <3>3. m.doc.status = "OUVERT"
      BY <3>1, <3>2 DEF ClosedInv, HolderOf, CastPCs
    <3> QED  BY <1>3, <3>2, <3>3, ClosedFinish, ClosedAwait DEF AfterClose, TallyPCs
  <2>4. ASSUME CastInsert(r) PROVE ClosedInv'
    <3> DEFINE m == [mem[r] EXCEPT !.doc.count = @ + 1]
    <3>1. /\ Await(r, "count", m) /\ pc[r] = "insert" /\ UNCHANGED <<cfg, result>>
          /\ ballots \subseteq ballots'
      BY <2>4 DEF CastInsert
    <3>2. mem[r] \in Memory /\ mem[r].doc \in Configs
      BY <3>1 DEF TypeInv, TypeOK, Loaded, Holding, CastPCs
    <3>3. m.doc.status = mem[r].doc.status
      BY <3>2 DEF Memory, Configs
    <3> HIDE DEF m
    <3>4. m.doc.status = "OUVERT"
      BY <3>1, <3>3 DEF ClosedInv, HolderOf, CastPCs
    <3> QED  BY <1>3, <3>1, <3>4, ClosedAwait DEF AfterClose, TallyPCs
  <2>5. ASSUME CastCount(r) PROVE ClosedInv'
    BY <1>3, <2>5, ClosedCount
  <2> QED  BY <1>3, <2>1, <2>2, <2>3, <2>4, <2>5 DEF Cast
<1>4. ASSUME NEW r \in Requests, Chair(r), NoteClose, UNCHANGED cut
      PROVE  ClosedInv'
  <2> USE <1>4
  <2>1. ASSUME NEW target \in Targets, TransitionLoad(r, target) PROVE ClosedInv'
    <3>1. cfg \in Configs
      BY DEF TypeInv, TypeOK
    <3>2. [Blank EXCEPT !.doc = [cfg EXCEPT !.status = target]].doc.status = target
      BY <3>1 DEF Blank, Configs
    <3>3. target \in {"VALIDE", "ANNULE"} => shut
      BY <2>1, <3>1 DEF TransitionLoad, Transitions, Configs, Statuses, ClosedInv, Closed
    <3> QED  BY <2>1, <3>2, <3>3, ClosedAwait DEF TransitionLoad, AfterClose, TallyPCs, CastPCs
  <2>2. ASSUME CloseAgain(r) PROVE ClosedInv'
    BY <2>2, ClosedAwait DEF CloseAgain, ClosedInv, Closed, TallyPCs, CastPCs
  <2>3. ASSUME NEW rule \in Rules, NEW secret \in BOOLEAN, ChangeTypeLoad(r, rule, secret)
        PROVE  ClosedInv'
    <3>1. [Blank EXCEPT !.doc = Retyped(cfg, r, rule, secret)].doc.status = cfg.status
      BY DEF Blank, Retyped, TypeInv, TypeOK, Configs
    <3> QED  BY <2>3, <3>1, ClosedAwait DEF ChangeTypeLoad, AfterClose, TallyPCs, CastPCs
  <2>4. ASSUME NEW proxies \in BOOLEAN, PatchLoad(r, proxies) PROVE ClosedInv'
    <3>1. [Blank EXCEPT !.doc = [cfg EXCEPT !.proxies = proxies]].doc.status = cfg.status
      BY DEF Blank, TypeInv, TypeOK, Configs
    <3> QED  BY <2>4, <3>1, ClosedAwait DEF PatchLoad, AfterClose, TallyPCs, CastPCs
  <2>5. ASSUME Save(r) PROVE ClosedInv'
    BY <2>5, ClosedSave, HistoryStep DEF Next
  <2>6. ASSUME TallyLoad(r) PROVE ClosedInv'
    BY <2>6, ClosedAwait DEF TallyLoad, AfterClose, TallyPCs, CastPCs, ClosedInv, HolderOf
  <2>7. ASSUME TallySum(r) PROVE ClosedInv'
    <3> DEFINE m == [mem[r] EXCEPT !.rows = {b.id : b \in ballots}]
    <3>1. m.rows = Ids
      BY DEF Ids, TypeInv, TypeOK, Memory
    <3>2. Await(r, "find", m) /\ UNCHANGED <<cfg, result, ballots>> /\ pc[r] = "sum"
      BY <2>7 DEF TallySum
    <3> HIDE DEF m
    <3> QED  BY <3>1, <3>2, ClosedAwait DEF AfterClose, TallyPCs, CastPCs, ClosedInv, HolderOf
  <2>8. ASSUME TallyFind(r) PROVE ClosedInv'
    <3> DEFINE m == [mem[r] EXCEPT !.res = result]
    <3>1. m.rows = mem[r].rows
      BY DEF TypeInv, TypeOK, Memory
    <3>2. Await(r, "write", m) /\ UNCHANGED <<cfg, result, ballots>> /\ pc[r] = "find"
      BY <2>8 DEF TallyFind
    <3> HIDE DEF m
    <3> QED  BY <3>1, <3>2, ClosedAwait DEF AfterClose, TallyPCs, CastPCs, ClosedInv, HolderOf
  <2>9. ASSUME TallyWrite(r) PROVE ClosedInv'
    <3> DEFINE new == [rule |-> mem[r].doc.rule, ballots |-> mem[r].rows]
    <3>1. new \in Results /\ new.ballots = mem[r].rows
      BY <2>9 DEF TallyWrite, TypeInv, TypeOK, Loaded, Holding, Memory, Results, Configs
    <3>2. /\ pc[r] = "write" /\ Finish(r) /\ UNCHANGED <<cfg, ballots>>
          /\ result' = IF mem[r].res = NoResult /\ result # NoResult THEN result ELSE new
      BY <2>9 DEF TallyWrite
    <3> HIDE DEF new
    <3>3. result' # NoResult /\ shut /\ early \subseteq result'.ballots
      BY <3>1, <3>2, SentinelAssumption DEF ClosedInv, HolderOf, AfterClose, TallyPCs
    <3> QED  BY <3>2, <3>3, ClosedResult
  <2>10. ASSUME ManualLoad(r) PROVE ClosedInv'
    BY <2>10, ClosedAwait DEF ManualLoad, Blank, TallyPCs, CastPCs, ClosedInv
  <2>11. ASSUME ManualSave(r) PROVE ClosedInv'
    <3>1. result' # NoResult /\ shut /\ early \subseteq result'.ballots
      BY <2>11, SentinelAssumption
         DEF ManualSave, TypeInv, Loaded, ClosedInv, HolderOf, AfterClose
    <3> QED  BY <2>11, <3>1, ClosedResult DEF ManualSave
  <2>12. ASSUME ExportLoad(r) PROVE ClosedInv'
    BY <2>12, ClosedAwait DEF ExportLoad, ClosedInv, Closed, TallyPCs, CastPCs
  <2>13. ASSUME ExportFind(r) PROVE ClosedInv'
    BY <2>13, ClosedFinish, ClosedAwait
       DEF ExportFind, ClosedInv, HolderOf, AfterClose, TallyPCs, CastPCs
  <2> QED  BY <2>1, <2>2, <2>3, <2>4, <2>5, <2>6, <2>7, <2>8, <2>9, <2>10, <2>11, <2>12,
              <2>13 DEF Chair
<1>5. ASSUME NEW r \in Requests, Proxy(r), NoteClose, UNCHANGED cut
      PROVE  ClosedInv'
  BY <1>5, ClosedFinish, ClosedAwait
     DEF Proxy, AssignCheck, AssignInsert, Revoke, AfterClose, TallyPCs, CastPCs
<1> QED  BY <1>1, <1>2, <1>3, <1>4, <1>5 DEF HNext

\* Whatever the requests do to one another, and however stale a tally, a manual
\* tally or an export is when it writes, the result of a scrutin never drops a
\* ballot that was in at its first close, and a closed scrutin without a result
\* is being tallied unless a worker died tallying it (tally_service.py:121,
\* vote_controller.py:164, :419).
THEOREM ClosedScrutinIsTallied == HSpec => []ClosedIsTallied
<1>1. HInit => TypeInv /\ ClosedInv
  <2> SUFFICES ASSUME HInit PROVE TypeInv /\ ClosedInv
    OBVIOUS
  <2>1. ASSUME NEW r \in Requests PROVE HolderOf(r)
    BY DEF HInit, Init, HolderOf, AfterClose, TallyPCs, CastPCs
  <2>2. cfg.status = "PROJET"
    BY DEF HInit, Init
  <2>3. ClosedInv
    BY <2>1, <2>2 DEF HInit, Init, ClosedInv, Closed
  <2> QED  BY <2>3, InitTypeInv DEF HInit
<1>2. TypeInv /\ ClosedInv /\ [HNext]_historyVars => (TypeInv /\ ClosedInv)'
  <2>1. [HNext]_historyVars => [Next]_vars
    BY HistoryStep DEF historyVars, vars
  <2> QED  BY <2>1, NextTypeInv, NextClosedInv
<1>3. ClosedInv => ClosedIsTallied
  BY DEF ClosedInv, ClosedIsTallied, Awaited
<1> QED  BY <1>1, <1>2, <1>3, PTL DEF HSpec

(***************************************************************************)
(* Delegations.  A granter with one delegation in flight at a time has     *)
(* checked that none is active, and nobody else inserts his.               *)
(***************************************************************************)
GranterOf(r) ==
  pc[r] = "assign" =>
    /\ \A p \in pouvoirs : p.active => p.granter # mem[r].user
    /\ \A q \in Requests : pc[q] = "assign" /\ mem[q].user = mem[r].user => q = r

DelegationInv == VoterSerial /\ OneDelegation /\ \A r \in Requests : GranterOf(r)

\* Steps that delegate nothing leave the delegations in flight alone.
LEMMA DelegationStep ==
  ASSUME DelegationInv, NEW r \in Requests, pc'[r] # "assign",
         \A q \in Requests : q # r => pc'[q] = pc[q] /\ mem'[q] = mem[q],
         \A p \in pouvoirs' : p.active => p \in pouvoirs
  PROVE  DelegationInv'
<1>1. \A q \in Requests : pc'[q] = "assign" => pc[q] = "assign" /\ mem'[q] = mem[q]
  OBVIOUS
<1>2. OneDelegation'
  BY DEF DelegationInv, OneDelegation
<1>3. ASSUME NEW q \in Requests PROVE GranterOf(q)'
  BY <1>1 DEF DelegationInv, GranterOf
<1> QED  BY <1>2, <1>3 DEF DelegationInv

LEMMA NextDelegationInv == TypeInv /\ DelegationInv /\ [Next]_vars => DelegationInv'
<1> SUFFICES ASSUME TypeInv, DelegationInv, [Next]_vars PROVE DelegationInv'
  OBVIOUS
<1>1. ASSUME NEW r \in Requests, NEW granter \in Voters, AssignCheck(r, granter)
      PROVE  DelegationInv'
  <2> DEFINE m == [Blank EXCEPT !.user = granter]
  <2>1. /\ pc[r] = "idle" /\ Await(r, "assign", m) /\ UNCHANGED pouvoirs
        /\ VoterSerial => \A q \in Requests : pc[q] = "assign" => mem[q].user # granter
        /\ \A p \in pouvoirs : p.active => p.granter # granter
    BY <1>1 DEF AssignCheck, GranterMayStart
  <2>2. m.user = granter
    BY DEF Blank
  <2> HIDE DEF m
  <2>3. /\ pc'[r] = "assign" /\ mem'[r] = m
        /\ \A q \in Requests : q # r => pc'[q] = pc[q] /\ mem'[q] = mem[q]
    BY <2>1 DEF Await, TypeInv, TypeOK
  <2>4. ASSUME NEW q \in Requests PROVE GranterOf(q)'
    BY <2>1, <2>2, <2>3 DEF DelegationInv, GranterOf
  <2> QED  BY <2>1, <2>4 DEF DelegationInv, OneDelegation
<1>2. ASSUME NEW r \in Requests, NEW holder \in Voters, AssignInsert(r, holder)
      PROVE  DelegationInv'
  <2> DEFINE new == [id |-> r, granter |-> mem[r].user, holder |-> holder, active |-> TRUE]
  <2>1. /\ pc[r] = "assign" /\ Finish(r) /\ pouvoirs' = pouvoirs \union {new}
        /\ new.granter = mem[r].user
    BY <1>2 DEF AssignInsert
  <2> HIDE DEF new
  <2>2. /\ pc'[r] = "done"
        /\ \A q \in Requests : q # r => pc'[q] = pc[q] /\ mem'[q] = mem[q]
    BY <2>1 DEF Finish, TypeInv, TypeOK
  <2>3. \A p \in pouvoirs : p.active => p.granter # mem[r].user
    BY <2>1 DEF DelegationInv, GranterOf
  <2>4. OneDelegation'
    BY <2>1, <2>3 DEF DelegationInv, OneDelegation
  <2>5. ASSUME NEW q \in Requests PROVE GranterOf(q)'
    BY <2>1, <2>2 DEF DelegationInv, GranterOf
  <2> QED  BY <2>4, <2>5 DEF DelegationInv
<1>3. ASSUME NEW r \in Requests, NEW p \in pouvoirs, Revoke(r, p)
      PROVE  DelegationInv'
  <2>1. p \in Pouvoirs
    BY DEF TypeInv, TypeOK
  <2>2. ~ [p EXCEPT !.active = FALSE].active
    BY <2>1 DEF Pouvoirs
  <2> QED  BY <1>3, <2>2, DelegationStep DEF Revoke, Finish, TypeInv, TypeOK
<1>4. ASSUME NEW r \in Requests, Cast(r) \/ Chair(r) \/ Crash(r)
      PROVE  DelegationInv'
  <2>1. UNCHANGED pouvoirs
    BY <1>4 DEF Cast, Chair, Crash, CastLoad, CastCheck, CastProxies, CastInsert, CastCount,
                TransitionLoad, CloseAgain, ChangeTypeLoad, PatchLoad, Save, TallyLoad,
                TallySum, TallyFind, TallyWrite, ManualLoad, ManualSave, ExportLoad,
                ExportFind
  <2>2. /\ pc'[r] # "assign"
        /\ \A q \in Requests : q # r => pc'[q] = pc[q] /\ mem'[q] = mem[q]
    <3> USE DEF Await, Finish, TypeInv, TypeOK
    <3>1. CASE Cast(r)
      BY <3>1 DEF Cast, CastLoad, CastCheck, CastProxies, CastInsert, CastCount
    <3>2. CASE Chair(r)
      BY <3>2 DEF Chair, TransitionLoad, CloseAgain, ChangeTypeLoad, PatchLoad, Save,
                  TallyLoad, TallySum, TallyFind, TallyWrite, ManualLoad, ManualSave,
                  ExportLoad, ExportFind
    <3>3. CASE Crash(r)
      BY <3>3 DEF Crash
    <3> QED  BY <1>4, <3>1, <3>2, <3>3
  <2> QED  BY <2>1, <2>2, DelegationStep
<1>5. CASE UNCHANGED vars
  BY <1>5 DEF vars, DelegationInv, OneDelegation, GranterOf
<1> QED  BY <1>1, <1>2, <1>3, <1>4, <1>5 DEF Next, Proxy

\* A sénateur who asks for one delegation at a time has at most one active
\* proxy row (proxy_service.py:31), whatever the other requests do and crash.
THEOREM OneDelegationAtATime == VoterSerial => (Spec => []OneDelegation)
<1>1. VoterSerial /\ Init => TypeInv /\ DelegationInv
  BY InitTypeInv DEF Init, DelegationInv, OneDelegation, GranterOf
<1>2. TypeInv /\ DelegationInv /\ [Next]_vars => (TypeInv /\ DelegationInv)'
  BY NextTypeInv, NextDelegationInv
<1>3. DelegationInv => OneDelegation
  BY DEF DelegationInv
<1> QED  BY <1>1, <1>2, <1>3, PTL DEF Spec

(***************************************************************************)
(* Under the discipline: the greffier's requests run alone, a sénateur has *)
(* one cast and one delegation in flight, and no worker dies between a     *)
(* ballot and its count, or between a close and its result.                *)
(***************************************************************************)
Lethal == {"count"} \union TallyPCs

Disciplined ==
  ChairDiscipline = "exclusive" /\ VoterSerial /\ Crashes \intersect Lethal = {}

Changeable == {"PROJET", "OUVERT", "SUSPENDU"}

SameTerms(d) == TermsOf(d) = TermsOf(cfg)

Alone ==
  \A r, q \in Requests : pc[r] \in ChairPCs /\ pc[q] \in InFlight => q = r

\* The copy of a request that casts differs from the scrutin by the counter
\* only; whoever has passed the check still has no ballot.
CasterOf(r) ==
  /\ pc[r] \in CastPCs =>
       /\ cfg.status = "OUVERT"
       /\ mem[r].doc.status = "OUVERT"
       /\ SameTerms(mem[r].doc)
       /\ \A q \in Requests : pc[q] \in CastPCs /\ mem[q].user = mem[r].user => q = r
  /\ pc[r] \in {"proxies", "insert"} => \A b \in ballots : b.voter # mem[r].user
  /\ pc[r] = "count" => mem[r].doc.count # 0

\* The counter may stay behind the ballots, but not at zero once nothing that
\* inserted one is in flight.
BallotsOK ==
  /\ OneBallotPerVoter
  /\ \A b \in ballots : b.dek = CastDek(cfg)
  /\ cfg.count = 0 => \A b \in ballots : pc[b.id] = "count"

\* What a request is about to save moves the status, or changes the terms
\* before there is a ballot.
SaverOf(r) ==
  pc[r] = "save" =>
    /\ mem[r].doc.count = cfg.count
    /\ \/ mem[r].doc.status \in Transitions[cfg.status] /\ SameTerms(mem[r].doc)
       \/ /\ mem[r].doc.status = cfg.status /\ cfg.status \in Changeable
          /\ SameTerms(mem[r].doc) \/ ballots = {}

\* What a tally has read is what is stored.
TallierOf(r) ==
  /\ pc[r] \in TallyPCs \union {"export"} => cfg.status \in Closed
  /\ pc[r] \in {"sum", "find", "write"} => mem[r].doc = cfg
  /\ pc[r] \in {"find", "write"} => mem[r].rows = Ids
  /\ pc[r] \in {"write", "manual"} => mem[r].res = result

\* The result that is due once the scrutin is closed.
Due == [rule |-> cfg.rule, ballots |-> Ids]

ResultOK ==
  /\ result # NoResult => cfg.status \in Closed
  /\ cfg.status \in Closed => result = Due \/ \E r \in Requests : pc[r] \in TallyPCs

OrderInv ==
  /\ Disciplined
  /\ Alone
  /\ BallotsOK
  /\ ResultOK
  /\ \A r \in Requests : CasterOf(r) /\ SaverOf(r) /\ TallierOf(r)

\* A request starts as the discipline says, goes on, or is done.
LEMMA AloneKept ==
  ASSUME Alone, NEW r \in Requests,
         \A q \in Requests : q # r => pc'[q] = pc[q],
         pc'[r] \in InFlight =>
           \/ pc[r] \in ChairPCs
           \/ pc'[r] \notin ChairPCs /\ (pc[r] \in InFlight \/ NoChairInFlight)
           \/ NothingInFlight
  PROVE  Alone'
<1> SUFFICES ASSUME NEW p \in Requests, NEW q \in Requests,
                    pc'[p] \in ChairPCs, pc'[q] \in InFlight
             PROVE  q = p
  BY DEF Alone
<1>1. ChairPCs \subseteq InFlight
  BY DEF InFlight
<1>2. CASE p = r
  BY <1>1, <1>2 DEF Alone, NothingInFlight
<1>3. CASE p # r
  BY <1>1, <1>3 DEF Alone, NothingInFlight, NoChairInFlight
<1> QED  BY <1>2, <1>3

\* A step that writes neither the scrutin nor a ballot nor the result needs to
\* be looked at in its own request only.
LEMMA QuietOrder ==
  ASSUME TypeInv, OrderInv, NEW r \in Requests,
         \A q \in Requests : q # r => pc'[q] = pc[q] /\ mem'[q] = mem[q],
         UNCHANGED <<cfg, ballots, result>>,
         pc[r] # "count", pc[r] \in TallyPCs => pc'[r] \in TallyPCs,
         Alone', CasterOf(r)', SaverOf(r)', TallierOf(r)'
  PROVE  OrderInv'
<1>1. Ids' = Ids /\ Due' = Due
  BY DEF Ids, Due
<1>2. ASSUME NEW q \in Requests, q # r
      PROVE  CasterOf(q)' /\ SaverOf(q)' /\ TallierOf(q)'
  <2>1. pc'[q] = pc[q] /\ mem'[q] = mem[q] /\ CasterOf(q) /\ SaverOf(q) /\ TallierOf(q)
    BY <1>2 DEF OrderInv
  <2>2. \A d : SameTerms(d)' <=> SameTerms(d)
    BY DEF SameTerms, TermsOf
  <2>3. SaverOf(q)' /\ TallierOf(q)'
    BY <1>1, <2>1 DEF SaverOf, TallierOf, SameTerms, TermsOf
  <2>4. CasterOf(q)'
    <3>1. pc[q] \in CastPCs =>
            \A p \in Requests : pc'[p] \in CastPCs /\ mem'[p].user = mem[q].user => p = q
      <4> SUFFICES ASSUME pc[q] \in CastPCs, NEW p \in Requests, pc'[p] \in CastPCs,
                          mem'[p].user = mem[q].user
                   PROVE  p = q
        OBVIOUS
      <4>1. CASE p = r
        BY <2>1, <4>1 DEF CasterOf
      <4>2. CASE p # r
        BY <2>1, <4>2 DEF CasterOf
      <4> QED  BY <4>1, <4>2
    <3> QED  BY <2>1, <3>1 DEF CasterOf, SameTerms, TermsOf
  <2> QED  BY <2>3, <2>4
<1>3. \A q \in Requests : CasterOf(q)' /\ SaverOf(q)' /\ TallierOf(q)'
  BY <1>2
<1>4. BallotsOK'
  <2>1. \A b \in ballots : b.id \in Requests
    BY DEF TypeInv, TypeOK, Ballots
  <2> QED  BY <2>1 DEF OrderInv, BallotsOK, OneBallotPerVoter, CastDek
<1>5. ResultOK'
  BY <1>1 DEF OrderInv, ResultOK
<1> QED  BY <1>3, <1>4, <1>5 DEF OrderInv

\* Where each request may be, for the steps that ask.
LEMMA WhoIsAlone ==
  ASSUME Alone, NEW r \in Requests
  PROVE  /\ pc[r] \in ChairPCs => \A q \in Requests : q # r => pc[q] \notin InFlight
         /\ pc[r] \in CastPCs => \A q \in Requests : pc[q] \notin ChairPCs
  BY DEF Alone, InFlight, CastPCs, ChairPCs

\* BallotService.cast up to the insertion.
LEMMA CastLoadOrder ==
  ASSUME TypeInv, OrderInv, NEW r \in Requests, NEW v \in Voters, CastLoad(r, v)
  PROVE  OrderInv'
<1> DEFINE m == [Blank EXCEPT !.user = v, !.doc = cfg]
<1>1. /\ pc[r] = "idle" /\ Await(r, "check", m) /\ cfg.status = "OUVERT"
      /\ UNCHANGED <<cfg, ballots, result>>
      /\ NoChairInFlight
      /\ \A q \in Requests : pc[q] \in CastPCs => mem[q].user # v
  BY DEF CastLoad, VoterMayStart, OrderInv, Disciplined
<1>2. m.user = v /\ m.doc = cfg
  BY DEF Blank
<1> HIDE DEF m
<1>3. /\ pc'[r] = "check" /\ mem'[r] = m
      /\ \A q \in Requests : q # r => pc'[q] = pc[q] /\ mem'[q] = mem[q]
  BY <1>1 DEF Await, TypeInv, TypeOK
<1>4. Alone'
  BY <1>1, <1>3, AloneKept DEF OrderInv, ChairPCs
<1>5. CasterOf(r)'
  BY <1>1, <1>2, <1>3 DEF CasterOf, SameTerms, TermsOf
<1>6. SaverOf(r)' /\ TallierOf(r)'
  BY <1>3 DEF SaverOf, TallierOf, TallyPCs
<1>7. pc[r] # "count" /\ pc[r] \notin TallyPCs
  BY <1>1 DEF TallyPCs
<1> QED  BY <1>1, <1>3, <1>4, <1>5, <1>6, <1>7, QuietOrder

\* A request that is refused, or done, is looked at no more.
LEMMA FinishOrder ==
  ASSUME TypeInv, OrderInv, NEW r \in Requests, Finish(r),
         UNCHANGED <<cfg, ballots, result>>,
         pc[r] # "count", pc[r] \notin TallyPCs
  PROVE  OrderInv'
<1>1. /\ pc'[r] = "done"
      /\ \A q \in Requests : q # r => pc'[q] = pc[q] /\ mem'[q] = mem[q]
  BY DEF Finish, TypeInv, TypeOK
<1>2. Alone'
  BY <1>1, AloneKept DEF OrderInv, ChairPCs, CastPCs, InFlight
<1>3. CasterOf(r)' /\ SaverOf(r)' /\ TallierOf(r)'
  BY <1>1 DEF CasterOf, SaverOf, TallierOf, TallyPCs, CastPCs
<1> QED  BY <1>1, <1>2, <1>3, QuietOrder

\* A cast goes on: it holds what it held, and has no ballot yet.
LEMMA CastGoesOn ==
  ASSUME TypeInv, OrderInv, NEW r \in Requests, NEW label \in {"proxies", "insert"}, NEW m,
         Await(r, label, m), UNCHANGED <<cfg, ballots, result>>,
         pc[r] \in {"check", "proxies"},
         m.user = mem[r].user, m.doc = mem[r].doc,
         \A b \in ballots : b.voter # mem[r].user
  PROVE  OrderInv'
<1>1. /\ pc'[r] = label /\ mem'[r] = m
      /\ \A q \in Requests : q # r => pc'[q] = pc[q] /\ mem'[q] = mem[q]
  BY DEF Await, TypeInv, TypeOK
<1>2. Alone'
  BY <1>1, AloneKept DEF OrderInv, ChairPCs, CastPCs, InFlight
<1>3. CasterOf(r)
  BY DEF OrderInv
<1>4. CasterOf(r)'
  BY <1>1, <1>3 DEF CasterOf, SameTerms, TermsOf, CastPCs
<1>5. SaverOf(r)' /\ TallierOf(r)'
  BY <1>1 DEF SaverOf, TallierOf, TallyPCs
<1>6. pc[r] # "count" /\ pc[r] \notin TallyPCs
  BY DEF TallyPCs
<1> QED  BY <1>1, <1>2, <1>4, <1>5, <1>6, QuietOrder

LEMMA CastCheckOrder ==
  ASSUME TypeInv, OrderInv, NEW r \in Requests, CastCheck(r)
  PROVE  OrderInv'
<1>1. pc[r] = "check" /\ UNCHANGED <<cfg, ballots, result>>
  BY DEF CastCheck
<1>2. CASE Finish(r)
  BY <1>1, <1>2, FinishOrder DEF TallyPCs
<1>3. CASE ~ Finish(r)
  <2>1. /\ ~ AlreadyVoted(mem[r].doc, mem[r].user)
        /\ Await(r, IF mem[r].doc.proxies THEN "proxies" ELSE "insert", mem[r])
    BY <1>3 DEF CastCheck
  <2>2. SameTerms(mem[r].doc)
    BY <1>1 DEF OrderInv, CasterOf, CastPCs
  <2>3. CastDek(mem[r].doc) = CastDek(cfg)
    BY <2>2 DEF SameTerms, TermsOf, CastDek
  <2>4. \A b \in ballots : b.voter # mem[r].user
    BY <2>1, <2>3 DEF AlreadyVoted, OrderInv, BallotsOK
  <2> QED  BY <1>1, <2>1, <2>4, CastGoesOn
<1> QED  BY <1>2, <1>3

LEMMA CastProxiesOrder ==
  ASSUME TypeInv, OrderInv, NEW r \in Requests, CastProxies(r)
  PROVE  OrderInv'
<1>1. pc[r] = "proxies" /\ UNCHANGED <<cfg, ballots, result>>
  BY DEF CastProxies
<1>2. CASE Finish(r)
  BY <1>1, <1>2, FinishOrder DEF TallyPCs
<1>3. CASE ~ Finish(r)
  <2>1. PICK rows : Await(r, "insert", [mem[r] EXCEPT !.rows = rows])
    BY <1>3 DEF CastProxies
  <2>2. mem[r] \in Memory
    BY DEF TypeInv, TypeOK
  <2>3. /\ [mem[r] EXCEPT !.rows = rows].user = mem[r].user
        /\ [mem[r] EXCEPT !.rows = rows].doc = mem[r].doc
    BY <2>2 DEF Memory
  <2>4. \A b \in ballots : b.voter # mem[r].user
    BY <1>1 DEF OrderInv, CasterOf
  <2> QED  BY <1>1, <2>1, <2>3, <2>4, CastGoesOn
<1> QED  BY <1>2, <1>3

\* The ballot is inserted: its voter had none, and nobody else casts for him.
LEMMA CastInsertOrder ==
  ASSUME TypeInv, OrderInv, NEW r \in Requests, CastInsert(r)
  PROVE  OrderInv'
<1> DEFINE m == [mem[r] EXCEPT !.doc.count = @ + 1]
           new == CastBallot(r)
<1>1. /\ pc[r] = "insert" /\ Await(r, "count", m) /\ ballots' = ballots \union {new}
      /\ UNCHANGED <<cfg, result>>
  BY DEF CastInsert
<1>2. mem[r] \in Memory /\ mem[r].doc \in Configs
  BY <1>1 DEF TypeInv, TypeOK, Loaded, Holding, CastPCs
<1>3. /\ m.user = mem[r].user /\ m.doc.status = mem[r].doc.status
      /\ TermsOf(m.doc) = TermsOf(mem[r].doc) /\ m.doc.count # 0
  BY <1>2 DEF Memory, Configs, TermsOf
<1>4. new.id = r /\ new.voter = mem[r].user /\ new.dek = CastDek(mem[r].doc)
  BY DEF CastBallot
<1> HIDE DEF m, new
<1>5. /\ pc'[r] = "count" /\ mem'[r] = m
      /\ \A q \in Requests : q # r => pc'[q] = pc[q] /\ mem'[q] = mem[q]
  BY <1>1 DEF Await, TypeInv, TypeOK
<1>6. Alone /\ CasterOf(r) /\ BallotsOK /\ ResultOK
  BY DEF OrderInv
<1>7. /\ cfg.status = "OUVERT" /\ mem[r].doc.status = "OUVERT" /\ SameTerms(mem[r].doc)
      /\ \A q \in Requests : pc[q] \in CastPCs /\ mem[q].user = mem[r].user => q = r
      /\ \A b \in ballots : b.voter # mem[r].user
  BY <1>1, <1>6 DEF CasterOf, CastPCs
<1>8. new.dek = CastDek(cfg)
  BY <1>4, <1>7 DEF SameTerms, TermsOf, CastDek
<1>9. \A q \in Requests : pc'[q] \notin ChairPCs
  BY <1>1, <1>5, <1>6, WhoIsAlone DEF CastPCs, ChairPCs
<1>10. Alone'
  BY <1>9 DEF Alone
<1>11. BallotsOK'
  <2>1. OneBallotPerVoter'
    BY <1>1, <1>4, <1>6, <1>7 DEF BallotsOK, OneBallotPerVoter
  <2>2. \A b \in ballots' : b.dek = CastDek(cfg')
    BY <1>1, <1>6, <1>8 DEF BallotsOK
  <2>3. \A b \in ballots : b.id \in Requests
    BY DEF TypeInv, TypeOK, Ballots
  <2>4. cfg'.count = 0 => \A b \in ballots' : pc'[b.id] = "count"
    BY <1>1, <1>4, <1>5, <1>6, <2>3 DEF BallotsOK
  <2> QED  BY <2>1, <2>2, <2>4 DEF BallotsOK, CastDek
<1>12. ResultOK'
  BY <1>1, <1>6, <1>7 DEF ResultOK, Closed
<1>13. ASSUME NEW q \in Requests
       PROVE  CasterOf(q)' /\ SaverOf(q)' /\ TallierOf(q)'
  <2>1. SaverOf(q)' /\ TallierOf(q)'
    BY <1>9 DEF SaverOf, TallierOf, TallyPCs, ChairPCs
  <2>2. CASE q = r
    BY <2>1, <1>1, <1>3, <1>5, <1>7, <2>2 DEF CasterOf, SameTerms, TermsOf, CastPCs
  <2>3. CASE q # r
    <3>1. CasterOf(q) /\ pc'[q] = pc[q] /\ mem'[q] = mem[q]
      BY <1>5, <2>3 DEF OrderInv
    <3>2. pc[q] \in CastPCs => mem[q].user # mem[r].user
      BY <1>7, <2>3
    <3>3. pc[q] \in CastPCs =>
            \A p \in Requests : pc'[p] \in CastPCs /\ mem'[p].user = mem[q].user => p = q
      <4> SUFFICES ASSUME pc[q] \in CastPCs, NEW p \in Requests, pc'[p] \in CastPCs,
                          mem'[p].user = mem[q].user
                   PROVE  p = q
        OBVIOUS
      <4>1. p # r
        BY <1>3, <1>5, <3>2
      <4> QED  BY <1>5, <3>1, <4>1 DEF CasterOf
    <3>4. pc[q] \in {"proxies", "insert"} => \A b \in ballots' : b.voter # mem[q].user
      BY <1>1, <1>4, <3>1, <3>2 DEF CasterOf, CastPCs
    <3> QED  BY <2>1, <1>1, <3>1, <3>3, <3>4 DEF CasterOf, SameTerms, TermsOf
  <2> QED  BY <2>1, <2>2, <2>3
<1> QED  BY <1>10, <1>11, <1>12, <1>13 DEF OrderInv, Disciplined

\* The copy saved after the insertion says what the scrutin says, but for the
\* counter, which it does not bring back to zero.
LEMMA CastCountOrder ==
  ASSUME TypeInv, OrderInv, NEW r \in Requests, CastCount(r)
  PROVE  OrderInv'
<1>1. /\ pc[r] = "count" /\ Finish(r) /\ cfg' = mem[r].doc /\ UNCHANGED <<ballots, result>>
  BY DEF CastCount
<1>2. /\ pc'[r] = "done"
      /\ \A q \in Requests : q # r => pc'[q] = pc[q] /\ mem'[q] = mem[q]
  BY <1>1 DEF Finish, TypeInv, TypeOK
<1>3. Alone /\ CasterOf(r) /\ BallotsOK /\ ResultOK
  BY DEF OrderInv
<1>4. /\ cfg.status = "OUVERT" /\ cfg'.status = "OUVERT" /\ cfg'.count # 0
      /\ TermsOf(cfg') = TermsOf(cfg)
  BY <1>1, <1>3 DEF CasterOf, CastPCs, SameTerms
<1>5. cfg'.secret = cfg.secret /\ cfg'.dek = cfg.dek /\ cfg'.rule = cfg.rule
  BY <1>4 DEF TermsOf
<1>6. \A q \in Requests : pc'[q] \notin ChairPCs
  BY <1>1, <1>2, <1>3, WhoIsAlone DEF CastPCs, ChairPCs
<1>7. Alone'
  BY <1>6 DEF Alone
<1>8. BallotsOK'
  BY <1>1, <1>3, <1>4, <1>5 DEF BallotsOK, OneBallotPerVoter, CastDek
<1>9. ResultOK'
  BY <1>1, <1>3, <1>4 DEF ResultOK, Closed
<1>10. ASSUME NEW q \in Requests
       PROVE  CasterOf(q)' /\ SaverOf(q)' /\ TallierOf(q)'
  <2>1. SaverOf(q)' /\ TallierOf(q)'
    BY <1>6 DEF SaverOf, TallierOf, TallyPCs, ChairPCs
  <2>2. CASE q = r
    BY <2>1, <1>2, <2>2 DEF CasterOf, CastPCs
  <2>3. CASE q # r
    <3>1. CasterOf(q) /\ pc'[q] = pc[q] /\ mem'[q] = mem[q]
      BY <1>2, <2>3 DEF OrderInv
    <3>2. pc[q] \in CastPCs =>
            \A p \in Requests : pc'[p] \in CastPCs /\ mem'[p].user = mem[q].user => p = q
      BY <1>2, <3>1 DEF CasterOf, CastPCs
    <3> QED  BY <2>1, <1>1, <1>4, <3>1, <3>2 DEF CasterOf, SameTerms, TermsOf
  <2> QED  BY <2>1, <2>2, <2>3
<1> QED  BY <1>7, <1>8, <1>9, <1>10 DEF OrderInv, Disciplined

\* The greffier's request starts when nothing else is in flight.
LEMMA ChairStarts ==
  ASSUME TypeInv, OrderInv, NEW r \in Requests, NEW label \in ChairPCs, NEW m,
         pc[r] = "idle", ChairMayStart, Await(r, label, m),
         UNCHANGED <<cfg, ballots, result>>,
         SaverOf(r)', TallierOf(r)'
  PROVE  OrderInv'
<1>1. /\ pc'[r] = label /\ mem'[r] = m
      /\ \A q \in Requests : q # r => pc'[q] = pc[q] /\ mem'[q] = mem[q]
  BY DEF Await, TypeInv, TypeOK
<1>2. NothingInFlight
  BY DEF ChairMayStart, OrderInv, Disciplined
<1>3. Alone'
  BY <1>1, <1>2, AloneKept DEF OrderInv
<1>4. CasterOf(r)'
  BY <1>1 DEF CasterOf, ChairPCs, CastPCs
<1>5. pc[r] # "count" /\ pc[r] \notin TallyPCs
  BY DEF TallyPCs
<1> QED  BY <1>1, <1>3, <1>4, <1>5, QuietOrder

\* It goes on alone.
LEMMA ChairGoesOn ==
  ASSUME TypeInv, OrderInv, NEW r \in Requests, NEW label \in ChairPCs, NEW m,
         pc[r] \in ChairPCs, Await(r, label, m), UNCHANGED <<cfg, ballots, result>>,
         pc[r] \in TallyPCs => label \in TallyPCs,
         SaverOf(r)', TallierOf(r)'
  PROVE  OrderInv'
<1>1. /\ pc'[r] = label /\ mem'[r] = m
      /\ \A q \in Requests : q # r => pc'[q] = pc[q] /\ mem'[q] = mem[q]
  BY DEF Await, TypeInv, TypeOK
<1>2. Alone'
  BY <1>1, AloneKept DEF OrderInv
<1>3. CasterOf(r)'
  BY <1>1 DEF CasterOf, ChairPCs, CastPCs
<1>4. pc[r] # "count"
  BY DEF ChairPCs
<1> QED  BY <1>1, <1>2, <1>3, <1>4, QuietOrder

\* VoteService's operations decide on the scrutin as it stands.
LEMMA LoadToSaveOrder ==
  ASSUME TypeInv, OrderInv, NEW r \in Requests, NEW d,
         pc[r] = "idle", ChairMayStart, Await(r, "save", [Blank EXCEPT !.doc = d]),
         UNCHANGED <<cfg, ballots, result>>,
         d.count = cfg.count,
         \/ d.status \in Transitions[cfg.status] /\ SameTerms(d)
         \/ /\ d.status = cfg.status /\ cfg.status \in Changeable
            /\ SameTerms(d) \/ ballots = {}
  PROVE  OrderInv'
<1> DEFINE m == [Blank EXCEPT !.doc = d]
<1>1. m.doc = d /\ Await(r, "save", m)
  BY DEF Blank
<1> HIDE DEF m
<1>2. pc'[r] = "save" /\ mem'[r] = m
  BY <1>1 DEF Await, TypeInv, TypeOK
<1>3. SaverOf(r)'
  BY <1>1, <1>2 DEF SaverOf, SameTerms, TermsOf
<1>4. TallierOf(r)'
  BY <1>2 DEF TallierOf, TallyPCs
<1> QED  BY <1>1, <1>3, <1>4, ChairStarts DEF ChairPCs

LEMMA TransitionOrder ==
  ASSUME TypeInv, OrderInv, NEW r \in Requests, NEW target \in Targets,
         TransitionLoad(r, target)
  PROVE  OrderInv'
<1> DEFINE d == [cfg EXCEPT !.status = target]
<1>1. d.count = cfg.count /\ d.status = target /\ SameTerms(d)
  BY DEF SameTerms, TermsOf, TypeInv, TypeOK, Configs
<1>2. /\ pc[r] = "idle" /\ ChairMayStart /\ target \in Transitions[cfg.status]
      /\ Await(r, "save", [Blank EXCEPT !.doc = d]) /\ UNCHANGED <<cfg, ballots, result>>
  BY DEF TransitionLoad
<1> HIDE DEF d
<1> QED  BY <1>1, <1>2, LoadToSaveOrder

\* A counter at zero with nothing in flight means that there is no ballot.
LEMMA ChangeTypeOrder ==
  ASSUME TypeInv, OrderInv, NEW r \in Requests, NEW rule \in Rules, NEW secret \in BOOLEAN,
         ChangeTypeLoad(r, rule, secret)
  PROVE  OrderInv'
<1> DEFINE d == Retyped(cfg, r, rule, secret)
<1>1. d.count = cfg.count /\ d.status = cfg.status
  BY DEF Retyped, TypeInv, TypeOK, Configs
<1>2. /\ pc[r] = "idle" /\ ChairMayStart /\ cfg.count = 0 /\ cfg.status \in Changeable
      /\ Await(r, "save", [Blank EXCEPT !.doc = d]) /\ UNCHANGED <<cfg, ballots, result>>
  BY DEF ChangeTypeLoad, Changeable
<1> HIDE DEF d
<1>3. \A b \in ballots : b.id \in Requests /\ pc[b.id] = "count"
  BY <1>2 DEF OrderInv, BallotsOK, TypeInv, TypeOK, Ballots
<1>4. ballots = {}
  BY <1>2, <1>3 DEF ChairMayStart, NothingInFlight, InFlight, CastPCs, OrderInv, Disciplined
<1> QED  BY <1>1, <1>2, <1>4, LoadToSaveOrder

LEMMA PatchOrder ==
  ASSUME TypeInv, OrderInv, NEW r \in Requests, NEW proxies \in BOOLEAN,
         PatchLoad(r, proxies)
  PROVE  OrderInv'
<1> DEFINE d == [cfg EXCEPT !.proxies = proxies]
<1>1. d.count = cfg.count /\ d.status = cfg.status /\ SameTerms(d)
  BY DEF SameTerms, TermsOf, TypeInv, TypeOK, Configs
<1>2. /\ pc[r] = "idle" /\ ChairMayStart /\ cfg.status \in Changeable
      /\ Await(r, "save", [Blank EXCEPT !.doc = d]) /\ UNCHANGED <<cfg, ballots, result>>
  BY DEF PatchLoad, Changeable
<1> HIDE DEF d
<1> QED  BY <1>1, <1>2, LoadToSaveOrder

\* Which statuses lead where.
LEMMA TransitionsOf ==
  ASSUME NEW s \in Statuses, NEW t \in Transitions[s]
  PROVE  /\ t \in Statuses
         /\ s \in Closed => s = "CLOS" /\ t \in Closed
         /\ t \in {"VALIDE", "ANNULE"} => s = "CLOS"
<1>1. s \in {"PROJET", "OUVERT", "SUSPENDU", "CLOS", "VALIDE", "ANNULE"}
  BY DEF Statuses
<1> QED  BY <1>1 DEF Transitions, Statuses, Closed

\* The copy is saved: no cast is in flight to lose its ballot, and no tally.
LEMMA SaveOrder ==
  ASSUME TypeInv, OrderInv, NEW r \in Requests, Save(r)
  PROVE  OrderInv'
<1> DEFINE d == mem[r].doc
<1>1. /\ pc[r] = "save" /\ cfg' = d /\ UNCHANGED <<ballots, result>>
      /\ IF d.status = "CLOS" THEN Await(r, "tally", Blank) ELSE Finish(r)
  BY DEF Save
<1>2. d \in Configs /\ cfg \in Configs
  BY <1>1 DEF TypeInv, TypeOK, Loaded, Holding
<1>3. /\ d.count = cfg.count
      /\ \/ d.status \in Transitions[cfg.status] /\ SameTerms(d)
         \/ /\ d.status = cfg.status /\ cfg.status \in Changeable
            /\ SameTerms(d) \/ ballots = {}
  BY <1>1 DEF OrderInv, SaverOf
<1> HIDE DEF d
<1>4. /\ pc'[r] = (IF d.status = "CLOS" THEN "tally" ELSE "done")
      /\ \A q \in Requests : q # r => pc'[q] = pc[q] /\ mem'[q] = mem[q]
  BY <1>1 DEF Await, Finish, TypeInv, TypeOK
<1>5. /\ Alone /\ BallotsOK /\ ResultOK
      /\ \A q \in Requests : q # r => pc[q] \notin InFlight
  BY <1>1, WhoIsAlone DEF OrderInv, ChairPCs
<1>6. Alone'
  BY <1>4, <1>5 DEF Alone, ChairPCs, InFlight
<1>7. SameTerms(d) => cfg'.secret = cfg.secret /\ cfg'.dek = cfg.dek /\ cfg'.rule = cfg.rule
  BY <1>1 DEF SameTerms, TermsOf
<1>8. cfg.count = 0 => ballots = {}
  <2>1. \A b \in ballots : b.id \in Requests
    BY DEF TypeInv, TypeOK, Ballots
  <2> QED  BY <1>1, <1>5, <2>1 DEF BallotsOK, InFlight, CastPCs
<1>9. BallotsOK'
  <2>1. SameTerms(d) \/ ballots = {}
    BY <1>3
  <2>2. \A b \in ballots : b.dek = CastDek(cfg')
    BY <1>5, <1>7, <2>1 DEF BallotsOK, CastDek
  <2> QED  BY <1>1, <1>3, <1>5, <1>8, <2>2 DEF BallotsOK, OneBallotPerVoter, CastDek
<1>10. ResultOK'
  <2>1. cfg.status \in Closed => d.status \in Closed
    BY <1>2, <1>3, TransitionsOf DEF Configs, Closed, Changeable
  <2>2. CASE d.status = "CLOS"
    <3>1. pc'[r] \in TallyPCs /\ cfg'.status \in Closed
      BY <1>1, <1>4, <2>2 DEF TallyPCs, Closed
    <3> QED  BY <3>1 DEF ResultOK
  <2>3. CASE d.status \in {"VALIDE", "ANNULE"}
    <3>1. cfg.status = "CLOS" /\ SameTerms(d)
      BY <1>2, <1>3, <2>3, TransitionsOf DEF Configs, Changeable
    <3>2. \A q \in Requests : pc[q] \notin TallyPCs
      BY <1>1, <1>5 DEF TallyPCs, InFlight, ChairPCs
    <3>3. result = Due
      BY <1>5, <3>1, <3>2 DEF ResultOK, Closed
    <3>4. Due' = Due /\ result' = result /\ cfg'.status \in Closed
      BY <1>1, <1>7, <2>3, <3>1 DEF Due, Ids, Closed
    <3> QED  BY <3>3, <3>4 DEF ResultOK
  <2>4. CASE d.status \notin Closed
    BY <1>1, <1>5, <2>1, <2>4 DEF ResultOK
  <2> QED  BY <2>2, <2>3, <2>4 DEF Closed
<1>11. ASSUME NEW q \in Requests
       PROVE  CasterOf(q)' /\ SaverOf(q)' /\ TallierOf(q)'
  <2>1. CASE q = r
    BY <1>1, <1>4, <2>1 DEF CasterOf, SaverOf, TallierOf, TallyPCs, CastPCs, Closed
  <2>2. CASE q # r
    <3>1. pc'[q] \notin InFlight
      BY <1>4, <1>5, <2>2
    <3> QED  BY <3>1 DEF CasterOf, SaverOf, TallierOf, InFlight, TallyPCs, CastPCs, ChairPCs
  <2> QED  BY <2>1, <2>2
<1> QED  BY <1>6, <1>9, <1>10, <1>11 DEF OrderInv, Disciplined

\* TallyService.compute reads a scrutin nobody writes.
LEMMA CloseAgainOrder ==
  ASSUME TypeInv, OrderInv, NEW r \in Requests, CloseAgain(r)
  PROVE  OrderInv'
<1>1. /\ pc[r] = "idle" /\ ChairMayStart /\ Await(r, "tally", Blank)
      /\ UNCHANGED <<cfg, ballots, result>> /\ cfg.status = "CLOS"
  BY DEF CloseAgain
<1>2. pc'[r] = "tally"
  BY <1>1 DEF Await, TypeInv, TypeOK
<1>3. SaverOf(r)' /\ TallierOf(r)'
  BY <1>1, <1>2 DEF SaverOf, TallierOf, Closed
<1> QED  BY <1>1, <1>3, ChairStarts DEF ChairPCs

LEMMA TallyLoadOrder ==
  ASSUME TypeInv, OrderInv, NEW r \in Requests, TallyLoad(r)
  PROVE  OrderInv'
<1> DEFINE m == [Blank EXCEPT !.doc = cfg]
<1>1. pc[r] = "tally" /\ Await(r, "sum", m) /\ UNCHANGED <<cfg, ballots, result>>
  BY DEF TallyLoad
<1>2. m.doc = cfg
  BY DEF Blank
<1> HIDE DEF m
<1>3. pc'[r] = "sum" /\ mem'[r] = m
  BY <1>1 DEF Await, TypeInv, TypeOK
<1>4. TallierOf(r)
  BY DEF OrderInv
<1>5. SaverOf(r)' /\ TallierOf(r)'
  BY <1>1, <1>2, <1>3, <1>4 DEF SaverOf, TallierOf, TallyPCs
<1> QED  BY <1>1, <1>5, ChairGoesOn DEF ChairPCs, TallyPCs

LEMMA TallySumOrder ==
  ASSUME TypeInv, OrderInv, NEW r \in Requests, TallySum(r)
  PROVE  OrderInv'
<1> DEFINE m == [mem[r] EXCEPT !.rows = {b.id : b \in ballots}]
<1>1. pc[r] = "sum" /\ Await(r, "find", m) /\ UNCHANGED <<cfg, ballots, result>>
  BY DEF TallySum
<1>2. m.doc = mem[r].doc /\ m.rows = Ids
  BY DEF TypeInv, TypeOK, Memory, Ids
<1> HIDE DEF m
<1>3. pc'[r] = "find" /\ mem'[r] = m
  BY <1>1 DEF Await, TypeInv, TypeOK
<1>4. TallierOf(r) /\ Ids' = Ids
  BY <1>1 DEF OrderInv, Ids
<1>5. SaverOf(r)' /\ TallierOf(r)'
  BY <1>1, <1>2, <1>3, <1>4 DEF SaverOf, TallierOf, TallyPCs
<1> QED  BY <1>1, <1>5, ChairGoesOn DEF ChairPCs, TallyPCs

LEMMA TallyFindOrder ==
  ASSUME TypeInv, OrderInv, NEW r \in Requests, TallyFind(r)
  PROVE  OrderInv'
<1> DEFINE m == [mem[r] EXCEPT !.res = result]
<1>1. pc[r] = "find" /\ Await(r, "write", m) /\ UNCHANGED <<cfg, ballots, result>>
  BY DEF TallyFind
<1>2. m.doc = mem[r].doc /\ m.rows = mem[r].rows /\ m.res = result
  BY DEF TypeInv, TypeOK, Memory
<1> HIDE DEF m
<1>3. pc'[r] = "write" /\ mem'[r] = m
  BY <1>1 DEF Await, TypeInv, TypeOK
<1>4. TallierOf(r) /\ Ids' = Ids
  BY <1>1 DEF OrderInv, Ids
<1>5. SaverOf(r)' /\ TallierOf(r)'
  BY <1>1, <1>2, <1>3, <1>4 DEF SaverOf, TallierOf, TallyPCs
<1> QED  BY <1>1, <1>5, ChairGoesOn DEF ChairPCs, TallyPCs

\* What the tally writes is what is due.
LEMMA TallyWritesDue ==
  ASSUME OrderInv, NEW r \in Requests, TallyWrite(r)
  PROVE  cfg.status \in Closed /\ result' = Due
<1>1. /\ pc[r] = "write"
      /\ result' = IF mem[r].res = NoResult /\ result # NoResult
                   THEN result
                   ELSE [rule |-> mem[r].doc.rule, ballots |-> mem[r].rows]
  BY DEF TallyWrite
<1>2. TallierOf(r)
  BY DEF OrderInv
<1>3. /\ cfg.status \in Closed /\ mem[r].doc = cfg /\ mem[r].rows = Ids
      /\ mem[r].res = result
  BY <1>1, <1>2 DEF TallierOf, TallyPCs
<1> QED  BY <1>1, <1>3 DEF Due

\* A step of the greffier's that ends its request and writes at most the result.
LEMMA ChairEnds ==
  ASSUME TypeInv, OrderInv, NEW r \in Requests, pc[r] \in ChairPCs, Finish(r),
         UNCHANGED <<cfg, ballots>>,
         \/ result' = Due /\ cfg.status \in Closed
         \/ result' = result /\ pc[r] \notin TallyPCs
  PROVE  OrderInv'
<1>1. /\ pc'[r] = "done"
      /\ \A q \in Requests : q # r => pc'[q] = pc[q] /\ mem'[q] = mem[q]
  BY DEF Finish, TypeInv, TypeOK
<1>2. /\ Alone /\ BallotsOK /\ ResultOK
      /\ \A q \in Requests : q # r => pc[q] \notin InFlight
  BY WhoIsAlone DEF OrderInv
<1>3. Alone'
  BY <1>1, <1>2 DEF Alone, ChairPCs, InFlight
<1>4. BallotsOK'
  <2>1. \A b \in ballots : b.id \in Requests
    BY DEF TypeInv, TypeOK, Ballots
  <2> QED  BY <1>1, <1>2, <2>1 DEF BallotsOK, OneBallotPerVoter, CastDek, ChairPCs
<1>5. ResultOK'
  <2>1. Due' = Due
    BY DEF Due, Ids
  <2>2. CASE result' = result /\ pc[r] \notin TallyPCs
    BY <1>1, <1>2, <2>1, <2>2 DEF ResultOK
  <2> QED  BY <2>1, <2>2 DEF ResultOK
<1>6. ASSUME NEW q \in Requests
       PROVE  CasterOf(q)' /\ SaverOf(q)' /\ TallierOf(q)'
  <2>1. pc'[q] \notin InFlight
    BY <1>1, <1>2 DEF InFlight, ChairPCs, CastPCs
  <2> QED  BY <2>1 DEF CasterOf, SaverOf, TallierOf, InFlight, TallyPCs, CastPCs, ChairPCs
<1> QED  BY <1>3, <1>4, <1>5, <1>6 DEF OrderInv, Disciplined

LEMMA ManualOrder ==
  ASSUME TypeInv, OrderInv, NEW r \in Requests, ManualLoad(r) \/ ManualSave(r)
  PROVE  OrderInv'
<1>1. CASE ManualLoad(r)
  <2> DEFINE m == [Blank EXCEPT !.res = result]
  <2>1. /\ pc[r] = "idle" /\ ChairMayStart /\ Await(r, "manual", m)
        /\ UNCHANGED <<cfg, ballots, result>>
    BY <1>1 DEF ManualLoad
  <2>2. m.res = result
    BY DEF Blank
  <2> HIDE DEF m
  <2>3. pc'[r] = "manual" /\ mem'[r] = m
    BY <2>1 DEF Await, TypeInv, TypeOK
  <2>4. SaverOf(r)' /\ TallierOf(r)'
    BY <2>1, <2>2, <2>3 DEF SaverOf, TallierOf, TallyPCs
  <2> QED  BY <2>1, <2>4, ChairStarts DEF ChairPCs
<1>2. CASE ManualSave(r)
  <2>1. /\ pc[r] = "manual" /\ result' = mem[r].res /\ Finish(r)
        /\ UNCHANGED <<cfg, ballots>>
    BY <1>2 DEF ManualSave
  <2>2. mem[r].res = result
    BY <2>1 DEF OrderInv, TallierOf
  <2> QED  BY <2>1, <2>2, ChairEnds DEF ChairPCs, TallyPCs
<1> QED  BY <1>1, <1>2

LEMMA ExportOrder ==
  ASSUME TypeInv, OrderInv, NEW r \in Requests, ExportLoad(r) \/ ExportFind(r)
  PROVE  OrderInv'
<1>1. CASE ExportLoad(r)
  <2>1. /\ pc[r] = "idle" /\ ChairMayStart /\ Await(r, "export", Blank)
        /\ UNCHANGED <<cfg, ballots, result>> /\ cfg.status \in Closed
    BY <1>1 DEF ExportLoad, Closed
  <2>2. pc'[r] = "export"
    BY <2>1 DEF Await, TypeInv, TypeOK
  <2>3. SaverOf(r)' /\ TallierOf(r)'
    BY <2>1, <2>2 DEF SaverOf, TallierOf
  <2> QED  BY <2>1, <2>3, ChairStarts DEF ChairPCs
<1>2. CASE ExportFind(r) /\ Finish(r)
  BY <1>2, FinishOrder DEF ExportFind, TallyPCs
<1>3. CASE ExportFind(r) /\ ~ Finish(r)
  <2>1. /\ pc[r] = "export" /\ Await(r, "tally", Blank) /\ UNCHANGED <<cfg, ballots, result>>
    BY <1>3 DEF ExportFind
  <2>2. pc'[r] = "tally"
    BY <2>1 DEF Await, TypeInv, TypeOK
  <2>3. TallierOf(r)
    BY DEF OrderInv
  <2>4. SaverOf(r)' /\ TallierOf(r)'
    BY <2>1, <2>2, <2>3 DEF SaverOf, TallierOf, TallyPCs
  <2> QED  BY <2>1, <2>4, ChairGoesOn DEF ChairPCs, TallyPCs
<1> QED  BY <1>1, <1>2, <1>3

\* The proxies' steps write rows the scrutin reads, and nothing of its own.
LEMMA ProxyOrder ==
  ASSUME TypeInv, OrderInv, NEW r \in Requests, Proxy(r)
  PROVE  OrderInv'
<1>1. UNCHANGED <<cfg, ballots, result>>
  BY DEF Proxy, AssignCheck, AssignInsert, Revoke
<1>2. ASSUME NEW granter \in Voters, AssignCheck(r, granter)
      PROVE  OrderInv'
  <2>1. /\ pc[r] = "idle" /\ pc'[r] = "assign" /\ NoChairInFlight
        /\ \A q \in Requests : q # r => pc'[q] = pc[q] /\ mem'[q] = mem[q]
    BY <1>2 DEF AssignCheck, GranterMayStart, OrderInv, Disciplined, Await, TypeInv, TypeOK
  <2>2. Alone'
    BY <2>1, AloneKept DEF OrderInv, ChairPCs
  <2>3. CasterOf(r)' /\ SaverOf(r)' /\ TallierOf(r)'
    BY <2>1 DEF CasterOf, SaverOf, TallierOf, TallyPCs, CastPCs
  <2> QED  BY <1>1, <2>1, <2>2, <2>3, QuietOrder DEF TallyPCs
<1>3. ASSUME NEW holder \in Voters, AssignInsert(r, holder)
      PROVE  OrderInv'
  BY <1>1, <1>3, FinishOrder DEF AssignInsert, TallyPCs
<1>4. ASSUME NEW p \in pouvoirs, Revoke(r, p)
      PROVE  OrderInv'
  BY <1>1, <1>4, FinishOrder DEF Revoke, TallyPCs
<1> QED  BY <1>2, <1>3, <1>4 DEF Proxy

LEMMA InitOrder == Disciplined /\ Init => OrderInv
  BY DEF Init, OrderInv, Alone, BallotsOK, ResultOK, OneBallotPerVoter, CasterOf, SaverOf,
         TallierOf, TallyPCs, CastPCs, ChairPCs, Closed

LEMMA NextOrder == TypeInv /\ OrderInv /\ [Next]_vars => OrderInv'
<1> SUFFICES ASSUME TypeInv, OrderInv, [Next]_vars PROVE OrderInv'
  OBVIOUS
<1>1. ASSUME NEW r \in Requests, Cast(r)
      PROVE  OrderInv'
  BY <1>1, CastLoadOrder, CastCheckOrder, CastProxiesOrder, CastInsertOrder, CastCountOrder
  DEF Cast
<1>2. ASSUME NEW r \in Requests, TallyWrite(r)
      PROVE  OrderInv'
  <2>1. cfg.status \in Closed /\ result' = Due
    BY <1>2, TallyWritesDue
  <2>2. pc[r] = "write" /\ Finish(r) /\ UNCHANGED <<cfg, ballots>>
    BY <1>2 DEF TallyWrite
  <2> QED  BY <2>1, <2>2, ChairEnds DEF ChairPCs
<1>3. ASSUME NEW r \in Requests, Chair(r)
      PROVE  OrderInv'
  BY <1>2, <1>3, TransitionOrder, CloseAgainOrder, ChangeTypeOrder, PatchOrder, SaveOrder,
     TallyLoadOrder, TallySumOrder, TallyFindOrder, ManualOrder, ExportOrder
  DEF Chair
<1>4. ASSUME NEW r \in Requests, Proxy(r)
      PROVE  OrderInv'
  BY <1>4, ProxyOrder
<1>5. ASSUME NEW r \in Requests, Crash(r)
      PROVE  OrderInv'
  <2>1. pc[r] # "count" /\ pc[r] \notin TallyPCs
    BY <1>5 DEF Crash, OrderInv, Disciplined, Lethal
  <2> QED  BY <1>5, <2>1, FinishOrder DEF Crash
<1>6. CASE UNCHANGED vars
  <2> USE <1>6 DEF vars
  <2>1. Alone' /\ BallotsOK' /\ ResultOK'
    BY DEF OrderInv, Alone, BallotsOK, OneBallotPerVoter, CastDek, ResultOK, Due, Ids
  <2>2. ASSUME NEW q \in Requests PROVE CasterOf(q)' /\ SaverOf(q)' /\ TallierOf(q)'
    BY DEF OrderInv, CasterOf, SaverOf, TallierOf, SameTerms, TermsOf, Ids
  <2> QED  BY <2>1, <2>2 DEF OrderInv, Disciplined
<1> QED  BY <1>1, <1>3, <1>4, <1>5, <1>6 DEF Next

\* How a step may change the scrutin: it moves the status, or it changes the
\* terms before there is a ballot, or it touches neither.
LEMMA StepOfScrutin ==
  ASSUME TypeInv, OrderInv, [Next]_vars
  PROVE  \/ /\ cfg'.status \in Transitions[cfg.status] /\ TermsOf(cfg') = TermsOf(cfg)
            /\ UNCHANGED <<ballots, result>>
         \/ /\ cfg'.status = cfg.status /\ cfg.status \in Changeable /\ ballots = {}
            /\ UNCHANGED <<ballots, result>>
         \/ cfg'.status = cfg.status /\ TermsOf(cfg') = TermsOf(cfg)
<1>1. ASSUME NEW r \in Requests, CastCount(r)
      PROVE  cfg'.status = cfg.status /\ TermsOf(cfg') = TermsOf(cfg)
  BY <1>1 DEF CastCount, OrderInv, CasterOf, CastPCs, SameTerms
<1>2. ASSUME NEW r \in Requests, Save(r)
      PROVE  \/ /\ cfg'.status \in Transitions[cfg.status] /\ TermsOf(cfg') = TermsOf(cfg)
                /\ UNCHANGED <<ballots, result>>
             \/ /\ cfg'.status = cfg.status /\ cfg.status \in Changeable /\ ballots = {}
                /\ UNCHANGED <<ballots, result>>
             \/ cfg'.status = cfg.status /\ TermsOf(cfg') = TermsOf(cfg)
  BY <1>2 DEF Save, OrderInv, SaverOf, SameTerms
<1>3. ASSUME UNCHANGED cfg
      PROVE  cfg'.status = cfg.status /\ TermsOf(cfg') = TermsOf(cfg)
  BY <1>3
<1>4. \/ \E r \in Requests : CastCount(r)
      \/ \E r \in Requests : Save(r)
      \/ UNCHANGED cfg
  BY DEF Next, Cast, Chair, Proxy, vars, CastLoad, CastCheck, CastProxies, CastInsert,
         TransitionLoad, CloseAgain, ChangeTypeLoad, PatchLoad, TallyLoad, TallySum,
         TallyFind, TallyWrite, ManualLoad, ManualSave, ExportLoad, ExportFind,
         AssignCheck, AssignInsert, Revoke, Crash
<1> QED  BY <1>1, <1>2, <1>3, <1>4

LEMMA DisciplineHolds ==
  /\ Disciplined /\ Init => TypeInv /\ OrderInv
  /\ TypeInv /\ OrderInv /\ [Next]_vars => (TypeInv /\ OrderInv)'
  BY InitTypeInv, InitOrder, NextTypeInv, NextOrder

\* "Reject duplicate ballots" (ballot_service.py:7) is kept: with one cast per
\* sénateur in flight, and the greffier's requests apart from the casts, no
\* sénateur has two ballots on the scrutin.
THEOREM NobodyVotesTwice == Disciplined => (Spec => []OneBallotPerVoter)
<1>1. TypeInv /\ OrderInv => OneBallotPerVoter
  BY DEF OrderInv, BallotsOK
<1> QED  BY <1>1, DisciplineHolds, PTL DEF Spec

\* A closed scrutin at rest has a result that counts every ballot by the rule in
\* force (vote_service.py:92-97, vote_result_model.py:45): no tally is left out,
\* overtaken or drawn from a stale configuration.
THEOREM ClosedIsFullyCounted == Disciplined => (Spec => []TallyComplete)
<1>1. TypeInv /\ OrderInv => TallyComplete
  BY DEF OrderInv, ResultOK, TallyComplete, NothingInFlight, InFlight, ChairPCs, TallyPCs,
         Closed, Due, Ids
<1> QED  BY <1>1, DisciplineHolds, PTL DEF Spec

\* "After even one ballot exists, the type, secrecy, and majority are FROZEN"
\* (vote_service.py:5) is kept, although the code consults a counter that stale
\* copies overwrite: the counter is not back at zero before the cast ends.
THEOREM FrozenOnceVoted == Disciplined => (Spec => FrozenAfterFirstBallot)
<1> DEFINE Frozen ==
      ballots # {} => /\ cfg'.rule = cfg.rule
                      /\ cfg'.secret = cfg.secret
                      /\ cfg'.dek = cfg.dek
<1>1. TypeInv /\ OrderInv /\ [Next]_vars => Frozen
  BY StepOfScrutin DEF TermsOf
<1>2. Disciplined /\ Init => TypeInv /\ OrderInv
  BY DisciplineHolds
<1>3. TypeInv /\ OrderInv /\ [Next]_vars => (TypeInv /\ OrderInv)'
  BY DisciplineHolds
<1>4. TypeInv /\ OrderInv /\ [Next]_vars => [Frozen]_vars
  BY <1>1
<1>5. Disciplined => (Spec => [][Frozen]_vars)
  BY <1>2, <1>3, <1>4, PTL DEF Spec
<1> QED  BY <1>5 DEF FrozenAfterFirstBallot

\* The stored status moves only along the life cycle (vote_enum.py:42-50): no
\* save of a stale copy opens a closed scrutin again.
THEOREM LifeCycleIsFollowed == Disciplined => (Spec => FollowsLifeCycle)
<1> DEFINE Along == cfg'.status # cfg.status => cfg'.status \in Transitions[cfg.status]
<1>1. TypeInv /\ OrderInv /\ [Next]_vars => Along
  BY StepOfScrutin
<1>2. Disciplined /\ Init => TypeInv /\ OrderInv
  BY DisciplineHolds
<1>3. TypeInv /\ OrderInv /\ [Next]_vars => (TypeInv /\ OrderInv)'
  BY DisciplineHolds
<1>4. TypeInv /\ OrderInv /\ [Next]_vars => [Along]_vars
  BY <1>1
<1>5. Disciplined => (Spec => [][Along]_vars)
  BY <1>2, <1>3, <1>4, PTL DEF Spec
<1> QED  BY <1>5 DEF FollowsLifeCycle

(***************************************************************************)
(* The refinement: under the discipline every step of the detailed scrutin *)
(* is one step of the promise, or none.                                    *)
(***************************************************************************)
LEMMA InitKeepsPromise == Disciplined /\ Init => Promise!PInit
<1> SUFFICES ASSUME Init PROVE Promise!PInit
  OBVIOUS
<1>1. TermsOf(cfg) \in {t \in [secret: BOOLEAN, dek: Deks, rule: Rules] :
                          t.secret <=> t.dek # NoDek}
  BY InitTypeInv, InitKeyInv DEF TypeInv, TypeOK, Configs, KeyInv, Keyed, TermsOf
<1>2. cfg.status = "PROJET" /\ ballots = {} /\ result = NoResult
  BY DEF Init
<1>3. {b.voter : b \in ballots} = {} /\ Cardinality(ballots) = 0 /\ Counted = NoResult
  BY <1>2, FS_EmptySet DEF Counted
<1> QED  BY <1>1, <1>2, <1>3 DEF Promise!PInit

\* Nothing the promise is about moved.
LEMMA PromiseStutters ==
  ASSUME cfg'.status = cfg.status, TermsOf(cfg') = TermsOf(cfg),
         UNCHANGED <<ballots, result>>
  PROVE  UNCHANGED Promise!pvars
<1>1. Counted' = Counted
  BY DEF Counted
<1> QED  BY <1>1 DEF Promise!pvars

\* Before the scrutin is closed nothing is published.
LEMMA NothingPublished ==
  ASSUME ResultOK, cfg.status \notin Closed
  PROVE  result = NoResult /\ Counted = NoResult
  BY DEF ResultOK, Counted

\* A cast takes effect where its ballot is inserted.
LEMMA InsertIsAVote ==
  ASSUME TypeInv, CountInv, OrderInv, NEW r \in Requests, CastInsert(r)
  PROVE  Promise!PNext
<1> DEFINE new == CastBallot(r)
<1>1. pc[r] = "insert" /\ ballots' = ballots \union {new} /\ UNCHANGED <<cfg, result>>
  BY DEF CastInsert
<1>2. PICK v \in Voters : v = mem[r].user
  BY <1>1 DEF TypeInv, Loaded, CastPCs
<1>3. new.voter = v
  BY <1>2 DEF CastBallot
<1>4. cfg.status = "OUVERT" /\ \A b \in ballots : b.voter # v
  BY <1>1, <1>2 DEF OrderInv, CasterOf, CastPCs
<1> HIDE DEF new
<1>5. new \notin ballots
  BY <1>3, <1>4
<1>6. Cardinality(ballots') = Cardinality(ballots) + 1
  BY <1>1, <1>5, FS_AddElement DEF CountInv
<1>7. {b.voter : b \in ballots'} = {b.voter : b \in ballots} \union {v}
  BY <1>1, <1>3
<1>8. Counted = NoResult /\ Counted' = NoResult
  <2>1. result = NoResult
    BY <1>4, NothingPublished DEF OrderInv, Closed
  <2> QED  BY <1>1, <2>1 DEF Counted
<1>9. v \notin {b.voter : b \in ballots}
  BY <1>4
<1>10. Promise!Vote(v)
  BY <1>1, <1>4, <1>6, <1>7, <1>8, <1>9 DEF Promise!Vote
<1> QED  BY <1>2, <1>10 DEF Promise!PNext

\* A change of the scrutin takes effect where the document is saved.
LEMMA SaveKeepsPromise ==
  ASSUME TypeInv, KeyInv, CountInv, OrderInv, TypeInv', KeyInv',
         NEW r \in Requests, Save(r)
  PROVE  Promise!PNext \/ UNCHANGED Promise!pvars
<1> DEFINE PTerms == {t \in [secret: BOOLEAN, dek: Deks, rule: Rules] :
                        t.secret <=> t.dek # NoDek}
<1>1. UNCHANGED <<ballots, result>> /\ cfg' = mem[r].doc /\ pc[r] = "save"
  BY DEF Save
<1>2. cfg \in Configs /\ cfg' \in Configs /\ TermsOf(cfg') \in PTerms
  BY DEF TypeInv, TypeOK, KeyInv, Keyed, TermsOf, Configs
<1>3. UNCHANGED <<{b.voter : b \in ballots}, Cardinality(ballots)>>
  BY <1>1
<1>4. CASE cfg'.status \in Transitions[cfg.status] /\ TermsOf(cfg') = TermsOf(cfg)
  <2>1. cfg.status \in {"PROJET", "OUVERT", "SUSPENDU", "CLOS", "VALIDE", "ANNULE"}
    BY <1>2 DEF Configs, Statuses
  <2>2. <<cfg.status, cfg'.status>> \in Promise!LifeCycle
    BY <1>4, <2>1 DEF Promise!LifeCycle, Transitions
  <2>3. Counted' = Counted
    BY <1>1, <1>4 DEF Counted
  <2>4. Promise!Advance
    BY <1>1, <1>3, <1>4, <2>2, <2>3 DEF Promise!Advance
  <2> QED  BY <2>4 DEF Promise!PNext
<1>5. CASE /\ cfg'.status = cfg.status /\ cfg.status \in Changeable /\ ballots = {}
  <2>1. Cardinality(ballots) = 0
    BY <1>5, FS_EmptySet
  <2>2. Counted = NoResult /\ Counted' = NoResult
    <3>1. result = NoResult
      BY <1>5, NothingPublished DEF OrderInv, Closed, Changeable
    <3> QED  BY <1>1, <3>1 DEF Counted
  <2>3. Promise!Retype
    BY <1>2, <1>3, <1>5, <2>1, <2>2 DEF Promise!Retype, Changeable
  <2> QED  BY <2>3 DEF Promise!PNext
<1>6. CASE cfg'.status = cfg.status /\ TermsOf(cfg') = TermsOf(cfg)
  BY <1>1, <1>6, PromiseStutters
<1>7. SaverOf(r)
  BY DEF OrderInv
<1> QED  BY <1>1, <1>4, <1>5, <1>6, <1>7 DEF SaverOf, SameTerms

\* The result is published where its row is written.
LEMMA WriteIsAPublication ==
  ASSUME TypeInv, OrderInv, NEW r \in Requests, TallyWrite(r)
  PROVE  Promise!PNext
<1>1. cfg.status \in Closed /\ result' = Due /\ UNCHANGED <<cfg, ballots>>
  BY TallyWritesDue DEF TallyWrite
<1>2. Due \in Results
  BY DEF Due, Ids, Results, TypeInv, TypeOK, Configs, Ballots
<1>3. result' # NoResult
  BY <1>1, <1>2, SentinelAssumption
<1>4. {c \in ballots : c.id \in Ids} = ballots
  BY DEF Ids
<1>5. [TermsOf(cfg) EXCEPT !.rule = cfg.rule] = TermsOf(cfg)
  BY DEF TermsOf
<1>6. Counted' = [terms |-> TermsOf(cfg), counted |-> {b.voter : b \in ballots}]
  <2>1. result'.rule = cfg.rule /\ result'.ballots = Ids
    BY <1>1 DEF Due
  <2>2. Counted' = [terms   |-> [TermsOf(cfg) EXCEPT !.rule = cfg.rule],
                    counted |-> {b.voter : b \in {c \in ballots : c.id \in Ids}}]
    BY <1>1, <1>3, <2>1 DEF Counted
  <2> QED  BY <1>4, <1>5, <2>2
<1>7. Promise!Publish
  BY <1>1, <1>6 DEF Promise!Publish, Closed
<1> QED  BY <1>7 DEF Promise!PNext

LEMMA StepKeepsPromise ==
  ASSUME TypeInv, KeyInv, CountInv, OrderInv, TypeInv', KeyInv', [Next]_vars
  PROVE  [Promise!PNext]_(Promise!pvars)
<1>1. ASSUME NEW r \in Requests, CastCount(r)
      PROVE  UNCHANGED Promise!pvars
  BY <1>1, PromiseStutters DEF CastCount, OrderInv, CasterOf, CastPCs, SameTerms
<1>2. ASSUME NEW r \in Requests, ManualSave(r)
      PROVE  UNCHANGED Promise!pvars
  BY <1>2, PromiseStutters DEF ManualSave, OrderInv, TallierOf
<1>3. ASSUME UNCHANGED <<cfg, ballots, result>>
      PROVE  UNCHANGED Promise!pvars
  BY <1>3, PromiseStutters
<1>4. \/ \E r \in Requests : \/ CastInsert(r) \/ CastCount(r) \/ Save(r)
                             \/ TallyWrite(r) \/ ManualSave(r)
      \/ UNCHANGED <<cfg, ballots, result>>
  BY DEF Next, Cast, Chair, Proxy, vars, CastLoad, CastCheck, CastProxies,
         TransitionLoad, CloseAgain, ChangeTypeLoad, PatchLoad, TallyLoad, TallySum,
         TallyFind, ManualLoad, ExportLoad, ExportFind, AssignCheck, AssignInsert,
         Revoke, Crash
<1>5. Promise!PNext \/ UNCHANGED Promise!pvars
  BY <1>1, <1>2, <1>3, <1>4, InsertIsAVote, SaveKeepsPromise, WriteIsAPublication
<1> QED  BY <1>5

\* Under the discipline the scrutin, with its stale copies, its separate counter
\* and its tally after the closing save, behaves as if every operation were one
\* step of ScrutinPromise (ballot_service.py, vote_service.py, tally_service.py).
THEOREM ScrutinKeepsItsPromise == Disciplined => (Spec => KeepsPromise)
<1> DEFINE Inv == TypeInv /\ KeyInv /\ CountInv /\ OrderInv
<1>1. Disciplined /\ Init => Inv /\ Promise!PInit
  BY InitTypeInv, InitKeyInv, InitCountInv, InitOrder, InitKeepsPromise
<1>2. Inv /\ [Next]_vars => Inv'
  BY NextTypeInv, NextKeyInv, NextCountInv, NextOrder
<1>3. Inv /\ Inv' /\ [Next]_vars => [Promise!PNext]_(Promise!pvars)
  BY StepKeepsPromise
<1> HIDE DEF Inv
<1>4. Disciplined => (Spec => Promise!PInit /\ [][Promise!PNext]_(Promise!pvars))
  BY <1>1, <1>2, <1>3, PTL DEF Spec
<1> QED  BY <1>4 DEF KeepsPromise, Promise!PSpec

(***************************************************************************)
(* Without a change of type: the second ballot needs two casts of one      *)
(* sénateur in flight or a change of the key.  Where neither is asked for, *)
(* the greffier's requests may run at any time and workers may die: stale  *)
(* saves lose a count or reopen the scrutin, but all copies agree on the   *)
(* terms, so the check finds the ballot.                                   *)
(***************************************************************************)
Steadfast == VoterSerial /\ "change" \notin Ops

VoterOf(r) ==
  /\ pc[r] \in Holding => SameTerms(mem[r].doc)
  /\ pc[r] \in CastPCs =>
       \A q \in Requests : pc[q] \in CastPCs /\ mem[q].user = mem[r].user => q = r
  /\ pc[r] \in {"proxies", "insert"} => \A b \in ballots : b.voter # mem[r].user

SteadfastInv ==
  /\ Steadfast
  /\ OneBallotPerVoter
  /\ \A b \in ballots : b.dek = CastDek(cfg)
  /\ \A r \in Requests : VoterOf(r)

\* A step that inserts no ballot and leaves the terms alone.
LEMMA SteadfastStep ==
  ASSUME SteadfastInv, NEW r \in Requests,
         \A q \in Requests : q # r => pc'[q] = pc[q] /\ mem'[q] = mem[q],
         UNCHANGED ballots, TermsOf(cfg') = TermsOf(cfg),
         pc'[r] \in Holding => TermsOf(mem'[r].doc) = TermsOf(cfg),
         pc'[r] \in CastPCs =>
           \A q \in Requests : q # r /\ pc[q] \in CastPCs => mem[q].user # mem'[r].user,
         pc'[r] \in {"proxies", "insert"} => \A b \in ballots : b.voter # mem'[r].user
  PROVE  SteadfastInv'
<1>1. OneBallotPerVoter'
  BY DEF SteadfastInv, OneBallotPerVoter
<1>2. cfg'.secret = cfg.secret /\ cfg'.dek = cfg.dek
  BY DEF TermsOf
<1>3. \A b \in ballots' : b.dek = CastDek(cfg')
  BY <1>2 DEF SteadfastInv, CastDek
<1>4. ASSUME NEW q \in Requests
      PROVE  VoterOf(q)'
  <2>1. VoterOf(q) /\ VoterOf(r)
    BY DEF SteadfastInv
  <2>2. pc'[q] \in Holding => SameTerms(mem[q].doc)' \/ q = r
    <3> SUFFICES ASSUME q # r, pc'[q] \in Holding
                 PROVE  SameTerms(mem[q].doc)'
      OBVIOUS
    <3>1. SameTerms(mem[q].doc) /\ mem'[q] = mem[q]
      BY <2>1 DEF VoterOf
    <3> QED  BY <3>1 DEF SameTerms, TermsOf
  <2>3. pc'[r] \in Holding => SameTerms(mem[r].doc)'
    BY DEF SameTerms, TermsOf
  <2>4. ASSUME NEW p \in Requests, pc'[q] \in CastPCs, pc'[p] \in CastPCs,
               mem'[p].user = mem'[q].user
        PROVE  p = q
    <3>1. CASE q = r
      BY <2>4, <3>1
    <3>2. CASE q # r /\ p = r
      BY <2>4, <3>2
    <3>3. CASE q # r /\ p # r
      BY <2>1, <2>4, <3>3 DEF VoterOf
    <3> QED  BY <3>1, <3>2, <3>3
  <2>5. pc'[q] \in {"proxies", "insert"} => \A b \in ballots' : b.voter # mem'[q].user
    BY <2>1 DEF VoterOf
  <2> QED  BY <2>2, <2>3, <2>4, <2>5 DEF VoterOf
<1> QED  BY <1>1, <1>3, <1>4 DEF SteadfastInv, Steadfast

\* Who casts is where he was before, or has just passed the filter.
LEMMA NextSteadfastInv == TypeInv /\ SteadfastInv /\ [Next]_vars => SteadfastInv'
<1> SUFFICES ASSUME TypeInv, SteadfastInv, [Next]_vars PROVE SteadfastInv'
  OBVIOUS
<1>1. ASSUME NEW r \in Requests, NEW v \in Voters, CastLoad(r, v)
      PROVE  SteadfastInv'
  <2> DEFINE m == [Blank EXCEPT !.user = v, !.doc = cfg]
  <2>1. /\ Await(r, "check", m) /\ UNCHANGED <<cfg, ballots>>
        /\ \A q \in Requests : pc[q] \in CastPCs => mem[q].user # v
    BY <1>1 DEF CastLoad, VoterMayStart, SteadfastInv, Steadfast
  <2>2. m.user = v /\ m.doc = cfg
    BY DEF Blank
  <2> HIDE DEF m
  <2>3. /\ pc'[r] = "check" /\ mem'[r] = m
        /\ \A q \in Requests : q # r => pc'[q] = pc[q] /\ mem'[q] = mem[q]
    BY <2>1 DEF Await, TypeInv, TypeOK
  <2> QED  BY <2>1, <2>2, <2>3, SteadfastStep
<1>2. ASSUME NEW r \in Requests, CastCheck(r)
      PROVE  SteadfastInv'
  <2>1. /\ pc[r] = "check" /\ UNCHANGED <<cfg, ballots>> /\ VoterOf(r)
        /\ SameTerms(mem[r].doc)
    BY <1>2 DEF CastCheck, SteadfastInv, VoterOf, Holding, CastPCs
  <2>2. CASE pc'[r] = "done"
    <3>1. \A q \in Requests : q # r => pc'[q] = pc[q] /\ mem'[q] = mem[q]
      BY <1>2 DEF CastCheck, Await, Finish, TypeInv, TypeOK
    <3> QED  BY <2>1, <2>2, <3>1, SteadfastStep DEF Holding, CastPCs
  <2>3. CASE pc'[r] # "done"
    <3>1. /\ ~ AlreadyVoted(mem[r].doc, mem[r].user)
          /\ pc'[r] \in {"proxies", "insert"} /\ mem'[r] = mem[r]
          /\ \A q \in Requests : q # r => pc'[q] = pc[q] /\ mem'[q] = mem[q]
      BY <1>2, <2>3 DEF CastCheck, Await, Finish, TypeInv, TypeOK
    <3>2. CastDek(mem[r].doc) = CastDek(cfg)
      BY <2>1 DEF SameTerms, TermsOf, CastDek
    <3>3. \A b \in ballots : b.voter # mem[r].user
      BY <3>1, <3>2 DEF AlreadyVoted, SteadfastInv
    <3>4. \A q \in Requests : q # r /\ pc[q] \in CastPCs => mem[q].user # mem[r].user
      BY <2>1 DEF VoterOf, CastPCs
    <3> QED  BY <2>1, <3>1, <3>3, <3>4, SteadfastStep DEF SameTerms
  <2> QED  BY <2>2, <2>3
<1>3. ASSUME NEW r \in Requests, CastProxies(r)
      PROVE  SteadfastInv'
  <2>1. /\ pc[r] = "proxies" /\ UNCHANGED <<cfg, ballots>>
        /\ VoterOf(r) /\ mem[r] \in Memory
    BY <1>3 DEF CastProxies, SteadfastInv, TypeInv, TypeOK
  <2>2. /\ \A q \in Requests : q # r => pc'[q] = pc[q] /\ mem'[q] = mem[q]
        /\ \/ pc'[r] = "done"
           \/ /\ pc'[r] = "insert" /\ mem'[r].user = mem[r].user
              /\ mem'[r].doc = mem[r].doc
    BY <1>3, <2>1 DEF CastProxies, Await, Finish, TypeInv, TypeOK, Memory
  <2>3. /\ SameTerms(mem[r].doc) /\ \A b \in ballots : b.voter # mem[r].user
        /\ \A q \in Requests : q # r /\ pc[q] \in CastPCs => mem[q].user # mem[r].user
    BY <2>1 DEF VoterOf, Holding, CastPCs
  <2>4. CASE pc'[r] = "done"
    BY <2>1, <2>2, <2>4, SteadfastStep DEF Holding, CastPCs
  <2>5. CASE pc'[r] # "done"
    BY <2>1, <2>2, <2>3, <2>5, SteadfastStep DEF SameTerms
  <2> QED  BY <2>4, <2>5
<1>4. ASSUME NEW r \in Requests, CastInsert(r)
      PROVE  SteadfastInv'
  <2> DEFINE m == [mem[r] EXCEPT !.doc.count = @ + 1]
             new == CastBallot(r)
  <2>1. /\ pc[r] = "insert" /\ Await(r, "count", m) /\ ballots' = ballots \union {new}
        /\ UNCHANGED cfg
    BY <1>4 DEF CastInsert
  <2>2. mem[r] \in Memory /\ mem[r].doc \in Configs
    BY <2>1 DEF TypeInv, TypeOK, Loaded, Holding, CastPCs
  <2>3. m.user = mem[r].user /\ TermsOf(m.doc) = TermsOf(mem[r].doc)
    BY <2>2 DEF Memory, Configs, TermsOf
  <2>4. new.voter = mem[r].user /\ new.dek = CastDek(mem[r].doc)
    BY DEF CastBallot
  <2> HIDE DEF m, new
  <2>5. /\ pc'[r] = "count" /\ mem'[r] = m
        /\ \A q \in Requests : q # r => pc'[q] = pc[q] /\ mem'[q] = mem[q]
    BY <2>1 DEF Await, TypeInv, TypeOK
  <2>6. /\ SameTerms(mem[r].doc) /\ \A b \in ballots : b.voter # mem[r].user
        /\ \A q \in Requests : q # r /\ pc[q] \in CastPCs => mem[q].user # mem[r].user
    BY <2>1 DEF SteadfastInv, VoterOf, Holding, CastPCs
  <2>7. OneBallotPerVoter'
    BY <2>1, <2>4, <2>6 DEF SteadfastInv, OneBallotPerVoter
  <2>8. \A b \in ballots' : b.dek = CastDek(cfg')
    BY <2>1, <2>4, <2>6 DEF SteadfastInv, SameTerms, TermsOf, CastDek
  <2>9. ASSUME NEW q \in Requests
        PROVE  VoterOf(q)'
    <3>1. CASE q = r
      BY <2>1, <2>3, <2>5, <2>6, <3>1 DEF VoterOf, SameTerms, TermsOf, CastPCs
    <3>2. CASE q # r
      <4>1. VoterOf(q) /\ pc'[q] = pc[q] /\ mem'[q] = mem[q]
        BY <2>5, <3>2 DEF SteadfastInv
      <4>2. pc[q] \in CastPCs => mem[q].user # mem[r].user
        BY <2>6, <3>2
      <4>3. pc[q] \in CastPCs =>
              \A p \in Requests : pc'[p] \in CastPCs /\ mem'[p].user = mem[q].user => p = q
        <5> SUFFICES ASSUME pc[q] \in CastPCs, NEW p \in Requests, pc'[p] \in CastPCs,
                            mem'[p].user = mem[q].user
                     PROVE  p = q
          OBVIOUS
        <5>1. p # r
          BY <2>3, <2>5, <4>2
        <5> QED  BY <2>5, <4>1, <5>1 DEF VoterOf
      <4>4. pc[q] \in {"proxies", "insert"} => \A b \in ballots' : b.voter # mem[q].user
        BY <2>1, <2>4, <4>1, <4>2 DEF VoterOf, CastPCs
      <4> QED  BY <2>1, <4>1, <4>3, <4>4 DEF VoterOf, SameTerms, TermsOf
    <3> QED  BY <3>1, <3>2
  <2> QED  BY <2>7, <2>8, <2>9 DEF SteadfastInv, Steadfast
<1>5. ASSUME NEW r \in Requests, CastCount(r) \/ Save(r)
      PROVE  SteadfastInv'
  <2>1. /\ UNCHANGED ballots /\ cfg' = mem[r].doc /\ pc[r] \in Holding
        /\ pc'[r] \in {"tally", "done"}
        /\ \A q \in Requests : q # r => pc'[q] = pc[q] /\ mem'[q] = mem[q]
    BY <1>5 DEF CastCount, Save, Await, Finish, TypeInv, TypeOK, Holding, CastPCs
  <2>2. TermsOf(cfg') = TermsOf(cfg)
    BY <2>1 DEF SteadfastInv, VoterOf, SameTerms
  <2> QED  BY <2>1, <2>2, SteadfastStep DEF Holding, CastPCs
<1>6. ASSUME NEW r \in Requests, NEW d, TermsOf(d) = TermsOf(cfg), UNCHANGED <<cfg, ballots>>,
             Await(r, "save", [Blank EXCEPT !.doc = d])
      PROVE  SteadfastInv'
  <2>1. [Blank EXCEPT !.doc = d].doc = d
    BY DEF Blank
  <2>2. /\ pc'[r] = "save" /\ mem'[r].doc = d
        /\ \A q \in Requests : q # r => pc'[q] = pc[q] /\ mem'[q] = mem[q]
    BY <1>6, <2>1 DEF Await, TypeInv, TypeOK
  <2> QED  BY <1>6, <2>2, SteadfastStep DEF CastPCs
<1>7. ASSUME NEW r \in Requests, NEW target \in Targets, TransitionLoad(r, target)
      PROVE  SteadfastInv'
  <2>1. TermsOf([cfg EXCEPT !.status = target]) = TermsOf(cfg)
    BY DEF TermsOf, TypeInv, TypeOK, Configs
  <2> QED  BY <1>6, <1>7, <2>1 DEF TransitionLoad
<1>8. ASSUME NEW r \in Requests, NEW proxies \in BOOLEAN, PatchLoad(r, proxies)
      PROVE  SteadfastInv'
  <2>1. TermsOf([cfg EXCEPT !.proxies = proxies]) = TermsOf(cfg)
    BY DEF TermsOf, TypeInv, TypeOK, Configs
  <2> QED  BY <1>6, <1>8, <2>1 DEF PatchLoad
<1>9. ASSUME NEW r \in Requests, TallyLoad(r) \/ TallySum(r) \/ TallyFind(r)
      PROVE  SteadfastInv'
  <2>1. mem[r] \in Memory /\ VoterOf(r)
    BY DEF TypeInv, TypeOK, SteadfastInv
  <2>2. /\ UNCHANGED <<cfg, ballots>> /\ pc'[r] \in {"sum", "find", "write"}
        /\ \A q \in Requests : q # r => pc'[q] = pc[q] /\ mem'[q] = mem[q]
        /\ \/ mem'[r].doc = cfg
           \/ pc[r] \in {"sum", "find"} /\ mem'[r].doc = mem[r].doc
    <3> USE DEF Await, TypeInv, TypeOK
    <3>1. CASE TallyLoad(r)
      BY <3>1 DEF TallyLoad, Blank
    <3>2. CASE TallySum(r)
      BY <2>1, <3>2 DEF TallySum, Memory
    <3>3. CASE TallyFind(r)
      BY <2>1, <3>3 DEF TallyFind, Memory
    <3> QED  BY <1>9, <3>1, <3>2, <3>3
  <2>3. TermsOf(mem'[r].doc) = TermsOf(cfg)
    BY <2>1, <2>2 DEF VoterOf, SameTerms, Holding
  <2> QED  BY <2>2, <2>3, SteadfastStep DEF CastPCs
<1>10. ASSUME NEW r \in Requests,
              \/ CloseAgain(r) \/ ExportLoad(r) \/ ExportFind(r) \/ TallyWrite(r)
              \/ ManualLoad(r) \/ ManualSave(r) \/ Proxy(r) \/ Crash(r)
       PROVE  SteadfastInv'
  <2>1. /\ UNCHANGED <<cfg, ballots>>
        /\ pc'[r] \notin Holding
        /\ \A q \in Requests : q # r => pc'[q] = pc[q] /\ mem'[q] = mem[q]
    <3> USE DEF Await, Finish, TypeInv, TypeOK, Holding, CastPCs
    <3>1. CASE CloseAgain(r) \/ ExportLoad(r) \/ ExportFind(r) \/ TallyWrite(r)
      BY <3>1 DEF CloseAgain, ExportLoad, ExportFind, TallyWrite
    <3>2. CASE ManualLoad(r) \/ ManualSave(r) \/ Crash(r)
      BY <3>2 DEF ManualLoad, ManualSave, Crash
    <3>3. CASE Proxy(r)
      BY <3>3 DEF Proxy, AssignCheck, AssignInsert, Revoke
    <3> QED  BY <1>10, <3>1, <3>2, <3>3
  <2>2. pc'[r] \notin CastPCs
    BY <2>1 DEF Holding
  <2> QED  BY <2>1, <2>2, SteadfastStep DEF CastPCs
<1>11. \A r \in Requests, rule \in Rules, secret \in BOOLEAN : ~ ChangeTypeLoad(r, rule, secret)
  BY DEF ChangeTypeLoad, SteadfastInv, Steadfast
<1>12. CASE UNCHANGED vars
  BY <1>12 DEF vars, SteadfastInv, Steadfast, OneBallotPerVoter, CastDek, VoterOf, SameTerms,
               TermsOf
<1> QED
  BY <1>1, <1>2, <1>3, <1>4, <1>5, <1>7, <1>8, <1>9, <1>10, <1>11, <1>12 DEF Next, Cast, Chair

\* "Reject duplicate ballots" (ballot_service.py:7) is kept among crashes and
\* whatever the greffier does meanwhile, as long as nobody changes the type of the
\* scrutin and a sénateur has one cast in flight.
THEOREM NobodyVotesTwiceUnlessRetyped == Steadfast => (Spec => []OneBallotPerVoter)
<1>1. Steadfast /\ Init => TypeInv /\ SteadfastInv
  BY InitTypeInv DEF Init, SteadfastInv, OneBallotPerVoter, VoterOf, Holding, CastPCs
<1>2. TypeInv /\ SteadfastInv /\ [Next]_vars => (TypeInv /\ SteadfastInv)'
  BY NextTypeInv, NextSteadfastInv
<1>3. SteadfastInv => OneBallotPerVoter
  BY DEF SteadfastInv
<1> QED  BY <1>1, <1>2, <1>3, PTL DEF Spec
=============================================================================
