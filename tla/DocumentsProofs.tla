--------------------------- MODULE DocumentsProofs ---------------------------
(***************************************************************************)
(* Type correctness and every property of Documents, for any number of     *)
(* requests, documents, amendments and participants, and any bounds.       *)
(*                                                                         *)
(* The invariant says of each request whose reads have not been            *)
(* overwritten that its copy is what is stored but for what it changes.    *)
(***************************************************************************)
EXTENDS Documents, FiniteSetTheorems, TLAPS

DocLabels == {"idle", "insert", "save", "chain", "load", "publish", "fanout", "delete", "rule"}
Copying == {"save", "chain", "publish", "delete"}

\* What a request that waits under `label' holds.
HeldAt(label, h) ==
  /\ label \in Copying \union {"load", "fanout"} => h.id \in DocIds
  /\ label \in Copying \union {"insert"} => h.doc \in Metas
  /\ label = "insert" => h.doc.parent \in DocIds
  /\ label = "chain" => h.doc.chain = h.id /\ ~ h.doc.published
  /\ label = "rule" => h.id \in Amendments /\ h.ruling \in AmendmentStatuses

DocTypeInv == DocTypeOK /\ \A w \in Writers : HeldAt(step[w], held[w])

SameVersion(doc, other) ==
  doc.chain = other.chain /\ doc.number = other.number /\ doc.parent = other.parent

\* What w, at `label' with h, has read is still so.
Matches(w, label, h) ==
  LET now == docs[h.id] IN
  /\ label \in Copying => now # NoDoc /\ h.doc.number = now.number
  /\ label \in {"save", "delete"} => h.doc = now
  /\ label \in {"delete", "chain"} => ~ now.published
  /\ label = "publish" =>
       /\ SameVersion(h.doc, now)
       /\ h.announce <=> (h.doc.published /\ ~ now.published)
  /\ label = "chain" => now.chain = NoDoc
  /\ label = "rule" =>
       /\ amendments[h.id] # NoDoc
       /\ h.ruling \in AmendmentTransitions[amendments[h.id]]

\* Nobody is in the chain that a PV is about to start.
ChainIsFree(label, h) == label = "chain" => \A e \in Filed : docs[e].chain # h.id

\* A version that is about to be stored follows the document it was made of.
Continues(label, h) ==
  label = "insert" /\ h.doc.parent \in Filed =>
    /\ h.doc.number = docs[h.doc.parent].number + 1
    /\ h.doc.chain \in {docs[h.doc.parent].chain, NoDoc}

Agrees(w, label, h) ==
  /\ w \notin behind => Matches(w, label, h)
  /\ w \notin behind /\ ~ forked /\ ~ muddled => ChainIsFree(label, h)
  /\ ~ muddled => Continues(label, h)

DocInv ==
  /\ DocTypeInv
  /\ VersionsAreNumbered
  /\ EachHearsOnce
  /\ \A w \in Writers : Agrees(w, step[w], held[w])

(***************************************************************************)
(* Type correctness.                                                       *)
(***************************************************************************)
LEMMA EmptyType == Empty \in Held
BY DEF Empty, Held

LEMMA OnFileType ==
  ASSUME NEW d \in DocIds \union {NoDoc}, NEW doc \in Metas \union {NoDoc}
  PROVE  /\ OnFile(d, doc) \in Held
         /\ OnFile(d, doc).id = d /\ OnFile(d, doc).doc = doc
BY DEF OnFile, Empty, Held

LEMMA MetaNotNone ==
  /\ \A doc \in Metas : doc # NoDoc
  /\ \A d \in DocIds : d # NoDoc
  /\ \A s \in AmendmentStatuses : s # NoDoc
BY NoDocAssumption

\* publish changes the flag of its copy and nothing else.
LEMMA ToPublishType ==
  ASSUME NEW d \in DocIds, docs[d] \in Metas, NEW flag \in BOOLEAN
  PROVE  LET h == ToPublish(d, flag) IN
         /\ h \in Held /\ h.id = d
         /\ h.doc \in Metas /\ SameVersion(h.doc, docs[d]) /\ h.doc.published = flag
         /\ h.announce <=> (flag /\ ~ docs[d].published)
<1> DEFINE doc == [docs[d] EXCEPT !.published = flag]
           loud == flag /\ ~ docs[d].published
<1>1. doc \in Metas /\ SameVersion(doc, docs[d]) /\ doc.published = flag
  BY DEF Metas, SameVersion
<1>2. loud \in BOOLEAN
  OBVIOUS
<1> HIDE DEF doc, loud
<1>3. ASSUME NEW x \in BOOLEAN
      PROVE  LET h == [OnFile(d, doc) EXCEPT !.announce = x]
             IN h \in Held /\ h.id = d /\ h.doc = doc /\ h.announce = x
  BY <1>1, <1>3 DEF OnFile, Empty, Held
<1>4. ToPublish(d, flag) = [OnFile(d, doc) EXCEPT !.announce = loud]
  BY DEF ToPublish, doc, loud
<1>5. LET h == ToPublish(d, flag)
      IN h \in Held /\ h.id = d /\ h.doc = doc /\ h.announce = loud
  BY <1>2, <1>3, <1>4
<1> QED BY <1>1, <1>5 DEF loud

LEMMA HoldType ==
  ASSUME DocTypeInv, NEW w \in Writers, NEW label \in DocLabels, NEW h \in Held,
         HeldAt(label, h), Hold(w, label, h),
         docs' \in [DocIds -> Metas \union {NoDoc}],
         amendments' \in [Amendments -> AmendmentStatuses \union {NoDoc}],
         notified' \in [DocIds -> [Members -> Nat]], behind' \subseteq Writers,
         muddled' \in BOOLEAN, forked' \in BOOLEAN, cut' \in BOOLEAN,
         edges' \in [DocIds -> 0 .. MaxEdges]
  PROVE  /\ DocTypeInv'
         /\ step'[w] = label /\ held'[w] = h
         /\ \A v \in Writers \ {w} : step'[v] = step[v] /\ held'[v] = held[v]
<1>1. /\ step'[w] = label /\ held'[w] = h
      /\ \A v \in Writers \ {w} : step'[v] = step[v] /\ held'[v] = held[v]
  BY DEF DocTypeInv, DocTypeOK, Hold
<1>2. step' \in [Writers -> DocLabels] /\ held' \in [Writers -> Held]
  BY DEF DocTypeInv, DocTypeOK, Hold, DocLabels
<1>3. \A v \in Writers : HeldAt(step'[v], held'[v])
  BY <1>1 DEF DocTypeInv
<1> QED BY <1>1, <1>2, <1>3 DEF DocTypeInv, DocTypeOK, DocLabels

(***************************************************************************)
(* What a step of w leaves to the others.                                  *)
(***************************************************************************)
Rests(v) == step'[v] = step[v] /\ held'[v] = held[v]

\* The history only grows.
Remembers(w) ==
  /\ behind \ {w} \subseteq behind'
  /\ muddled => muddled'
  /\ forked => forked'
  /\ cut => cut'

\* What the step of another does to the documents and amendments v has read.
Spares(v) ==
  /\ v \notin behind' /\ step[v] \in Copying => docs'[held[v].id] = docs[held[v].id]
  /\ v \notin behind' /\ step[v] = "rule" =>
       amendments'[held[v].id] = amendments[held[v].id]
  /\ v \notin behind' /\ ~ forked' /\ ~ muddled' /\ step[v] = "chain" =>
       \A e \in DocIds : docs'[e] # NoDoc /\ docs'[e].chain = held[v].id =>
         docs[e] # NoDoc /\ docs[e].chain = held[v].id
  /\ ~ muddled' /\ step[v] = "insert" =>
       LET p == held[v].doc.parent IN
       docs'[p] # NoDoc =>
         /\ docs[p] # NoDoc /\ docs'[p].number = docs[p].number
         /\ docs'[p].chain = docs[p].chain \/ docs[p].chain = NoDoc

LEMMA OthersAgree ==
  ASSUME DocInv, NEW w \in Writers, NEW v \in Writers \ {w}, Rests(v), Remembers(w), Spares(v)
  PROVE  Agrees(v, step[v], held[v])'
<1>1. Agrees(v, step[v], held[v]) /\ HeldAt(step[v], held[v])
  BY DEF DocInv, DocTypeInv
<1>2. ASSUME v \notin behind' PROVE Matches(v, step[v], held[v])'
  <2>1. Matches(v, step[v], held[v])
    BY <1>1, <1>2 DEF Agrees, Remembers
  <2>2. CASE step[v] \in Copying
    BY <1>2, <2>1, <2>2 DEF Matches, Rests, Spares, Copying
  <2>3. CASE step[v] = "rule"
    BY <1>2, <2>1, <2>3 DEF Matches, Rests, Spares, Copying
  <2>4. CASE step[v] \notin Copying \union {"rule"}
    BY <2>4 DEF Matches, Rests, Copying
  <2> QED BY <2>2, <2>3, <2>4
<1>3. ASSUME v \notin behind', ~ forked', ~ muddled' PROVE ChainIsFree(step[v], held[v])'
  BY <1>1, <1>3 DEF Agrees, ChainIsFree, Filed, Rests, Spares, Remembers
<1>4. ASSUME ~ muddled' PROVE Continues(step[v], held[v])'
  <2>1. SUFFICES ASSUME step[v] = "insert", docs'[held[v].doc.parent] # NoDoc
                 PROVE  Continues(step[v], held[v])'
    BY DEF Continues, Filed, Rests
  <2>2. Continues(step[v], held[v]) /\ held[v].doc.parent \in DocIds
    BY <1>1, <1>4, <2>1 DEF Agrees, Remembers, HeldAt
  <2> QED BY <1>4, <2>1, <2>2 DEF Continues, Filed, Rests, Spares
<1> QED BY <1>2, <1>3, <1>4 DEF Agrees

LEMMA SameFanout ==
  ASSUME DocTypeInv, NEW w \in Writers, \A v \in Writers \ {w} : Rests(v),
         step[w] # "fanout", step'[w] # "fanout"
  PROVE  \A d \in DocIds, m \in Members : InFanout(d, m)' = InFanout(d, m)
BY DEF Rests, InFanout

LEMMA HearsKept ==
  ASSUME DocInv, NEW w \in Writers, \A v \in Writers \ {w} : Rests(v), Remembers(w),
         step[w] # "fanout", step'[w] # "fanout", UNCHANGED <<notified, edges>>
  PROVE  EachHearsOnce'
<1>1. \A d \in DocIds, m \in Members : InFanout(d, m)' = InFanout(d, m)
  BY SameFanout DEF DocInv
<1> QED BY <1>1 DEF DocInv, EachHearsOnce, Remembers

LEMMA DocInvFrom ==
  ASSUME DocInv, NEW w \in Writers, DocTypeInv', VersionsAreNumbered', EachHearsOnce',
         Agrees(w, step[w], held[w])', Remembers(w),
         \A v \in Writers \ {w} : Rests(v) /\ Spares(v)
  PROVE  DocInv'
BY OthersAgree DEF DocInv

(***************************************************************************)
(* Steps that store nothing.                                               *)
(***************************************************************************)
LEMMA LoadStep ==
  ASSUME DocInv, NEW w \in Writers, step[w] # "fanout",
         NEW label \in DocLabels \ {"fanout"}, NEW h \in Held, HeldAt(label, h),
         Hold(w, label, h), UNCHANGED <<docs, amendments, notified, muddled, forked, edges>>,
         behind' = behind \/ behind' = behind \ {w}, cut => cut', cut' \in BOOLEAN,
         Matches(w, label, h), ChainIsFree(label, h), Continues(label, h)
  PROVE  DocInv'
<1>1. /\ DocTypeInv'
      /\ step'[w] = label /\ held'[w] = h
      /\ \A v \in Writers \ {w} : Rests(v)
  BY HoldType DEF DocInv, DocTypeInv, DocTypeOK, Rests
<1>2. Remembers(w) /\ \A v \in Writers : Spares(v)
  BY DEF Remembers, Spares
<1>3. VersionsAreNumbered'
  BY DEF DocInv, VersionsAreNumbered, Filed
<1>4. EachHearsOnce'
  BY <1>1, <1>2, HearsKept
<1>5. Agrees(w, step[w], held[w])'
  <2>1. Matches(w, label, h)'
    BY DEF Matches
  <2>2. ChainIsFree(label, h)' /\ Continues(label, h)'
    BY DEF ChainIsFree, Continues, Filed
  <2> QED BY <1>1, <2>1, <2>2 DEF Agrees, Matches, ChainIsFree, Continues
<1> QED BY <1>1, <1>2, <1>3, <1>4, <1>5, DocInvFrom

LEMMA VersionLoadStep ==
  ASSUME DocInv, NEW w \in Writers, NEW p \in DocIds, VersionLoad(w, p)
  PROVE  DocInv'
<1> DEFINE doc == [docs[p] EXCEPT !.number = @ + 1, !.parent = p, !.published = FALSE]
<1>1. docs[p] \in Metas /\ docs[p].number \in Numbers /\ docs[p].number < MaxVersion
  BY DEF DocInv, DocTypeInv, DocTypeOK, VersionLoad, Filed, Metas
<1>2. docs[p].number + 1 \in Numbers
  BY <1>1, BoundsAssumption DEF Numbers
<1>3. /\ doc \in Metas /\ doc.number = docs[p].number + 1
      /\ doc.chain = docs[p].chain /\ doc.parent = p
  BY <1>1, <1>2 DEF Metas
<1>4. Hold(w, "insert", OnFile(NoDoc, doc))
  BY DEF VersionLoad
<1> HIDE DEF doc
<1>5. OnFile(NoDoc, doc) \in Held /\ OnFile(NoDoc, doc).doc = doc
  BY <1>3, OnFileType
<1>6. HeldAt("insert", OnFile(NoDoc, doc))
  BY <1>3, <1>5 DEF HeldAt, Copying
<1>7. Matches(w, "insert", OnFile(NoDoc, doc)) /\ ChainIsFree("insert", OnFile(NoDoc, doc))
  BY DEF Matches, ChainIsFree, Copying
<1>8. Continues("insert", OnFile(NoDoc, doc))
  BY <1>3, <1>5 DEF Continues
<1>9. cut \in BOOLEAN
  BY DEF DocInv, DocTypeInv, DocTypeOK
<1> QED BY <1>4, <1>5, <1>6, <1>7, <1>8, <1>9, LoadStep DEF VersionLoad, DocLabels

LEMMA CopyLoadStep ==
  ASSUME DocInv, NEW w \in Writers, NEW d \in DocIds,
         PatchDocument(w, d) \/ DeleteDocumentLoad(w, d)
  PROVE  DocInv'
<1> DEFINE h == OnFile(d, docs[d])
<1>1. docs[d] \in Metas /\ docs[d] # NoDoc /\ cut \in BOOLEAN
  BY DEF DocInv, DocTypeInv, DocTypeOK, PatchDocument, DeleteDocumentLoad, Filed
<1>2. h \in Held /\ h.id = d /\ h.doc = docs[d]
  BY <1>1, OnFileType
<1> HIDE DEF h
<1>3. ASSUME NEW label \in {"save", "delete"}
      PROVE  HeldAt(label, h) /\ ChainIsFree(label, h) /\ Continues(label, h)
  BY <1>1, <1>2, <1>3 DEF HeldAt, ChainIsFree, Continues, Copying
<1>4. CASE PatchDocument(w, d)
  <2>1. Matches(w, "save", h)
    BY <1>1, <1>2 DEF Matches, Copying
  <2>2. Hold(w, "save", h)
    BY <1>4 DEF PatchDocument, h
  <2> QED BY <1>1, <1>2, <1>3, <1>4, <2>1, <2>2, LoadStep DEF PatchDocument, DocLabels
<1>5. CASE DeleteDocumentLoad(w, d)
  <2>1. Matches(w, "delete", h)
    BY <1>1, <1>2, <1>5 DEF Matches, Copying, DeleteDocumentLoad
  <2>2. Hold(w, "delete", h)
    BY <1>5 DEF DeleteDocumentLoad, h
  <2> QED BY <1>1, <1>2, <1>3, <1>5, <2>1, <2>2, LoadStep DEF DeleteDocumentLoad, DocLabels
<1> QED BY <1>4, <1>5

LEMMA PublishLoadStep ==
  ASSUME DocInv, NEW w \in Writers, NEW d \in DocIds, NEW flag \in BOOLEAN,
         d \in Filed, Hold(w, "publish", ToPublish(d, flag)), step[w] # "fanout",
         UNCHANGED <<docs, amendments, notified, behind, muddled, forked, cut, edges>>
  PROVE  DocInv'
<1> DEFINE h == ToPublish(d, flag)
<1>1. docs[d] \in Metas /\ docs[d] # NoDoc /\ cut \in BOOLEAN
  BY DEF DocInv, DocTypeInv, DocTypeOK, Filed
<1>2. /\ h \in Held /\ h.id = d
      /\ h.doc \in Metas /\ SameVersion(h.doc, docs[d]) /\ h.doc.published = flag
      /\ h.announce <=> (flag /\ ~ docs[d].published)
  BY <1>1, ToPublishType
<1> HIDE DEF h
<1>3. HeldAt("publish", h) /\ ChainIsFree("publish", h) /\ Continues("publish", h)
  BY <1>2 DEF HeldAt, ChainIsFree, Continues, Copying
<1>4. Matches(w, "publish", h)
  BY <1>1, <1>2 DEF Matches, SameVersion
<1>5. Hold(w, "publish", h)
  BY DEF h
<1> QED BY <1>1, <1>2, <1>3, <1>4, <1>5, LoadStep DEF DocLabels

LEMMA RuleLoadStep ==
  ASSUME DocInv, NEW w \in Writers, NEW a \in Amendments,
         NEW decision \in AmendmentStatuses, RuleLoad(w, a, decision)
  PROVE  DocInv'
<1> DEFINE h == [Empty EXCEPT !.id = a, !.ruling = decision]
<1>1. h \in Held /\ h.id = a /\ h.ruling = decision
  BY DEF Empty, Held
<1>2. Hold(w, "rule", h)
  BY DEF RuleLoad
<1> HIDE DEF h
<1>3. HeldAt("rule", h) /\ ChainIsFree("rule", h) /\ Continues("rule", h)
  BY <1>1 DEF HeldAt, ChainIsFree, Continues, Copying
<1>4. Matches(w, "rule", h)
  BY <1>1 DEF Matches, RuleLoad, Copying
<1>5. cut \in BOOLEAN
  BY DEF DocInv, DocTypeInv, DocTypeOK
<1> QED BY <1>1, <1>2, <1>3, <1>4, <1>5, LoadStep DEF RuleLoad, DocLabels

LEMMA IdleHolds ==
  ASSUME NEW w \in Writers
  PROVE  /\ HeldAt("idle", Empty) /\ Matches(w, "idle", Empty)
         /\ ChainIsFree("idle", Empty) /\ Continues("idle", Empty)
BY DEF HeldAt, Matches, ChainIsFree, Continues, Copying

LEMMA FaltersStep ==
  ASSUME DocInv, NEW w \in Writers, Falters(w)
  PROVE  DocInv'
<1>1. cut' \in BOOLEAN /\ (cut => cut')
  BY DEF DocInv, DocTypeInv, DocTypeOK, Falters
<1>2. CASE step[w] # "fanout"
  BY <1>1, <1>2, EmptyType, IdleHolds, LoadStep DEF Falters, Done, DocLabels
<1>3. CASE step[w] = "fanout"
  <2>1. /\ DocTypeInv'
        /\ step'[w] = "idle" /\ held'[w] = Empty
        /\ \A v \in Writers \ {w} : Rests(v)
    BY <1>1, EmptyType, IdleHolds, HoldType
       DEF DocInv, DocTypeInv, DocTypeOK, Rests, Falters, Done, DocLabels
  <2>2. Remembers(w) /\ \A v \in Writers : Spares(v)
    BY <1>1 DEF Remembers, Spares, Falters
  <2>3. VersionsAreNumbered'
    BY DEF DocInv, VersionsAreNumbered, Filed, Falters
  <2>4. EachHearsOnce'
    BY <1>3 DEF Falters, EachHearsOnce
  <2>5. Agrees(w, step[w], held[w])'
    BY <2>1 DEF Agrees, Matches, ChainIsFree, Continues, Copying
  <2> QED BY <2>1, <2>2, <2>3, <2>4, <2>5, DocInvFrom
<1> QED BY <1>2, <1>3

(***************************************************************************)
(* Steps that store a new document, under an id that nothing refers to.    *)
(***************************************************************************)
LEMMA InsertEffect ==
  ASSUME DocInv, NEW d \in DocIds, NEW doc \in Metas, Insert(d, doc)
  PROVE  /\ docs[d] = NoDoc /\ doc # NoDoc
         /\ \A e \in DocIds : docs'[e] = IF e = d THEN doc ELSE docs[e]
         /\ docs' \in [DocIds -> Metas \union {NoDoc}]
         /\ notified' \in [DocIds -> [Members -> Nat]]
         /\ edges' \in [DocIds -> 0 .. MaxEdges]
<1>1. docs[d] = NoDoc /\ doc # NoDoc
  BY MetaNotNone DEF Insert, Fresh, Filed
<1>2. \A e \in DocIds : docs'[e] = IF e = d THEN doc ELSE docs[e]
  BY DEF DocInv, DocTypeInv, DocTypeOK, Insert
<1>3. docs' \in [DocIds -> Metas \union {NoDoc}]
  BY DEF DocInv, DocTypeInv, DocTypeOK, Insert
<1>4. [m \in Members |-> 0] \in [Members -> Nat]
  OBVIOUS
<1>5. notified' \in [DocIds -> [Members -> Nat]]
  BY <1>4 DEF DocInv, DocTypeInv, DocTypeOK, Insert
<1>6. 0 \in 0 .. MaxEdges
  BY BoundsAssumption
<1>7. edges' \in [DocIds -> 0 .. MaxEdges]
  BY <1>6 DEF DocInv, DocTypeInv, DocTypeOK, Insert
<1> QED BY <1>1, <1>2, <1>3, <1>5, <1>7

LEMMA InsertHears ==
  ASSUME DocInv, NEW w \in Writers, NEW d \in DocIds, NEW doc \in Metas, Insert(d, doc),
         \A v \in Writers \ {w} : Rests(v), Remembers(w),
         step[w] # "fanout", step'[w] # "fanout"
  PROVE  EachHearsOnce'
<1>1. \A e \in DocIds, m \in Members : InFanout(e, m)' = InFanout(e, m)
  BY SameFanout DEF DocInv
<1>2. \A m \in Members : InFanout(d, m) = {}
  BY DEF InFanout, Insert, Fresh
<1>3. \A e \in DocIds, m \in Members :
        /\ edges'[e] = IF e = d THEN 0 ELSE edges[e]
        /\ notified'[e][m] = IF e = d THEN 0 ELSE notified[e][m]
  BY DEF DocInv, DocTypeInv, DocTypeOK, Insert
<1>4. Cardinality({}) = 0
  BY FS_EmptySet
<1>5. SUFFICES ASSUME ~ cut', ~ muddled', NEW e \in DocIds, NEW m \in Members
               PROVE  notified'[e][m] + Cardinality(InFanout(e, m)') = edges'[e]
  BY DEF EachHearsOnce
<1>6. CASE e = d
  BY <1>1, <1>2, <1>3, <1>4, <1>6
<1>7. CASE e # d
  <2>1. notified[e][m] + Cardinality(InFanout(e, m)) = edges[e]
    BY <1>5 DEF DocInv, EachHearsOnce, Remembers
  <2> QED BY <1>1, <1>3, <1>7, <2>1
<1> QED BY <1>6, <1>7

LEMMA InsertSpares ==
  ASSUME DocInv, NEW w \in Writers, NEW d \in DocIds, NEW doc \in Metas, Insert(d, doc),
         Remembers(w), amendments' = amendments, NEW v \in Writers \ {w},
         ~ forked' /\ ~ muddled' /\ step[v] = "chain" => doc.chain # held[v].id
  PROVE  Spares(v)
<1>1. docs[d] = NoDoc /\ \A e \in DocIds : docs'[e] = IF e = d THEN doc ELSE docs[e]
  BY InsertEffect
<1>2. HeldAt(step[v], held[v])
  BY DEF DocInv, DocTypeInv
<1>3. held[v].id # d /\ (step[v] = "insert" => held[v].doc.parent # d)
  <2>1. step[v] = "insert" => held[v].doc # NoDoc
    BY <1>2, MetaNotNone DEF HeldAt
  <2> QED BY <2>1 DEF Insert, Fresh
<1>4. step[v] \in Copying => docs'[held[v].id] = docs[held[v].id]
  BY <1>1, <1>2, <1>3 DEF HeldAt
<1>5. step[v] = "insert" => docs'[held[v].doc.parent] = docs[held[v].doc.parent]
  BY <1>1, <1>2, <1>3 DEF HeldAt
<1>6. ASSUME ~ forked', ~ muddled', step[v] = "chain", NEW e \in DocIds,
             docs'[e] # NoDoc, docs'[e].chain = held[v].id
      PROVE  docs[e] # NoDoc /\ docs[e].chain = held[v].id
  BY <1>1, <1>6
<1> QED BY <1>4, <1>5, <1>6 DEF Spares

LEMMA CreateDocumentStep ==
  ASSUME DocInv, NEW w \in Writers, NEW d \in DocIds, CreateDocument(w, d)
  PROVE  DocInv'
<1> DEFINE doc == [chain |-> d, number |-> 1, parent |-> NoDoc, published |-> FALSE]
<1>1. doc \in Metas /\ doc.chain = d
  BY BoundsAssumption DEF Metas, Numbers
<1>2. Insert(d, doc)
  BY DEF CreateDocument
<1> HIDE DEF doc
<1>3. /\ docs[d] = NoDoc /\ doc # NoDoc
      /\ \A e \in DocIds : docs'[e] = IF e = d THEN doc ELSE docs[e]
  BY <1>1, <1>2, InsertEffect
<1>4. DocTypeInv'
  BY <1>1, <1>2, InsertEffect DEF DocInv, DocTypeInv, DocTypeOK, CreateDocument
<1>5. Remembers(w) /\ \A v \in Writers : Rests(v)
  BY DEF Remembers, Rests, CreateDocument
<1>6. \A v \in Writers \ {w} : Spares(v)
  <2>1. \A v \in Writers : step[v] = "chain" => d # held[v].id
    BY <1>2 DEF Insert, Fresh
  <2> QED BY <1>1, <1>2, <1>5, <2>1, InsertSpares DEF CreateDocument
<1>7. VersionsAreNumbered'
  <2>1. \A e \in Filed : docs[e].chain # d
    BY <1>2 DEF Insert, Fresh
  <2> QED
    BY <1>1, <1>3, <2>1 DEF DocInv, VersionsAreNumbered, Filed, CreateDocument
<1>8. EachHearsOnce'
  BY <1>1, <1>2, <1>5, InsertHears DEF CreateDocument
<1>9. Agrees(w, step[w], held[w])'
  BY DEF CreateDocument, Agrees, Matches, ChainIsFree, Continues, Copying
<1> QED BY <1>4, <1>5, <1>6, <1>7, <1>8, <1>9, DocInvFrom

LEMMA VersionInsertStep ==
  ASSUME DocInv, NEW w \in Writers, NEW d \in DocIds, VersionInsert(w, d)
  PROVE  DocInv'
<1> DEFINE doc == held[w].doc
           p == doc.parent
<1>1. doc \in Metas /\ p \in DocIds /\ Agrees(w, "insert", held[w])
  BY DEF DocInv, DocTypeInv, HeldAt, VersionInsert
<1>2. Insert(d, doc) /\ (~ forked' => Latest(p) /\ ~ forked)
  BY DEF VersionInsert
<1>3. /\ docs[d] = NoDoc /\ doc # NoDoc
      /\ \A e \in DocIds : docs'[e] = IF e = d THEN doc ELSE docs[e]
  BY <1>1, <1>2, InsertEffect
<1>4. forked' \in BOOLEAN
  BY DEF DocInv, DocTypeInv, DocTypeOK, VersionInsert
<1>5. /\ DocTypeInv'
      /\ step'[w] = "idle" /\ held'[w] = Empty
      /\ \A v \in Writers \ {w} : Rests(v)
  BY <1>1, <1>2, <1>4, InsertEffect, EmptyType, IdleHolds, HoldType
     DEF DocInv, DocTypeInv, DocTypeOK, VersionInsert, Done, Rests, DocLabels
<1>6. Remembers(w)
  BY DEF Remembers, VersionInsert
<1>7. ~ forked' /\ ~ muddled =>
        /\ p \in Filed /\ doc.number = docs[p].number + 1
        /\ doc.chain = NoDoc \/ doc.chain = docs[p].chain
  BY <1>1, <1>2 DEF Agrees, Continues, Latest
<1>8. muddled' = muddled
  BY DEF VersionInsert
<1>9. \A v \in Writers \ {w} : Spares(v)
  <2>1. ASSUME NEW v \in Writers \ {w}, v \notin behind, ~ forked', ~ muddled',
               step[v] = "chain"
        PROVE  doc.chain # held[v].id
    <3>1. held[v].id \in DocIds /\ held[v].id # NoDoc
      BY <2>1, MetaNotNone DEF DocInv, DocTypeInv, HeldAt, Copying
    <3>2. \A e \in Filed : docs[e].chain # held[v].id
      BY <1>2, <1>8, <2>1 DEF DocInv, Agrees, ChainIsFree
    <3> QED BY <1>7, <1>8, <2>1, <3>1, <3>2
  <2>2. ASSUME NEW v \in Writers \ {w}, v \in behind PROVE Spares(v)
    <3>1. v \in behind'
      BY <2>2 DEF VersionInsert
    <3>2. HeldAt(step[v], held[v])
      BY DEF DocInv, DocTypeInv
    <3>3. step[v] = "insert" =>
            held[v].doc.parent \in DocIds /\ held[v].doc.parent # d
      BY <1>2, <3>2, MetaNotNone DEF HeldAt, Insert, Fresh
    <3> QED BY <1>3, <3>1, <3>3 DEF Spares
  <2>3. ASSUME NEW v \in Writers \ {w}, v \notin behind PROVE Spares(v)
    BY <1>1, <1>2, <1>6, <2>1, <2>3, InsertSpares DEF VersionInsert
  <2> QED BY <2>2, <2>3
<1>10. VersionsAreNumbered'
  <2>1. ASSUME ~ forked', ~ muddled', NEW e \in Filed, docs[e].chain = doc.chain,
               doc.chain # NoDoc
        PROVE  docs[e].number # doc.number
    <3>1. docs[e].number <= docs[p].number
      BY <1>2, <1>7, <1>8, <2>1 DEF Latest
    <3>2. docs[e].number \in Nat /\ docs[p].number \in Nat
      BY <1>7, <1>8, <2>1 DEF DocInv, DocTypeInv, DocTypeOK, Filed, Metas, Numbers
    <3> QED BY <1>7, <1>8, <2>1, <3>1, <3>2
  <2>2. ~ forked' /\ ~ muddled' => ~ forked /\ ~ muddled
    BY <1>2, <1>8
  <2> QED BY <1>3, <2>1, <2>2 DEF DocInv, VersionsAreNumbered, Filed
<1>11. EachHearsOnce'
  BY <1>1, <1>2, <1>5, <1>6, InsertHears DEF VersionInsert
<1>12. Agrees(w, step[w], held[w])'
  BY <1>5 DEF Agrees, Matches, ChainIsFree, Continues, Copying
<1> QED BY <1>5, <1>6, <1>9, <1>10, <1>11, <1>12, DocInvFrom

LEMMA ExportInsertStep ==
  ASSUME DocInv, NEW w \in Writers, NEW d \in DocIds, ExportInsert(w, d)
  PROVE  DocInv'
<1> DEFINE doc == [chain |-> NoDoc, number |-> 1, parent |-> NoDoc, published |-> FALSE]
           next == [doc EXCEPT !.chain = d]
           h == OnFile(d, next)
<1>1. /\ doc \in Metas /\ doc.chain = NoDoc /\ ~ doc.published
      /\ next \in Metas /\ next.chain = d /\ ~ next.published /\ next.number = doc.number
  <2>1. 1 \in Numbers
    BY BoundsAssumption DEF Numbers
  <2>2. doc \in Metas /\ doc.chain = NoDoc /\ ~ doc.published
    BY <2>1 DEF Metas
  <2> HIDE DEF doc
  <2> QED BY <2>2 DEF Metas
<1>2. Insert(d, doc) /\ Hold(w, "chain", h)
  BY DEF ExportInsert
<1> HIDE DEF doc, next
<1>3. h \in Held /\ h.id = d /\ h.doc = next
  BY <1>1, OnFileType
<1> HIDE DEF h
<1>4. /\ docs[d] = NoDoc /\ doc # NoDoc
      /\ \A e \in DocIds : docs'[e] = IF e = d THEN doc ELSE docs[e]
  BY <1>1, <1>2, InsertEffect
<1>5. HeldAt("chain", h)
  BY <1>1, <1>3 DEF HeldAt, Copying
<1>6. /\ DocTypeInv'
      /\ step'[w] = "chain" /\ held'[w] = h
      /\ \A v \in Writers \ {w} : Rests(v)
  BY <1>1, <1>2, <1>3, <1>5, InsertEffect, HoldType
     DEF DocInv, DocTypeInv, DocTypeOK, ExportInsert, Rests, DocLabels
<1>7. Remembers(w)
  BY DEF Remembers, ExportInsert
<1>8. \A v \in Writers \ {w} : Spares(v)
  <2>1. ASSUME NEW v \in Writers, step[v] = "chain" PROVE doc.chain # held[v].id
    BY <1>1, <2>1, MetaNotNone DEF DocInv, DocTypeInv, HeldAt, Copying
  <2> QED BY <1>1, <1>2, <1>7, <2>1, InsertSpares DEF ExportInsert
<1>9. VersionsAreNumbered'
  BY <1>1, <1>4 DEF DocInv, VersionsAreNumbered, Filed, ExportInsert
<1>10. EachHearsOnce'
  BY <1>1, <1>2, <1>6, <1>7, InsertHears DEF ExportInsert
<1>11. Agrees(w, step[w], held[w])'
  <2>1. Matches(w, step[w], held[w])'
    BY <1>1, <1>3, <1>4, <1>6 DEF Matches, Copying
  <2>2. \A e \in DocIds : docs[e] # NoDoc => docs[e].chain # d
    BY <1>2 DEF Insert, Fresh, Filed
  <2>3. ChainIsFree(step[w], held[w])'
    BY <1>1, <1>3, <1>4, <1>6, <2>2, MetaNotNone DEF ChainIsFree, Filed
  <2>4. Continues(step[w], held[w])'
    BY <1>6 DEF Continues
  <2> QED BY <2>1, <2>3, <2>4 DEF Agrees
<1> QED BY <1>6, <1>7, <1>8, <1>9, <1>10, <1>11, DocInvFrom

(***************************************************************************)
(* Steps that write a document that exists, or existed.                    *)
(***************************************************************************)
\* x keeps, or corrects, the version of the document that w has read.
Respects(w, x) ==
  w \notin behind /\ x # NoDoc =>
    LET now == docs[held[w].id] IN
    /\ x.number = now.number
    /\ x.chain = now.chain \/ (now.chain = NoDoc /\ x.chain = held[w].id)

LEMMA WriteEffect ==
  ASSUME DocInv, NEW w \in Writers, step[w] \in Copying, NEW x \in Metas \union {NoDoc},
         docs' = [docs EXCEPT ![held[w].id] = x], Overwrites(w)
  PROVE  /\ held[w].id \in DocIds /\ held[w].doc \in Metas
         /\ \A e \in DocIds : docs'[e] = IF e = held[w].id THEN x ELSE docs[e]
         /\ docs' \in [DocIds -> Metas \union {NoDoc}]
         /\ behind' \subseteq Writers /\ muddled' \in BOOLEAN
         /\ ~ muddled' => ~ muddled /\ w \notin behind
         /\ w \notin behind => Matches(w, step[w], held[w])
<1>1. held[w].id \in DocIds /\ held[w].doc \in Metas
  BY DEF DocInv, DocTypeInv, HeldAt, Copying
<1>2. \A e \in DocIds : docs'[e] = IF e = held[w].id THEN x ELSE docs[e]
  BY <1>1 DEF DocInv, DocTypeInv, DocTypeOK
<1>3. docs' \in [DocIds -> Metas \union {NoDoc}]
  BY DEF DocInv, DocTypeInv, DocTypeOK
<1>4. behind' \subseteq Writers /\ muddled' \in BOOLEAN /\ (~ muddled' => ~ muddled /\ w \notin behind)
  BY DEF DocInv, DocTypeInv, DocTypeOK, Overwrites, Overtaken
<1>5. w \notin behind => Matches(w, step[w], held[w])
  BY DEF DocInv, Agrees
<1> QED BY <1>1, <1>2, <1>3, <1>4, <1>5

LEMMA WriteSpares ==
  ASSUME DocInv, NEW w \in Writers, step[w] \in Copying, NEW x \in Metas \union {NoDoc},
         docs' = [docs EXCEPT ![held[w].id] = x], Overwrites(w), Respects(w, x),
         UNCHANGED <<amendments, forked>>, NEW v \in Writers \ {w}
  PROVE  Spares(v)
<1>1. /\ \A e \in DocIds : docs'[e] = IF e = held[w].id THEN x ELSE docs[e]
      /\ ~ muddled' => w \notin behind /\ docs[held[w].id] # NoDoc
  BY WriteEffect DEF Matches
<1>2. v \notin behind' /\ step[v] \in Copying => held[v].id # held[w].id
  BY DEF Overwrites, Overtaken, Copying
<1>3. HeldAt(step[v], held[v])
  BY DEF DocInv, DocTypeInv
<1>4. v \notin behind' /\ step[v] \in Copying => docs'[held[v].id] = docs[held[v].id]
  BY <1>1, <1>2, <1>3 DEF HeldAt
<1>5. ASSUME v \notin behind', ~ muddled', step[v] = "chain", NEW e \in DocIds,
             docs'[e] # NoDoc, docs'[e].chain = held[v].id
      PROVE  docs[e] # NoDoc /\ docs[e].chain = held[v].id
  <2>1. CASE e # held[w].id
    BY <1>1, <1>5, <2>1
  <2>2. CASE e = held[w].id
    <3>1. x # NoDoc /\ x.chain = held[v].id /\ held[v].id # held[w].id
      BY <1>1, <1>2, <1>5, <2>2 DEF Copying
    <3> QED BY <1>1, <1>5, <2>2, <3>1 DEF Respects
  <2> QED BY <2>1, <2>2
<1>6. ASSUME ~ muddled', step[v] = "insert", docs'[held[v].doc.parent] # NoDoc
      PROVE  LET p == held[v].doc.parent IN
             /\ docs[p] # NoDoc /\ docs'[p].number = docs[p].number
             /\ docs'[p].chain = docs[p].chain \/ docs[p].chain = NoDoc
  BY <1>1, <1>3, <1>6 DEF HeldAt, Respects
<1> QED BY <1>4, <1>5, <1>6 DEF Spares

LEMMA SameVersions ==
  ASSUME DocInv, NEW w \in Writers, step[w] \in Copying, NEW x \in Metas \union {NoDoc},
         docs' = [docs EXCEPT ![held[w].id] = x], Overwrites(w), forked' = forked,
         w \notin behind /\ x # NoDoc =>
           x.number = docs[held[w].id].number /\ x.chain = docs[held[w].id].chain
  PROVE  VersionsAreNumbered'
<1>1. /\ \A e \in DocIds : docs'[e] = IF e = held[w].id THEN x ELSE docs[e]
      /\ ~ muddled' => ~ muddled /\ w \notin behind /\ docs[held[w].id] # NoDoc
  BY WriteEffect DEF Matches
<1>2. SUFFICES ASSUME ~ forked', ~ muddled', NEW d \in DocIds, NEW e \in DocIds,
                      docs'[d] # NoDoc, docs'[e] # NoDoc,
                      docs'[d].chain = docs'[e].chain, docs'[d].chain # NoDoc,
                      docs'[d].number = docs'[e].number
               PROVE  d = e
  BY DEF VersionsAreNumbered, Filed
<1>3. \A i \in {d, e} : /\ docs[i] # NoDoc /\ docs'[i].chain = docs[i].chain
                        /\ docs'[i].number = docs[i].number
  BY <1>1, <1>2
<1> QED BY <1>1, <1>2, <1>3 DEF DocInv, VersionsAreNumbered, Filed

LEMMA OverwritesRemembers ==
  ASSUME NEW w \in Writers, Overwrites(w), UNCHANGED <<forked, cut>>
  PROVE  Remembers(w)
BY DEF Overwrites, Remembers

LEMMA SaveDocumentStep ==
  ASSUME DocInv, NEW w \in Writers, SaveDocument(w) \/ DeleteDocument(w)
  PROVE  DocInv'
<1> DEFINE x == IF step[w] = "save" THEN held[w].doc ELSE NoDoc
<1>1. /\ step[w] \in {"save", "delete"} /\ step[w] \in Copying
      /\ docs' = [docs EXCEPT ![held[w].id] = x]
      /\ Overwrites(w) /\ Hold(w, "idle", Empty)
      /\ UNCHANGED <<amendments, notified, forked, cut, edges>>
  BY DEF SaveDocument, DeleteDocument, Done, Copying
<1>2. x \in Metas \union {NoDoc}
  BY <1>1 DEF DocInv, DocTypeInv, HeldAt
<1>3. w \notin behind /\ x # NoDoc => x = docs[held[w].id]
  BY <1>1 DEF DocInv, Agrees, Matches
<1> HIDE DEF x
<1>4. /\ DocTypeInv'
      /\ step'[w] = "idle" /\ held'[w] = Empty
      /\ \A v \in Writers \ {w} : Rests(v)
  BY <1>1, <1>2, WriteEffect, EmptyType, IdleHolds, HoldType
     DEF DocInv, DocTypeInv, DocTypeOK, Rests, DocLabels
<1>5. Remembers(w)
  BY <1>1, OverwritesRemembers
<1>6. \A v \in Writers \ {w} : Spares(v)
  BY <1>1, <1>2, <1>3, WriteSpares DEF Respects
<1>7. VersionsAreNumbered'
  BY <1>1, <1>2, <1>3, SameVersions
<1>8. EachHearsOnce'
  BY <1>1, <1>4, <1>5, HearsKept
<1>9. Agrees(w, step[w], held[w])'
  BY <1>4 DEF Agrees, Matches, ChainIsFree, Continues, Copying
<1> QED BY <1>4, <1>5, <1>6, <1>7, <1>8, <1>9, DocInvFrom

LEMMA ExportChainStep ==
  ASSUME DocInv, NEW w \in Writers, ExportChain(w)
  PROVE  DocInv'
<1> DEFINE d == held[w].id
           x == held[w].doc
           h == OnFile(d, NoDoc)
<1>1. /\ step[w] = "chain" /\ step[w] \in Copying
      /\ docs' = [docs EXCEPT ![d] = x]
      /\ Overwrites(w) /\ Hold(w, "load", h)
      /\ UNCHANGED <<amendments, notified, forked, cut, edges>>
  BY DEF ExportChain, Copying
<1>2. d \in DocIds /\ x \in Metas /\ x.chain = d /\ x # NoDoc
  BY <1>1, MetaNotNone DEF DocInv, DocTypeInv, HeldAt
<1>3. w \notin behind => /\ docs[d] # NoDoc /\ x.number = docs[d].number
                         /\ docs[d].chain = NoDoc
  BY <1>1 DEF DocInv, Agrees, Matches
<1>4. h \in Held /\ h.id = d
  BY <1>2, OnFileType
<1>5. HeldAt("load", h)
  BY <1>2, <1>4 DEF HeldAt, Copying
<1> HIDE DEF h
<1>6. /\ DocTypeInv'
      /\ step'[w] = "load" /\ held'[w] = h
      /\ \A v \in Writers \ {w} : Rests(v)
  BY <1>1, <1>2, <1>4, <1>5, WriteEffect, HoldType
     DEF DocInv, DocTypeInv, DocTypeOK, Rests, DocLabels
<1>7. Remembers(w)
  BY <1>1, OverwritesRemembers
<1>8. \A v \in Writers \ {w} : Spares(v)
  BY <1>1, <1>2, <1>3, WriteSpares DEF Respects
<1>9. VersionsAreNumbered'
  <2>1. /\ \A e \in DocIds : docs'[e] = IF e = d THEN x ELSE docs[e]
        /\ ~ muddled' => ~ muddled /\ w \notin behind
    BY <1>1, <1>2, WriteEffect
  <2>2. ~ forked' /\ ~ muddled' => \A e \in Filed : docs[e].chain # d
    BY <1>1, <2>1 DEF DocInv, Agrees, ChainIsFree
  <2> QED BY <1>1, <1>2, <2>1, <2>2 DEF DocInv, VersionsAreNumbered, Filed
<1>10. EachHearsOnce'
  BY <1>1, <1>6, <1>7, HearsKept
<1>11. Agrees(w, step[w], held[w])'
  BY <1>6 DEF Agrees, Matches, ChainIsFree, Continues, Copying
<1> QED BY <1>6, <1>7, <1>8, <1>9, <1>10, <1>11, DocInvFrom

LEMMA FanoutFinite ==
  ASSUME NEW d \in DocIds, NEW m \in Members
  PROVE  IsFiniteSet(InFanout(d, m)) /\ Cardinality(InFanout(d, m)) \in Nat
<1>1. InFanout(d, m) \subseteq Writers
  BY DEF InFanout
<1>2. IsFiniteSet(InFanout(d, m))
  BY <1>1, WritersAssumption, FS_Subset
<1> QED BY <1>2, FS_CardinalityType

\* A publication that is announced starts one fan-out to everybody.
LEMMA AnnouncedHears ==
  ASSUME DocInv, NEW w \in Writers, NEW d \in DocIds, step[w] # "fanout",
         step'[w] = "fanout", held'[w].id = d, held'[w].to = Members,
         \A v \in Writers \ {w} : Rests(v), Remembers(w), notified' = notified,
         ~ muddled' => edges' = [edges EXCEPT ![d] = @ + 1]
  PROVE  EachHearsOnce'
<1> SUFFICES ASSUME ~ cut', ~ muddled', NEW e \in DocIds, NEW m \in Members
             PROVE  notified[e][m] + Cardinality(InFanout(e, m)') = edges'[e]
  BY DEF EachHearsOnce
<1>1. /\ notified[e][m] + Cardinality(InFanout(e, m)) = edges[e]
      /\ edges'[e] = IF e = d THEN edges[e] + 1 ELSE edges[e]
      /\ notified[e][m] \in Nat /\ edges[e] \in Nat
  BY DEF DocInv, DocTypeInv, DocTypeOK, EachHearsOnce, Remembers
<1>2. w \notin InFanout(e, m)
  BY DEF InFanout
<1>3. CASE e = d
  <2>1. InFanout(e, m)' = InFanout(e, m) \union {w}
    BY <1>3 DEF InFanout, Rests
  <2>2. Cardinality(InFanout(e, m)') = Cardinality(InFanout(e, m)) + 1
    BY <1>2, <2>1, FanoutFinite, FS_AddElement
  <2> QED BY <1>1, <1>3, <2>2, FanoutFinite
<1>4. CASE e # d
  <2>1. InFanout(e, m)' = InFanout(e, m)
    BY <1>4 DEF InFanout, Rests
  <2> QED BY <1>1, <1>4, <2>1
<1> QED BY <1>3, <1>4

LEMMA PublishSaveStep ==
  ASSUME DocInv, NEW w \in Writers, PublishSave(w)
  PROVE  DocInv'
<1> DEFINE d == held[w].id
           x == held[w].doc
           all == [Empty EXCEPT !.id = d, !.to = Members]
           h == IF held[w].announce THEN all ELSE Empty
           label == IF held[w].announce THEN "fanout" ELSE "idle"
           shown == Appears(d, x)
<1>1. /\ step[w] = "publish" /\ step[w] \in Copying
      /\ docs' = [docs EXCEPT ![d] = x]
      /\ Overwrites(w)
      /\ UNCHANGED <<amendments, notified, forked, cut>>
  BY DEF PublishSave, Copying
<1>2. d \in DocIds /\ x \in Metas /\ x # NoDoc
  BY <1>1, MetaNotNone DEF DocInv, DocTypeInv, HeldAt
<1>3. Hold(w, label, h)
  BY DEF PublishSave, Done
<1>4. /\ shown => edges[d] < MaxEdges
      /\ edges' = [edges EXCEPT ![d] = IF shown THEN @ + 1 ELSE @]
  BY DEF PublishSave
<1>5. w \notin behind => /\ docs[d] # NoDoc /\ SameVersion(x, docs[d])
                         /\ held[w].announce <=> shown
  BY <1>1, <1>2 DEF DocInv, Agrees, Matches, Appears, Filed
<1>6. all \in Held /\ all.id = d /\ all.to = Members
  BY <1>2 DEF Empty, Held
<1>7. h \in Held /\ label \in DocLabels /\ HeldAt(label, h)
  BY <1>2, <1>6, EmptyType, IdleHolds DEF HeldAt, DocLabels, Copying
<1> HIDE DEF shown
<1>8. edges' \in [DocIds -> 0 .. MaxEdges]
  <2>1. edges \in [DocIds -> 0 .. MaxEdges] /\ MaxEdges \in Nat
    BY BoundsAssumption DEF DocInv, DocTypeInv, DocTypeOK
  <2>2. shown => edges[d] + 1 \in 0 .. MaxEdges
    BY <1>2, <1>4, <2>1
  <2> QED BY <1>4, <2>1, <2>2
<1> HIDE DEF h, label, all
<1>9. /\ DocTypeInv'
      /\ step'[w] = label /\ held'[w] = h
      /\ \A v \in Writers \ {w} : Rests(v)
  BY <1>1, <1>2, <1>3, <1>7, <1>8, WriteEffect, HoldType
     DEF DocInv, DocTypeInv, DocTypeOK, Rests
<1>10. Remembers(w)
  BY <1>1, OverwritesRemembers
<1>11. \A v \in Writers \ {w} : Spares(v)
  BY <1>1, <1>2, <1>5, WriteSpares DEF Respects, SameVersion
<1>12. VersionsAreNumbered'
  BY <1>1, <1>2, <1>5, SameVersions DEF SameVersion
<1>13. ~ muddled' => w \notin behind
  BY <1>1 DEF Overwrites
<1>14. EachHearsOnce'
  <2>1. CASE held[w].announce
    <3>1. step'[w] = "fanout" /\ held'[w].id = d /\ held'[w].to = Members
      BY <1>6, <1>9, <2>1 DEF h, label
    <3>2. ~ muddled' => edges' = [edges EXCEPT ![d] = @ + 1]
      BY <1>4, <1>5, <1>13, <2>1
    <3> QED BY <1>1, <1>2, <1>9, <1>10, <3>1, <3>2, AnnouncedHears
  <2>2. CASE ~ held[w].announce
    <3>1. step'[w] = "idle"
      BY <1>9, <2>2 DEF label
    <3>2. ~ muddled' => \A e \in DocIds : edges'[e] = edges[e]
      BY <1>4, <1>5, <1>13, <2>2 DEF DocInv, DocTypeInv, DocTypeOK
    <3>3. \A e \in DocIds, m \in Members : InFanout(e, m)' = InFanout(e, m)
      BY <1>1, <1>9, <3>1, SameFanout DEF DocInv
    <3> QED BY <1>1, <1>10, <3>2, <3>3 DEF DocInv, EachHearsOnce, Remembers
  <2> QED BY <2>1, <2>2
<1>15. Agrees(w, step[w], held[w])'
  <2>1. label \in {"fanout", "idle"}
    BY DEF label
  <2> QED BY <1>9, <2>1 DEF Agrees, Matches, ChainIsFree, Continues, Copying
<1> QED BY <1>9, <1>10, <1>11, <1>12, <1>14, <1>15, DocInvFrom

LEMMA NotifyStep ==
  ASSUME DocInv, NEW w \in Writers, Notify(w)
  PROVE  DocInv'
<1>1. PICK m \in held[w].to :
        /\ notified' = [notified EXCEPT ![held[w].id][m] = @ + 1]
        /\ IF held[w].to = {m}
           THEN Done(w)
           ELSE Hold(w, "fanout", [held[w] EXCEPT !.to = @ \ {m}])
  BY DEF Notify
<1> DEFINE d == held[w].id
           left == [held[w] EXCEPT !.to = @ \ {m}]
           h == IF held[w].to = {m} THEN Empty ELSE left
           label == IF held[w].to = {m} THEN "idle" ELSE "fanout"
<1>2. /\ step[w] = "fanout" /\ d \in DocIds /\ held[w] \in Held /\ m \in Members
      /\ UNCHANGED <<docs, amendments, behind, muddled, forked, cut, edges>>
  BY DEF Notify, DocInv, DocTypeInv, DocTypeOK, HeldAt, Held
<1>3. left \in Held /\ left.id = d /\ left.to = held[w].to \ {m}
  BY <1>2 DEF Held
<1>4. /\ h \in Held /\ label \in DocLabels /\ HeldAt(label, h) /\ Hold(w, label, h)
      /\ label = "fanout" => h.id = d
      /\ label = "fanout" => h.to = held[w].to \ {m}
      /\ label = "idle" => held[w].to \ {m} = {}
  BY <1>1, <1>2, <1>3, EmptyType, IdleHolds DEF HeldAt, DocLabels, Done, Copying
<1> HIDE DEF h, label, left
<1>5. \A e \in DocIds, n \in Members :
        notified'[e][n] = IF e = d /\ n = m THEN notified[e][n] + 1 ELSE notified[e][n]
  BY <1>1, <1>2 DEF DocInv, DocTypeInv, DocTypeOK
<1>6. notified' \in [DocIds -> [Members -> Nat]]
  <2>1. notified \in [DocIds -> [Members -> Nat]]
    BY DEF DocInv, DocTypeInv, DocTypeOK
  <2>2. [notified[d] EXCEPT ![m] = @ + 1] \in [Members -> Nat]
    BY <1>2, <2>1
  <2> QED BY <1>1, <2>1, <2>2
<1>7. /\ DocTypeInv'
      /\ step'[w] = label /\ held'[w] = h
      /\ \A v \in Writers \ {w} : Rests(v)
  BY <1>2, <1>4, <1>6, HoldType DEF DocInv, DocTypeInv, DocTypeOK, Rests
<1>8. Remembers(w) /\ \A v \in Writers : Spares(v)
  BY <1>2 DEF Remembers, Spares
<1>9. VersionsAreNumbered'
  BY <1>2 DEF DocInv, VersionsAreNumbered, Filed
<1>10. EachHearsOnce'
  <2> SUFFICES ASSUME ~ cut, ~ muddled, NEW e \in DocIds, NEW n \in Members
               PROVE  notified'[e][n] + Cardinality(InFanout(e, n)') = edges[e]
    BY <1>2 DEF EachHearsOnce
  <2>1. /\ notified[e][n] + Cardinality(InFanout(e, n)) = edges[e]
        /\ notified[e][n] \in Nat /\ edges[e] \in Nat
    BY DEF DocInv, DocTypeInv, DocTypeOK, EachHearsOnce
  <2>2. w \in InFanout(e, n)' <=> label = "fanout" /\ e = d /\ n \in held[w].to /\ n # m
    BY <1>4, <1>7 DEF InFanout
  <2>3. w \in InFanout(e, n) <=> e = d /\ n \in held[w].to
    BY <1>2 DEF InFanout
  <2>4. \A v \in Writers \ {w} : v \in InFanout(e, n)' <=> v \in InFanout(e, n)
    BY <1>7 DEF InFanout, Rests
  <2>5. InFanout(e, n) \subseteq Writers /\ InFanout(e, n)' \subseteq Writers
    BY DEF InFanout
  <2>6. CASE e = d /\ n = m
    <3>1. InFanout(e, n)' = InFanout(e, n) \ {w} /\ w \in InFanout(e, n)
      BY <1>1, <2>2, <2>3, <2>4, <2>5, <2>6
    <3>2. Cardinality(InFanout(e, n)') = Cardinality(InFanout(e, n)) - 1
      BY <3>1, FanoutFinite, FS_RemoveElement
    <3> QED BY <1>5, <2>1, <2>6, <3>2, FanoutFinite
  <2>7. CASE ~ (e = d /\ n = m)
    <3>1. w \in InFanout(e, n)' <=> w \in InFanout(e, n)
      BY <1>4, <2>2, <2>3, <2>7, <1>1, <1>7 DEF label
    <3>2. InFanout(e, n)' = InFanout(e, n)
      BY <2>4, <2>5, <3>1
    <3> QED BY <1>5, <2>1, <2>7, <3>2
  <2> QED BY <2>6, <2>7
<1>11. Agrees(w, step[w], held[w])'
  <2>1. label \in {"fanout", "idle"}
    BY DEF label
  <2> QED BY <1>7, <2>1 DEF Agrees, Matches, ChainIsFree, Continues, Copying
<1> QED BY <1>7, <1>8, <1>9, <1>10, <1>11, DocInvFrom

(***************************************************************************)
(* Amendments.                                                             *)
(***************************************************************************)
LEMMA ProposeStep ==
  ASSUME DocInv, NEW w \in Writers, NEW a \in Amendments, Propose(w, a)
  PROVE  DocInv'
<1>1. /\ amendments[a] = NoDoc
      /\ \A b \in Amendments : b # a => amendments'[b] = amendments[b]
      /\ UNCHANGED <<docs, notified, step, held, behind, muddled, forked, cut, edges>>
  BY DEF Propose, DocInv, DocTypeInv, DocTypeOK
<1>2. DocTypeInv'
  BY <1>1 DEF Propose, DocInv, DocTypeInv, DocTypeOK, AmendmentStatuses
<1>3. VersionsAreNumbered' /\ EachHearsOnce'
  BY <1>1 DEF DocInv, VersionsAreNumbered, EachHearsOnce, Filed, InFanout
<1>4. ASSUME NEW v \in Writers PROVE Agrees(v, step[v], held[v])'
  <2>1. Agrees(v, step[v], held[v]) /\ HeldAt(step[v], held[v])
    BY DEF DocInv, DocTypeInv
  <2>2. v \notin behind => Matches(v, step[v], held[v])'
    BY <1>1, <2>1 DEF Agrees, Matches, HeldAt
  <2> QED BY <1>1, <2>1, <2>2 DEF Agrees, ChainIsFree, Continues, Filed
<1> QED BY <1>2, <1>3, <1>4 DEF DocInv

LEMMA RuleStep ==
  ASSUME DocInv, NEW w \in Writers, Rule(w)
  PROVE  DocInv'
<1>1. /\ step[w] = "rule" /\ Overwrites(w) /\ Hold(w, "idle", Empty)
      /\ UNCHANGED <<docs, notified, forked, cut, edges>>
  BY DEF Rule, Done
<1>2. held[w].id \in Amendments /\ held[w].ruling \in AmendmentStatuses
  BY <1>1 DEF DocInv, DocTypeInv, HeldAt
<1>3. /\ amendments' \in [Amendments -> AmendmentStatuses \union {NoDoc}]
      /\ \A b \in Amendments : b # held[w].id => amendments'[b] = amendments[b]
  BY <1>2 DEF Rule, DocInv, DocTypeInv, DocTypeOK
<1>4. behind' \subseteq Writers /\ muddled' \in BOOLEAN
  BY <1>1 DEF DocInv, DocTypeInv, DocTypeOK, Overwrites, Overtaken
<1>5. /\ DocTypeInv'
      /\ step'[w] = "idle" /\ held'[w] = Empty
      /\ \A v \in Writers \ {w} : Rests(v)
  BY <1>1, <1>3, <1>4, EmptyType, IdleHolds, HoldType
     DEF DocInv, DocTypeInv, DocTypeOK, Rests, DocLabels
<1>6. Remembers(w)
  BY <1>1, OverwritesRemembers
<1>7. ASSUME NEW v \in Writers \ {w} PROVE Spares(v)
  <2>1. v \notin behind' /\ step[v] = "rule" => held[v].id # held[w].id
    BY <1>1 DEF Overwrites, Overtaken
  <2>2. step[v] = "rule" => held[v].id \in Amendments
    BY DEF DocInv, DocTypeInv, HeldAt
  <2> QED BY <1>1, <1>3, <2>1, <2>2 DEF Spares
<1>8. VersionsAreNumbered'
  BY <1>1 DEF DocInv, VersionsAreNumbered, Filed, Overwrites
<1>9. EachHearsOnce'
  BY <1>1, <1>5, <1>6, HearsKept
<1>10. Agrees(w, step[w], held[w])'
  BY <1>5 DEF Agrees, Matches, ChainIsFree, Continues, Copying
<1> QED BY <1>5, <1>6, <1>7, <1>8, <1>9, <1>10, DocInvFrom

(***************************************************************************)
(* The invariant holds.                                                    *)
(***************************************************************************)
LEMMA PublishingStep ==
  ASSUME DocInv, NEW w \in Writers, Publishing(w)
  PROVE  DocInv'
<1>1. ASSUME NEW d \in DocIds, NEW flag \in BOOLEAN, PublishLoad(w, d, flag)
      PROVE  DocInv'
  BY <1>1, PublishLoadStep DEF PublishLoad
<1>2. CASE ExportLoad(w)
  <2>1. held[w].id \in DocIds
    BY <1>2 DEF ExportLoad, Filed
  <2>2. TRUE \in BOOLEAN
    OBVIOUS
  <2> QED BY <1>2, <2>1, <2>2, PublishLoadStep DEF ExportLoad
<1> QED
  BY <1>1, <1>2, ExportInsertStep, ExportChainStep, PublishSaveStep, NotifyStep
     DEF Publishing

LEMMA DocInvStep ==
  ASSUME DocInv, [DocNext]_docVars
  PROVE  DocInv'
<1>1. ASSUME NEW w \in Writers, Drafting(w) PROVE DocInv'
  BY <1>1, CreateDocumentStep, CopyLoadStep, SaveDocumentStep DEF Drafting
<1>2. ASSUME NEW w \in Writers, Versioning(w) PROVE DocInv'
  BY <1>2, VersionLoadStep, VersionInsertStep DEF Versioning
<1>3. ASSUME NEW w \in Writers, Ruling(w) PROVE DocInv'
  BY <1>3, ProposeStep, RuleLoadStep, RuleStep DEF Ruling
<1>4. CASE DocNext
  BY <1>1, <1>2, <1>3, <1>4, PublishingStep, FaltersStep DEF DocNext
<1>5. CASE UNCHANGED docVars
  <2>1. DocTypeInv' /\ VersionsAreNumbered' /\ EachHearsOnce'
    BY <1>5 DEF docVars, DocInv, DocTypeInv, DocTypeOK, VersionsAreNumbered,
                EachHearsOnce, Filed, InFanout
  <2>2. \A v \in Writers : Agrees(v, step[v], held[v])'
    BY <1>5 DEF docVars, DocInv, Agrees, Matches, ChainIsFree, Continues, Filed
  <2> QED BY <2>1, <2>2 DEF DocInv
<1> QED BY <1>4, <1>5

LEMMA DocInvInit ==
  ASSUME DocInit
  PROVE  DocInv
<1>1. 0 \in 0 .. MaxEdges /\ [m \in Members |-> 0] \in [Members -> Nat]
  BY BoundsAssumption
<1>2. DocTypeOK
  BY <1>1, EmptyType DEF DocInit, DocTypeOK
<1>3. DocTypeInv
  BY <1>2, IdleHolds DEF DocInit, DocTypeInv
<1>4. VersionsAreNumbered
  BY DEF DocInit, VersionsAreNumbered, Filed
<1>5. EachHearsOnce
  <2>1. \A d \in DocIds, m \in Members :
          InFanout(d, m) = {} /\ notified[d][m] = 0 /\ edges[d] = 0
    BY DEF DocInit, InFanout
  <2> QED BY <2>1, FS_EmptySet DEF EachHearsOnce
<1>6. \A v \in Writers : Agrees(v, step[v], held[v])
  BY DEF DocInit, Agrees, Matches, ChainIsFree, Continues, Copying
<1> QED BY <1>3, <1>4, <1>5, <1>6 DEF DocInv

(***************************************************************************)
(* The theorems.                                                           *)
(***************************************************************************)
LEMMA DocInvariant == DocSpec => []DocInv
<1>1. DocInit => DocInv
  BY DocInvInit
<1>2. DocInv /\ [DocNext]_docVars => DocInv'
  BY DocInvStep
<1> QED BY <1>1, <1>2, PTL DEF DocSpec

\* Documents, amendments and the copies in flight are well formed, whichever
\* requests race and wherever they fail.
THEOREM DocTypeCorrect == DocSpec => []DocTypeOK
<1>1. DocInv => DocTypeOK
  BY DEF DocInv, DocTypeInv
<1> QED BY <1>1, DocInvariant, PTL

\* "Monotonic int per chain. Latest version has the highest number"
\* (document_meta_model.py:84): versions made of the latest one, and saves of
\* copies that are still current, never repeat a number, whatever is deleted.
THEOREM VersionsAlwaysNumbered == DocSpec => []VersionsAreNumbered
<1>1. DocInv => VersionsAreNumbered
  BY DEF DocInv
<1> QED BY <1>1, DocInvariant, PTL

\* Every passage from hidden to published is announced once to every
\* participant (document_service.py:136), however many publications,
\* unpublications and PV exports there are.
THEOREM EachAlwaysHearsOnce == DocSpec => []EachHearsOnce
<1>1. DocInv => EachHearsOnce
  BY DEF DocInv
<1> QED BY <1>1, DocInvariant, PTL

\* What RuledOnce and PublishedIsKept say of a step.
RulesFairly ==
  \A a \in Amendments :
    amendments[a] # NoDoc /\ amendments'[a] # amendments[a] /\ ~ muddled' =>
      amendments'[a] \in AmendmentTransitions[amendments[a]]

KeepsPublished == \A d \in Filed : docs[d].published /\ docs'[d] = NoDoc => muddled'

LEMMA RulesFairlyStep ==
  ASSUME DocInv, DocNext
  PROVE  RulesFairly
<1>1. PICK w \in Writers :
        Drafting(w) \/ Versioning(w) \/ Publishing(w) \/ Ruling(w) \/ Falters(w)
  BY DEF DocNext
<1>2. CASE Rule(w)
  <2>1. held[w].id \in Amendments
    BY <1>2 DEF DocInv, DocTypeInv, HeldAt, Rule
  <2>2. w \notin behind =>
          held[w].ruling \in AmendmentTransitions[amendments[held[w].id]]
    BY <1>2 DEF DocInv, Agrees, Matches, Rule
  <2> QED
    BY <1>2, <2>1, <2>2 DEF RulesFairly, Rule, Overwrites, DocInv, DocTypeInv, DocTypeOK
<1>3. ASSUME NEW a \in Amendments, Propose(w, a) PROVE RulesFairly
  BY <1>3 DEF RulesFairly, Propose, DocInv, DocTypeInv, DocTypeOK
<1>4. CASE UNCHANGED amendments
  BY <1>4 DEF RulesFairly
<1> QED
  BY <1>1, <1>2, <1>3, <1>4
     DEF Drafting, CreateDocument, PatchDocument, SaveDocument, DeleteDocumentLoad,
         DeleteDocument, Versioning, VersionLoad, VersionInsert, Publishing, PublishLoad,
         PublishSave, Notify, ExportInsert, ExportChain, ExportLoad, Ruling, RuleLoad,
         Falters

LEMMA KeepsPublishedStep ==
  ASSUME DocInv, DocNext
  PROVE  KeepsPublished
<1> SUFFICES ASSUME NEW d \in Filed, docs[d].published, docs'[d] = NoDoc PROVE muddled'
  BY DEF KeepsPublished
<1>1. d \in DocIds /\ docs[d] # NoDoc
  BY DEF Filed
<1>2. PICK w \in Writers :
        Drafting(w) \/ Versioning(w) \/ Publishing(w) \/ Ruling(w) \/ Falters(w)
  BY DEF DocNext
<1>3. HeldAt(step[w], held[w]) /\ (w \notin behind => Matches(w, step[w], held[w]))
  BY DEF DocInv, DocTypeInv, Agrees
<1>4. CASE DeleteDocument(w)
  <2>1. held[w].id = d
    BY <1>1, <1>4 DEF DeleteDocument, DocInv, DocTypeInv, DocTypeOK
  <2>2. w \in behind
    BY <1>1, <1>3, <1>4, <2>1 DEF Matches, DeleteDocument
  <2> QED BY <1>4, <2>2 DEF DeleteDocument, Overwrites
<1>5. ASSUME SaveDocument(w) \/ PublishSave(w) \/ ExportChain(w) PROVE FALSE
  <2>1. held[w].doc # NoDoc
    BY <1>3, <1>5, MetaNotNone DEF HeldAt, Copying, SaveDocument, PublishSave, ExportChain
  <2> QED
    BY <1>1, <1>5, <2>1
       DEF SaveDocument, PublishSave, ExportChain, DocInv, DocTypeInv, DocTypeOK
<1>6. ASSUME NEW e \in DocIds, NEW doc, Insert(e, doc) PROVE FALSE
  BY <1>1, <1>6 DEF Insert, Fresh, Filed, DocInv, DocTypeInv, DocTypeOK
<1>7. CASE UNCHANGED docs
  BY <1>1, <1>7
<1> QED
  BY <1>2, <1>4, <1>5, <1>6, <1>7
     DEF Drafting, CreateDocument, PatchDocument, DeleteDocumentLoad, Versioning,
         VersionLoad, VersionInsert, Publishing, PublishLoad, Notify, ExportInsert,
         ExportLoad, Ruling, Propose, RuleLoad, Rule, Falters

\* An amendment is ruled on once and by its life cycle, unless two rulings
\* overlapped (document_service.py:97).
THEOREM AmendmentRuledOnce == DocSpec => RuledOnce
<1>1. DocInv /\ [DocNext]_docVars => [RulesFairly]_docVars
  BY RulesFairlyStep
<1>2. DocSpec => [][RulesFairly]_docVars
  BY <1>1, DocInvariant, PTL DEF DocSpec
<1> QED BY <1>2 DEF RuledOnce, RulesFairly

\* A published document is deleted only by a request that loaded it hidden and
\* was overtaken (document_controller.py:170).
THEOREM PublishedDocumentIsKept == DocSpec => PublishedIsKept
<1>1. DocInv /\ [DocNext]_docVars => [KeepsPublished]_docVars
  BY KeepsPublishedStep
<1>2. DocSpec => [][KeepsPublished]_docVars
  BY <1>1, DocInvariant, PTL DEF DocSpec
<1> QED BY <1>2 DEF PublishedIsKept, KeepsPublished
=============================================================================
