------------------------------ MODULE Documents ------------------------------
(***************************************************************************)
(* The documents of one séance (DocumentMeta), their amendments, the       *)
(* minutes (PV) that an export adds to them, and the notification each     *)
(* participant gets when a document is published.                          *)
(*                                                                         *)
(* An action is the code between two database calls; save() writes the     *)
(* whole copy a request loaded, and inserts it again when the document was *)
(* deleted meanwhile.  A patch changes nothing that is modelled here, but  *)
(* its save writes all of it.                                              *)
(***************************************************************************)
EXTENDS Naturals, FiniteSets

CONSTANTS
  Writers,       \* requests being served at a time; a slot is reused
  DocIds,        \* bound: the documents there may be
  Amendments,    \* bound: the amendments there may be
  Members,       \* the participants of the séance
  MaxVersion,    \* bound on version numbers
  MaxEdges,      \* bound: how often one document is published
  NoDoc

Numbers == 1 .. MaxVersion

\* `chain' is the id of the chain's first version; NoDoc stands for the fresh
\* id that export writes first.
Metas ==
  [chain: DocIds \union {NoDoc}, number: Numbers, parent: DocIds \union {NoDoc},
   published: BOOLEAN]

AmendmentTransitions ==
  [PROPOSE |-> {"VALIDE", "REJETE"}, VALIDE |-> {}, REJETE |-> {}]

AmendmentStatuses == {"PROPOSE", "VALIDE", "REJETE"}

ASSUME BoundsAssumption == MaxVersion \in Nat \ {0} /\ MaxEdges \in Nat
ASSUME WritersAssumption == IsFiniteSet(Writers)
ASSUME NoDocAssumption == NoDoc \notin DocIds \union Metas \union AmendmentStatuses

VARIABLES
  docs,        \* the stored DocumentMeta
  amendments,  \* the stored amendments' statuses
  notified,    \* how many DOCUMENT_PUBLISHED rows each member has of each document
  step,        \* where each request waits
  held,        \* what it holds in memory meanwhile
  behind,      \* history: requests whose reads have been overwritten since
  muddled,     \* history: such a request has written all the same
  forked,      \* history: a version was made of what was not the latest one
  cut,         \* history: a publication failed before its last notification
  edges        \* history: how often each document went from hidden to published

docVars == <<docs, amendments, notified, step, held, behind, muddled,
             forked, cut, edges>>

Held ==
  [id: DocIds \union Amendments \union {NoDoc},
   doc: Metas \union {NoDoc}, ruling: AmendmentStatuses \union {NoDoc},
   announce: BOOLEAN, to: SUBSET Members]

Empty == [id |-> NoDoc, doc |-> NoDoc, ruling |-> NoDoc, announce |-> FALSE, to |-> {}]

DocTypeOK ==
  /\ docs \in [DocIds -> Metas \union {NoDoc}]
  /\ amendments \in [Amendments -> AmendmentStatuses \union {NoDoc}]
  /\ notified \in [DocIds -> [Members -> Nat]]
  /\ step \in [Writers -> {"idle", "insert", "save", "chain", "load",
                           "publish", "fanout", "delete", "rule"}]
  /\ held \in [Writers -> Held]
  /\ behind \subseteq Writers
  /\ muddled \in BOOLEAN /\ forked \in BOOLEAN /\ cut \in BOOLEAN
  /\ edges \in [DocIds -> 0 .. MaxEdges]

DocInit ==
  /\ docs = [d \in DocIds |-> NoDoc]
  /\ amendments = [a \in Amendments |-> NoDoc]
  /\ notified = [d \in DocIds |-> [m \in Members |-> 0]]
  /\ step = [w \in Writers |-> "idle"]
  /\ held = [w \in Writers |-> Empty]
  /\ behind = {}
  /\ muddled = FALSE
  /\ forked = FALSE
  /\ cut = FALSE
  /\ edges = [d \in DocIds |-> 0]

Filed == {d \in DocIds : docs[d] # NoDoc}

Hold(w, label, h) ==
  /\ step' = [step EXCEPT ![w] = label]
  /\ held' = [held EXCEPT ![w] = h]

Done(w) == Hold(w, "idle", Empty)

OnFile(d, doc) == [Empty EXCEPT !.id = d, !.doc = doc]

\* An id nothing refers to, whose notifications are forgotten with its document.
Fresh(d) ==
  /\ d \notin Filed
  /\ \A w \in Writers : held[w].id # d /\ (held[w].doc # NoDoc => held[w].doc.parent # d)
  /\ \A e \in Filed : docs[e].parent # d /\ docs[e].chain # d

Insert(d, doc) ==
  /\ Fresh(d)
  /\ docs' = [docs EXCEPT ![d] = doc]
  /\ notified' = [notified EXCEPT ![d] = [m \in Members |-> 0]]
  /\ edges' = [edges EXCEPT ![d] = 0]

\* Whoever has loaded the id that w writes.
Overtaken(w) ==
  {v \in Writers \ {w} :
     held[v].id = held[w].id /\ step[v] \in {"save", "chain", "publish", "delete", "rule"}}

Overwrites(w) ==
  /\ behind' = (behind \union Overtaken(w)) \ {w}
  /\ muddled' = (muddled \/ w \in behind)

(***************************************************************************)
(* create and create_version.  The DocumentVersion row that follows is a   *)
(* copy of the number that nothing reads back but a list; it is left out.  *)
(***************************************************************************)
CreateDocument(w, d) ==
  /\ step[w] = "idle"
  /\ Insert(d, [chain |-> d, number |-> 1, parent |-> NoDoc, published |-> FALSE])
  /\ UNCHANGED <<amendments, step, held, behind, muddled, forked, cut>>

VersionLoadSame(w, p) ==   \* variant: the number is not advanced
  /\ step[w] = "idle"
  /\ p \in Filed
  /\ docs[p].number < MaxVersion
  /\ Hold(w, "insert", OnFile(NoDoc, [docs[p] EXCEPT !.parent = p, !.published = FALSE]))
  /\ UNCHANGED <<docs, amendments, notified, behind, muddled, forked, cut, edges>>

VersionLoad(w, p) ==
  /\ step[w] = "idle"
  /\ p \in Filed
  /\ docs[p].number < MaxVersion
  /\ Hold(w, "insert",
          OnFile(NoDoc, [docs[p] EXCEPT !.number = @ + 1, !.parent = p,
                                        !.published = FALSE]))
  /\ UNCHANGED <<docs, amendments, notified, behind, muddled, forked, cut, edges>>

Latest(p) ==
  /\ p \in Filed
  /\ \A e \in Filed : docs[e].chain = docs[p].chain => docs[e].number <= docs[p].number

VersionInsert(w, d) ==
  /\ step[w] = "insert"
  /\ Insert(d, held[w].doc)
  /\ forked' = (forked \/ ~ Latest(held[w].doc.parent))
  /\ Done(w)
  /\ UNCHANGED <<amendments, behind, muddled, cut>>

(***************************************************************************)
(* patch and delete.                                                       *)
(***************************************************************************)
PatchDocument(w, d) ==
  /\ step[w] = "idle"
  /\ d \in Filed
  /\ Hold(w, "save", OnFile(d, docs[d]))
  /\ UNCHANGED <<docs, amendments, notified, behind, muddled, forked, cut, edges>>

SaveDocument(w) ==
  /\ step[w] = "save"
  /\ docs' = [docs EXCEPT ![held[w].id] = held[w].doc]
  /\ Overwrites(w)
  /\ Done(w)
  /\ UNCHANGED <<amendments, notified, forked, cut, edges>>

DeleteDocumentLoadAny(w, d) ==   \* variant: a published document may be deleted
  /\ step[w] = "idle"
  /\ d \in Filed
  /\ Hold(w, "delete", OnFile(d, docs[d]))
  /\ UNCHANGED <<docs, amendments, notified, behind, muddled, forked, cut, edges>>

DeleteDocumentLoad(w, d) ==
  /\ step[w] = "idle"
  /\ d \in Filed
  /\ ~ docs[d].published
  /\ Hold(w, "delete", OnFile(d, docs[d]))
  /\ UNCHANGED <<docs, amendments, notified, behind, muddled, forked, cut, edges>>

DeleteDocument(w) ==
  /\ step[w] = "delete"
  /\ docs' = [docs EXCEPT ![held[w].id] = NoDoc]
  /\ Overwrites(w)
  /\ Done(w)
  /\ UNCHANGED <<amendments, notified, forked, cut, edges>>

(***************************************************************************)
(* publish: save, then one notification per participant when the copy had  *)
(* been hidden.  The fan-out is best effort.                               *)
(***************************************************************************)
ToPublish(d, flag) ==
  [OnFile(d, [docs[d] EXCEPT !.published = flag])
     EXCEPT !.announce = flag /\ ~ docs[d].published]

PublishLoad(w, d, flag) ==
  /\ step[w] = "idle"
  /\ d \in Filed
  /\ docs[d].published \/ edges[d] < MaxEdges
  /\ Hold(w, "publish", ToPublish(d, flag))
  /\ UNCHANGED <<docs, amendments, notified, behind, muddled, forked, cut, edges>>

Appears(d, doc) == d \in Filed /\ ~ docs[d].published /\ doc.published

PublishSaveAlways(w) ==   \* variant: a document that was published is announced again
  LET d == held[w].id IN
  /\ step[w] = "publish"
  /\ Appears(d, held[w].doc) => edges[d] < MaxEdges
  /\ docs' = [docs EXCEPT ![d] = held[w].doc]
  /\ edges' = [edges EXCEPT ![d] = IF Appears(d, held[w].doc) THEN @ + 1 ELSE @]
  /\ Overwrites(w)
  /\ Hold(w, "fanout", [Empty EXCEPT !.id = d, !.to = Members])
  /\ UNCHANGED <<amendments, notified, forked, cut>>

PublishSave(w) ==
  LET d == held[w].id IN
  /\ step[w] = "publish"
  /\ Appears(d, held[w].doc) => edges[d] < MaxEdges
  /\ docs' = [docs EXCEPT ![d] = held[w].doc]
  /\ edges' = [edges EXCEPT ![d] = IF Appears(d, held[w].doc) THEN @ + 1 ELSE @]
  /\ Overwrites(w)
  /\ IF held[w].announce
     THEN Hold(w, "fanout", [Empty EXCEPT !.id = d, !.to = Members])
     ELSE Done(w)
  /\ UNCHANGED <<amendments, notified, forked, cut>>

\* emit_one, for the next member of the list.
Notify(w) ==
  /\ step[w] = "fanout"
  /\ \E m \in held[w].to :
       /\ notified' = [notified EXCEPT ![held[w].id][m] = @ + 1]
       /\ IF held[w].to = {m}
          THEN Done(w)
          ELSE Hold(w, "fanout", [held[w] EXCEPT !.to = @ \ {m}])
  /\ UNCHANGED <<docs, amendments, behind, muddled, forked, cut, edges>>

(***************************************************************************)
(* PvExportService.export, once the file is uploaded: the document under a *)
(* fresh chain id, the chain id corrected, and publish.                    *)
(***************************************************************************)
ExportInsert(w, d) ==
  /\ step[w] = "idle"
  /\ LET doc == [chain |-> NoDoc, number |-> 1, parent |-> NoDoc, published |-> FALSE]
     IN /\ Insert(d, doc)
        /\ Hold(w, "chain", OnFile(d, [doc EXCEPT !.chain = d]))
  /\ UNCHANGED <<amendments, behind, muddled, forked, cut>>

ExportChain(w) ==
  /\ step[w] = "chain"
  /\ docs' = [docs EXCEPT ![held[w].id] = held[w].doc]
  /\ Overwrites(w)
  /\ Hold(w, "load", OnFile(held[w].id, NoDoc))
  /\ UNCHANGED <<amendments, notified, forked, cut, edges>>

ExportLoad(w) ==
  LET d == held[w].id IN
  /\ step[w] = "load"
  /\ d \in Filed
  /\ Hold(w, "publish", ToPublish(d, TRUE))
  /\ UNCHANGED <<docs, amendments, notified, behind, muddled, forked, cut, edges>>

(***************************************************************************)
(* Amendments.                                                             *)
(***************************************************************************)
Propose(w, a) ==
  /\ step[w] = "idle"
  /\ amendments[a] = NoDoc
  /\ amendments' = [amendments EXCEPT ![a] = "PROPOSE"]
  /\ UNCHANGED <<docs, notified, step, held, behind, muddled, forked, cut, edges>>

RuleLoad(w, a, decision) ==
  /\ step[w] = "idle"
  /\ amendments[a] # NoDoc
  /\ decision \in AmendmentTransitions[amendments[a]]
  /\ Hold(w, "rule", [Empty EXCEPT !.id = a, !.ruling = decision])
  /\ UNCHANGED <<docs, amendments, notified, behind, muddled, forked, cut, edges>>

Rule(w) ==
  /\ step[w] = "rule"
  /\ amendments' = [amendments EXCEPT ![held[w].id] = held[w].ruling]
  /\ Overwrites(w)
  /\ Done(w)
  /\ UNCHANGED <<docs, notified, forked, cut, edges>>

\* A database call raises, or the worker dies.
Falters(w) ==
  /\ step[w] # "idle"
  /\ cut' = (cut \/ step[w] = "fanout")
  /\ behind' = behind \ {w}
  /\ Done(w)
  /\ UNCHANGED <<docs, amendments, notified, muddled, forked, edges>>

Drafting(w) ==
  \/ \E d \in DocIds : CreateDocument(w, d) \/ PatchDocument(w, d) \/ DeleteDocumentLoad(w, d)
  \/ SaveDocument(w) \/ DeleteDocument(w)

Versioning(w) == \E d \in DocIds : VersionLoad(w, d) \/ VersionInsert(w, d)

Publishing(w) ==
  \/ \E d \in DocIds :
       ExportInsert(w, d) \/ \E flag \in BOOLEAN : PublishLoad(w, d, flag)
  \/ ExportChain(w) \/ ExportLoad(w) \/ PublishSave(w) \/ Notify(w)

Ruling(w) ==
  \/ \E a \in Amendments :
       Propose(w, a) \/ \E decision \in AmendmentStatuses : RuleLoad(w, a, decision)
  \/ Rule(w)

DocNext ==
  \E w \in Writers : Drafting(w) \/ Versioning(w) \/ Publishing(w) \/ Ruling(w) \/ Falters(w)

DocSpec == DocInit /\ [][DocNext]_docVars

(***************************************************************************)
(* Properties.                                                             *)
(***************************************************************************)
\* "Monotonic int per chain. Latest version has the highest number"
\* (document_meta_model.py:84): two versions of a chain never share a number,
\* as long as each was made of the latest one (document_service.py:56 looks at
\* the parent alone) and no overtaken copy was saved.
VersionsAreNumbered ==
  ~ forked /\ ~ muddled =>
    \A d, e \in Filed :
      docs[d].chain = docs[e].chain /\ docs[d].chain # NoDoc
        /\ docs[d].number = docs[e].number => d = e

InFanout(d, m) ==
  {w \in Writers : step[w] = "fanout" /\ held[w].id = d /\ m \in held[w].to}

\* "re-publishing an already-published doc shouldn't spam every sénateur's
\* inbox" (document_service.py:136): every passage from hidden to published
\* reaches every participant once, unless the fan-out was cut short
\* (notification_service.py:68) or two requests wrote the document at once.
EachHearsOnce ==
  ~ cut /\ ~ muddled =>
    \A d \in DocIds, m \in Members :
      notified[d][m] + Cardinality(InFanout(d, m)) = edges[d]

\* An amendment is ruled on once, unless two rulings overlapped
\* (document_service.py:97).
RuledOnce ==
  [][\A a \in Amendments :
       amendments[a] # NoDoc /\ amendments'[a] # amendments[a] /\ ~ muddled' =>
         amendments'[a] \in AmendmentTransitions[amendments[a]]]_docVars

\* A document that is published is not deleted (document_controller.py:170):
\* only a delete that loaded it hidden does so.
PublishedIsKept ==
  [][\A d \in Filed : docs[d].published /\ docs'[d] = NoDoc => muddled']_docVars
=============================================================================
