------------------------ MODULE GroupValidationProofs ------------------------
(***************************************************************************)
(* A validation request stays below its root and its panel decides it, for *)
(* any number of workers, requests, validators and organisations and any   *)
(* depth: what goes wrong goes wrong in one of the ways `marks' names.     *)
(***************************************************************************)
EXTENDS GroupValidation, WellFoundedInduction, TLAPS

(***************************************************************************)
(* Numbers.  The library's induction theorems are about operators; these   *)
(* say the same of sets of numbers, which is all that is needed here.      *)
(***************************************************************************)
\* A set of naturals has a least element.
LEMMA Least ==
  ASSUME NEW T \in SUBSET Nat, T # {}
  PROVE  \E m \in T : \A n \in T : m <= n
<1>1. PICK m \in T : \A n \in T : ~ (<<n, m>> \in OpToRel(<, Nat))
  BY NatLessThanWellFounded, WFMin
<1>2. ASSUME NEW n \in T PROVE m <= n
  <2>1. ~ (<<n, m>> \in OpToRel(<, Nat))
    BY <1>1
  <2>2. ~ (n < m)
    BY <2>1, Zenon DEF OpToRel
  <2> QED  BY <2>2
<1> QED  BY <1>2

\* A set of naturals that has 0, and with each of its elements up to max the
\* next one, has every number up to max + 1.
LEMMA UpTo ==
  ASSUME NEW max \in Nat, NEW S, 0 \in S,
         \A n \in 0 .. max : n \in S => n + 1 \in S
  PROVE  \A n \in 0 .. max + 1 : n \in S
<1> DEFINE T == {n \in 0 .. max + 1 : n \notin S}
<1> SUFFICES ASSUME T # {} PROVE FALSE
  OBVIOUS
<1>1. T \in SUBSET Nat
  OBVIOUS
<1>2. PICK m \in T : \A n \in T : m <= n
  <2> HIDE DEF T
  <2> QED  BY <1>1, Least
<1>3. m \in 1 .. max + 1 /\ m \notin S
  BY <1>2
<1>4. m - 1 \in 0 .. max /\ m - 1 \notin T
  BY <1>2, <1>3
<1>5. m - 1 \in S
  BY <1>4
<1>6. (m - 1) + 1 = m
  BY <1>3
<1> QED  BY <1>3, <1>4, <1>5, <1>6

\* The validator asked first is one of those to be asked.
LEMMA FirstIsOne ==
  ASSUME NEW S \in SUBSET Users, S # {}
  PROVE  First(S) \in S
<1>1. \E m \in S : \A n \in S : m <= n
  BY UsersAssumption, Least
<1> QED  BY <1>1 DEF First

(***************************************************************************)
(* The walk to the root, in any collection of requests.                    *)
(***************************************************************************)
Depth == 0 .. MaxDepth + 2

\* One step of the walk: what comes after the ancestor a.
Above(docs, a) == IF a = None THEN None ELSE docs[a].parent

IsWalk(g, docs, p, max) ==
  g = [n \in 0 .. max |-> IF n = 0 THEN p ELSE Above(docs, g[n - 1])]

Line(docs, p) == CHOOSE g : IsWalk(g, docs, p, MaxDepth + 2)

EndOf(line) ==
  line[CHOOSE n \in 0 .. MaxDepth + 1 : line[n] # None /\ line[n + 1] = None]

\* A walk of any length exists: it is extended step by step.
LEMMA WalkExists ==
  ASSUME NEW docs, NEW p, NEW max \in Nat
  PROVE  \E g : IsWalk(g, docs, p, max)
<1> DEFINE S == {n \in Nat : \E g : IsWalk(g, docs, p, n)}
<1>1. 0 \in S
  <2> DEFINE g == [n \in 0 .. 0 |-> p]
  <2>1. IsWalk(g, docs, p, 0)
    BY DEF IsWalk
  <2> QED  BY <2>1
<1>2. ASSUME NEW k \in 0 .. max, k \in S PROVE k + 1 \in S
  <2>1. PICK f : IsWalk(f, docs, p, k)
    BY <1>2
  <2> DEFINE g == [n \in 0 .. k + 1 |-> IF n = k + 1 THEN Above(docs, f[k]) ELSE f[n]]
  <2>2. \A n \in 0 .. k + 1 : g[n] = IF n = 0 THEN p ELSE Above(docs, g[n - 1])
    <3> SUFFICES ASSUME NEW n \in 0 .. k + 1
                 PROVE  g[n] = IF n = 0 THEN p ELSE Above(docs, g[n - 1])
      OBVIOUS
    <3>1. CASE n = k + 1
      BY <3>1
    <3>2. CASE n # k + 1
      <4>1. n \in 0 .. k /\ g[n] = f[n] /\ (n # 0 => g[n - 1] = f[n - 1])
        BY <3>2
      <4>2. f[n] = IF n = 0 THEN p ELSE Above(docs, f[n - 1])
        BY <2>1, <4>1 DEF IsWalk
      <4> QED  BY <4>1, <4>2
    <3> QED  BY <3>1, <3>2
  <2>3. g = [n \in 0 .. k + 1 |-> g[n]]
    OBVIOUS
  <2> HIDE DEF g
  <2>4. IsWalk(g, docs, p, k + 1)
    BY <2>2, <2>3 DEF IsWalk
  <2> QED  BY <2>4
<1> HIDE DEF S
<1>3. max \in S
  BY <1>1, <1>2, UpTo
<1> QED  BY <1>3 DEF S

\* The line of p is p, then what is above it, and so on.
LEMMA Walk ==
  ASSUME NEW docs, NEW p
  PROVE  /\ Line(docs, p) = [n \in Depth |-> Line(docs, p)[n]]
         /\ Line(docs, p)[0] = p
         /\ \A n \in 0 .. MaxDepth + 1 :
              Line(docs, p)[n + 1] = Above(docs, Line(docs, p)[n])
<1>1. IsWalk(Line(docs, p), docs, p, MaxDepth + 2)
  BY WalkExists, DepthAssumption DEF Line
<1> HIDE DEF Line
<1> QED  BY <1>1, DepthAssumption DEF IsWalk, Depth

\* Past the root there is nothing.
LEMMA NothingAboveRoot ==
  ASSUME NEW docs, NEW p, NEW n \in Depth, Line(docs, p)[n] = None,
         NEW m \in Depth, n <= m
  PROVE  Line(docs, p)[m] = None
<1> DEFINE L == Line(docs, p)
           S == {k \in Nat : n + k > MaxDepth + 2 \/ L[n + k] = None}
<1>1. 0 \in S
  BY DEF Depth
<1>2. ASSUME NEW k \in 0 .. MaxDepth + 1, k \in S PROVE k + 1 \in S
  <2>1. CASE n + k <= MaxDepth + 1
    <3>1. n + k \in 0 .. MaxDepth + 1 /\ L[n + k] = None
      BY <1>2, <2>1, DepthAssumption DEF Depth
    <3>2. L[(n + k) + 1] = None
      BY <3>1, Walk DEF Above
    <3>3. (n + k) + 1 = n + (k + 1)
      BY DEF Depth
    <3> HIDE DEF L
    <3> QED  BY <3>2, <3>3
  <2>2. CASE n + k > MaxDepth + 1
    BY <2>2, DepthAssumption DEF Depth
  <2> QED  BY <2>1, <2>2, DepthAssumption DEF Depth
<1> HIDE DEF S, L
<1>3. \A k \in 0 .. MaxDepth + 2 : k \in S
  <2>1. MaxDepth + 1 \in Nat /\ (MaxDepth + 1) + 1 = MaxDepth + 2
    BY DepthAssumption
  <2> QED  BY <1>1, <1>2, <2>1, UpTo
<1>4. m - n \in 0 .. MaxDepth + 2 /\ n + (m - n) = m
  BY DepthAssumption DEF Depth
<1>5. n + (m - n) > MaxDepth + 2 \/ L[n + (m - n)] = None
  BY <1>3, <1>4 DEF S
<1>6. ~ (m > MaxDepth + 2)
  BY DepthAssumption DEF Depth
<1>7. L[m] = None
  BY <1>4, <1>5, <1>6
<1> QED  BY <1>7 DEF L

\* Where a line ends is where the walk has nothing after.
LEMMA EndIsUnique ==
  ASSUME NEW docs, NEW p, NEW n \in 0 .. MaxDepth + 1,
         Line(docs, p)[n] # None, Line(docs, p)[n + 1] = None
  PROVE  EndOf(Line(docs, p)) = Line(docs, p)[n]
<1> DEFINE L == Line(docs, p)
           Ends(k) == L[k] # None /\ L[k + 1] = None
           c == CHOOSE k \in 0 .. MaxDepth + 1 : Ends(k)
<1>1. \A k \in 0 .. MaxDepth + 1 : Ends(k) => k = n
  <2> SUFFICES ASSUME NEW k \in 0 .. MaxDepth + 1, Ends(k), k # n PROVE FALSE
    OBVIOUS
  <2> HIDE DEF L
  <2>1. CASE k < n
    <3>1. k + 1 \in Depth /\ n \in Depth /\ k + 1 <= n
      BY <2>1, DepthAssumption DEF Depth
    <3> QED  BY <3>1, NothingAboveRoot DEF L
  <2>2. CASE n < k
    <3>1. n + 1 \in Depth /\ k \in Depth /\ n + 1 <= k
      BY <2>2, DepthAssumption DEF Depth
    <3> QED  BY <3>1, NothingAboveRoot DEF L
  <2> QED  BY <2>1, <2>2, DepthAssumption
<1>2. Ends(n)
  OBVIOUS
<1> HIDE DEF Ends
<1>3. c \in 0 .. MaxDepth + 1 /\ Ends(c)
  BY <1>2
<1>4. c = n
  BY <1>1, <1>3
<1> QED  BY <1>4 DEF EndOf, c, Ends, L

\* A line that is short enough ends.
LEMMA LineEnds ==
  ASSUME NEW docs, NEW p, p # None, NEW m \in Depth, Line(docs, p)[m] = None
  PROVE  \E n \in 0 .. MaxDepth + 1 :
           /\ n < m
           /\ Line(docs, p)[n] # None
           /\ Line(docs, p)[n + 1] = None
<1> DEFINE L == Line(docs, p)
           T == {n \in Depth : L[n] = None}
<1>1. T \in SUBSET Nat /\ m \in T
  BY DEF Depth
<1>2. PICK k \in T : \A n \in T : k <= n
  <2> HIDE DEF T
  <2> QED  BY <1>1, Least
<1>3. k # 0 /\ k <= m
  <2>1. L[0] = p
    BY Walk
  <2> HIDE DEF L
  <2> QED  BY <1>1, <1>2, <2>1
<1>4. k - 1 \in 0 .. MaxDepth + 1 /\ k - 1 \in Depth /\ k - 1 \notin T /\ (k - 1) + 1 = k
      /\ k - 1 < m
  BY <1>2, <1>3, DepthAssumption DEF Depth
<1>5. L[k - 1] # None /\ L[(k - 1) + 1] = None
  BY <1>2, <1>4
<1> HIDE DEF L, T
<1> QED  BY <1>4, <1>5 DEF L

\* A walk that starts among the requests D, all of whose parents are among
\* them, stays there; and only their parents matter to it.
LEMMA WalkStays ==
  ASSUME NEW docs, NEW D, NEW p \in D,
         \A r \in D : docs[r].parent \in D \union {None}
  PROVE  \A n \in Depth : Line(docs, p)[n] \in D \union {None}
<1> DEFINE L == Line(docs, p)
           S == {n \in Depth : L[n] \in D \union {None}}
<1>1. 0 \in S
  BY Walk, DepthAssumption DEF Depth
<1>2. ASSUME NEW k \in 0 .. MaxDepth + 1, k \in S PROVE k + 1 \in S
  <2>1. L[k + 1] = Above(docs, L[k])
    BY Walk
  <2>2. k + 1 \in Depth
    BY DepthAssumption DEF Depth
  <2> HIDE DEF L
  <2>3. L[k + 1] \in D \union {None}
    BY <1>2, <2>1 DEF Above
  <2> QED  BY <2>2, <2>3
<1> HIDE DEF S
<1>3. \A n \in 0 .. MaxDepth + 2 : n \in S
  <2>1. MaxDepth + 1 \in Nat /\ (MaxDepth + 1) + 1 = MaxDepth + 2
    BY DepthAssumption
  <2> QED  BY <1>1, <1>2, <2>1, UpTo
<1> QED  BY <1>3 DEF S, Depth

LEMMA SameLine ==
  ASSUME NEW docs, NEW docs2, NEW D, NEW p \in D,
         \A r \in D : /\ docs[r].parent \in D \union {None}
                      /\ docs2[r].parent = docs[r].parent
  PROVE  Line(docs2, p) = Line(docs, p)
<1> DEFINE L == Line(docs, p)
           M == Line(docs2, p)
           S == {n \in Depth : M[n] = L[n]}
<1>1. 0 \in S
  BY Walk, DepthAssumption DEF Depth
<1>2. ASSUME NEW k \in 0 .. MaxDepth + 1, k \in S PROVE k + 1 \in S
  <2>1. L[k + 1] = Above(docs, L[k]) /\ M[k + 1] = Above(docs2, M[k])
    BY Walk
  <2>2. k \in Depth /\ k + 1 \in Depth
    BY DepthAssumption DEF Depth
  <2>3. L[k] \in D \union {None}
    BY <2>2, WalkStays
  <2> HIDE DEF L, M
  <2>4. M[k + 1] = L[k + 1]
    BY <1>2, <2>1, <2>3 DEF Above
  <2> QED  BY <2>2, <2>4
<1> HIDE DEF S
<1>3. \A n \in 0 .. MaxDepth + 2 : n \in S
  <2>1. MaxDepth + 1 \in Nat /\ (MaxDepth + 1) + 1 = MaxDepth + 2
    BY DepthAssumption
  <2> QED  BY <1>1, <1>2, <2>1, UpTo
<1>4. \A n \in Depth : M[n] = L[n]
  BY <1>3 DEF S, Depth
<1>5. L = [n \in Depth |-> L[n]] /\ M = [n \in Depth |-> M[n]]
  BY Walk
<1> HIDE DEF L, M
<1>6. M = L
  BY <1>4, <1>5
<1> QED  BY <1>6 DEF L, M

\* The line of a sub-request is itself, then its parent's.
LEMMA LineOfChild ==
  ASSUME NEW docs, NEW r, r # None
  PROVE  \A n \in 0 .. MaxDepth + 1 :
           Line(docs, r)[n + 1] = Line(docs, docs[r].parent)[n]
<1> DEFINE p == docs[r].parent
           L == Line(docs, r)
           M == Line(docs, p)
           S == {n \in Nat : L[n + 1] = M[n]}
<1>1. 0 \in S
  <2>1. L[0] = r /\ L[0 + 1] = Above(docs, L[0]) /\ M[0] = p
    BY Walk, DepthAssumption
  <2> HIDE DEF L, M
  <2> QED  BY <2>1 DEF Above
<1>2. ASSUME NEW k \in 0 .. MaxDepth, k \in S PROVE k + 1 \in S
  <2>1. k + 1 \in 0 .. MaxDepth + 1 /\ k \in 0 .. MaxDepth + 1
    BY DepthAssumption
  <2>2. L[(k + 1) + 1] = Above(docs, L[k + 1]) /\ M[k + 1] = Above(docs, M[k])
    BY <2>1, Walk
  <2> HIDE DEF L, M
  <2> QED  BY <1>2, <2>2
<1> HIDE DEF S
<1>3. \A n \in 0 .. MaxDepth + 1 : n \in S
  BY <1>1, <1>2, UpTo, DepthAssumption
<1> QED  BY <1>3 DEF S

\* The model's operators are these.
LEMMA AncestorIsLine ==
  ASSUME NEW p
  PROVE  /\ Ancestor(p) = Line(requests, p)
         /\ Root(p) = EndOf(Line(requests, p))
<1>1. Ancestor(p) = Line(requests, p)
  BY DEF Ancestor, Line, IsWalk, Above
<1> QED  BY <1>1 DEF Root, EndOf

LEMMA AncestorIsLineNext ==
  ASSUME NEW p
  PROVE  /\ Ancestor(p)' = Line(requests', p)
         /\ Root(p)' = EndOf(Line(requests', p))
<1>1. Ancestor(p)' = Line(requests', p)
  BY DEF Ancestor, Line, IsWalk, Above
<1> QED  BY <1>1 DEF Root, EndOf

(***************************************************************************)
(* The shape of the state: what is stored, and what each worker holds at   *)
(* each point where it waits.                                              *)
(***************************************************************************)
QueuePCs  == {"guard", "parent", "insert", "rows", "key", "rekey"}
DecidePCs == {"find", "decide", "count", "save"}
BulkPCs   == {"bulk", "bulksave"}

\* A stored request has a panel, rows for members of it only, and while it is
\* open a validator to be asked next; one not stored has no row.
StoredOK ==
  \A r \in RequestIds :
    /\ r \notin Stored => HasRow(r) = {}
    /\ r \in Stored => /\ requests[r].panel # {}
                       /\ HasRow(r) \subseteq requests[r].panel
                       /\ Open(r) => requests[r].next \in Users

\* A request is queued by one worker, which inserts first the document, then
\* the rows that are missing.
QueueOf(w) ==
  /\ pc[w] \in QueuePCs =>
       /\ mem[w].req \in RequestIds
       /\ \A d \in Workers :
            pc[d] \in QueuePCs /\ mem[d].req = mem[w].req => d = w
  /\ pc[w] \in {"guard", "parent", "insert"} =>
       mem[w].req \notin Stored /\ mem[w].panel # {}
  /\ pc[w] \in {"rows", "key", "rekey"} => mem[w].req \in Stored
  /\ pc[w] = "rows" =>
       /\ mem[w].panel # {}
       /\ mem[w].panel = requests[mem[w].req].panel \ HasRow(mem[w].req)
  /\ pc[w] = "rekey" => mem[w].process # None /\ mem[w].root # None

\* What a worker holds of the requests it decides on, and of its validator.
DecideOf(w) ==
  /\ pc[w] \in DecidePCs =>
       mem[w].req \in Copied(w) /\ mem[w].user \in Users /\ mem[w].choice \in Statuses
  /\ pc[w] \in {"decide", "count", "save"} => mem[w].user \in HasRow(mem[w].req)
  /\ pc[w] \in BulkPCs => mem[w].user \in Users
  /\ pc[w] = "bulksave" =>
       /\ mem[w].req \in Copied(w)
       /\ mem[w].user \in HasRow(mem[w].req)
       /\ "bulk" \in marks[mem[w].req]
  /\ \A r \in Copied(w) :
       /\ r \in Stored
       /\ mem[w].copy[r].panel = requests[r].panel
       /\ mem[w].copy[r].parent = requests[r].parent
       /\ mem[w].copy[r].status \notin Decisions => mem[w].copy[r].next \in Users

ShapeInv ==
  /\ TypeOK
  /\ StoredOK
  /\ \A w \in Workers : QueueOf(w) /\ DecideOf(w)

\* A chain of requests: what Lineage says of the stored ones, and what a worker
\* that queues a sub-operation knows of its parent.
LineOfStored(r) ==
  /\ requests[r].parent # None =>
       requests[r].parent \in Stored /\ Org[requests[r].parent] = Org[r]
  /\ Ancestor(r)[MaxDepth + 2] = None

LineOf(w) ==
  /\ pc[w] \in QueuePCs /\ mem[w].parent # None => mem[w].parent \in Stored
  /\ pc[w] \in {"guard", "parent"} => mem[w].parent # None
  /\ pc[w] = "insert" /\ mem[w].parent # None =>
       /\ Org[mem[w].parent] = Org[mem[w].req]
       /\ Ancestor(mem[w].parent)[MaxDepth + 1] = None
  /\ pc[w] \in {"rows", "key", "rekey"} =>
       requests[mem[w].req].parent = mem[w].parent

LineInv ==
  /\ \A r \in Stored : LineOfStored(r)
  /\ \A w \in Workers : LineOf(w)

LEMMA NoneIsNothing ==
  /\ None \notin RequestIds
  /\ None \notin Users
  /\ None \notin Docs
  /\ None \notin Keys
  /\ None \notin Decisions
  /\ None \notin Statuses
  /\ Expired \notin Keys
  /\ Expired # None
  BY NoneAssumption DEF Statuses

LEMMA NoMemType == NoMem \in Mem /\ \A r \in RequestIds : NoMem.copy[r] = None
  BY DEF NoMem, Mem, NoCopies

LEMMA GotoEffect ==
  ASSUME TypeOK, NEW w \in Workers, NEW label \in Steps, NEW m \in Mem,
         Goto(w, label, m)
  PROVE  /\ pc' \in [Workers -> Steps]
         /\ mem' \in [Workers -> Mem]
         /\ pc'[w] = label
         /\ mem'[w] = m
         /\ \A d \in Workers : d # w => pc'[d] = pc[d] /\ mem'[d] = mem[d]
  BY DEF Goto, TypeOK

LEMMA MarkEffect ==
  ASSUME TypeOK, NEW r \in RequestIds, NEW m \in SUBSET Marks, Mark(r, m)
  PROVE  /\ marks' \in [RequestIds -> SUBSET Marks]
         /\ marks'[r] = marks[r] \union m
         /\ \A q \in RequestIds : q # r => marks'[q] = marks[q]
         /\ \A q \in RequestIds : marks[q] \subseteq marks'[q]
  BY DEF Mark, TypeOK

\* Every stored request has a root, which is stored.
LEMMA RootIsStored ==
  ASSUME TypeOK, LineInv, NEW p \in Stored
  PROVE  Root(p) \in Stored
<1> DEFINE L == Line(requests, p)
<1>1. \A r \in Stored : requests[r].parent \in Stored \union {None}
  BY DEF LineInv, LineOfStored
<1>2. L[MaxDepth + 2] = None
  BY AncestorIsLine DEF LineInv, LineOfStored
<1>3. p # None /\ MaxDepth + 2 \in Depth
  BY NoneIsNothing, DepthAssumption DEF Stored, Depth
<1>4. PICK n \in 0 .. MaxDepth + 1 : L[n] # None /\ L[n + 1] = None
  BY <1>2, <1>3, LineEnds
<1>5. EndOf(L) = L[n]
  BY <1>4, EndIsUnique
<1>6. n \in Depth
  BY DepthAssumption DEF Depth
<1>7. L[n] \in Stored \union {None}
  BY <1>1, <1>6, WalkStays
<1> HIDE DEF L
<1>8. EndOf(L) \in Stored
  BY <1>4, <1>5, <1>7
<1> QED  BY <1>8, AncestorIsLine DEF L

\* As long as no stored request changes its parent the chains stay as they are.
LEMMA LinesStay ==
  ASSUME LineInv, \A r \in Stored : requests'[r].parent = requests[r].parent
  PROVE  \A p \in Stored : Ancestor(p)' = Ancestor(p) /\ Root(p)' = Root(p)
<1> SUFFICES ASSUME NEW p \in Stored
             PROVE  Ancestor(p)' = Ancestor(p) /\ Root(p)' = Root(p)
  OBVIOUS
<1>1. \A r \in Stored : requests[r].parent \in Stored \union {None}
  BY DEF LineInv, LineOfStored
<1>2. Line(requests', p) = Line(requests, p)
  BY <1>1, SameLine
<1> QED  BY <1>2, AncestorIsLine, AncestorIsLineNext

ShapeOf(w) == QueueOf(w) /\ DecideOf(w) /\ LineOf(w)

\* A step that stores nothing needs to be looked at in its own worker only.
LEMMA QuietMove ==
  ASSUME ShapeInv, LineInv, NEW w \in Workers, NEW label \in Steps, NEW m \in Mem,
         Goto(w, label, m), UNCHANGED <<requests, rows>>,
         keys' \in [RequestIds -> Keys \union {Expired, None}],
         overtaken' \subseteq Workers,
         marks' \in [RequestIds -> SUBSET Marks],
         \A q \in RequestIds : marks[q] \subseteq marks'[q],
         ShapeOf(w)'
  PROVE  ShapeInv' /\ LineInv'
<1>1. /\ pc' \in [Workers -> Steps]
      /\ mem' \in [Workers -> Mem]
      /\ \A d \in Workers : d # w => pc'[d] = pc[d] /\ mem'[d] = mem[d]
  BY GotoEffect DEF ShapeInv
<1>2. TypeOK'
  BY <1>1 DEF ShapeInv, TypeOK
<1>3. StoredOK'
  BY DEF ShapeInv, StoredOK, HasRow, Stored, Open
<1>4. ASSUME NEW d \in Workers PROVE QueueOf(d)'
  BY <1>1 DEF ShapeInv, ShapeOf, QueueOf, HasRow, Stored
<1>5. ASSUME NEW d \in Workers PROVE DecideOf(d)'
  <2>1. CASE d = w
    BY <2>1 DEF ShapeOf
  <2>2. CASE d # w
    <3>1. Copied(d)' = Copied(d)
      BY <1>1, <2>2 DEF Copied
    <3>2. Copied(d) \subseteq RequestIds
      BY DEF Copied
    <3> QED  BY <1>1, <2>2, <3>1, <3>2 DEF ShapeInv, DecideOf, HasRow, Stored
  <2> QED  BY <2>1, <2>2
<1>6. \A p : Ancestor(p)' = Ancestor(p)
  BY AncestorIsLine, AncestorIsLineNext
<1>7. ASSUME NEW d \in Workers PROVE LineOf(d)'
  BY <1>1, <1>6 DEF LineInv, ShapeOf, LineOf, Stored
<1>8. \A r \in Stored' : LineOfStored(r)'
  BY <1>6 DEF LineInv, LineOfStored, Stored
<1> QED  BY <1>2, <1>3, <1>4, <1>5, <1>7, <1>8 DEF ShapeInv, LineInv

(***************************************************************************)
(* Queueing keeps the shape.                                               *)
(***************************************************************************)
LEMMA QueueStartShape ==
  ASSUME ShapeInv, LineInv, NEW w \in Workers, NEW r \in RequestIds,
         NEW panel \in SUBSET Users, NEW parent \in Stored \union {None},
         NEW process \in RequestIds \union {None},
         QueueStart(w, r, panel, parent, process)
  PROVE  ShapeInv' /\ LineInv'
<1> DEFINE label == IF parent = None THEN "insert"
                    ELSE IF process = None THEN "parent" ELSE "guard"
           m == [NoMem EXCEPT !.req = r, !.panel = panel, !.parent = parent,
                              !.process = process]
<1>1. label \in {"insert", "parent", "guard"} /\ label \in Steps
  BY DEF Steps
<1>2. m \in Mem /\ m.req = r /\ m.panel = panel /\ m.parent = parent
      /\ m.copy = NoCopies
  BY DEF NoMem, Mem, NoCopies, Stored
<1>3. Goto(w, label, m) /\ UNCHANGED <<requests, rows, keys, overtaken, marks>>
      /\ requests[r] = None /\ panel # {} /\ \A d \in Workers : mem[d].req # r
  BY DEF QueueStart
<1>4. label # "insert" => parent # None
  OBVIOUS
<1>5. label = "insert" => parent = None
  OBVIOUS
<1> HIDE DEF label, m
<1>6. /\ pc'[w] = label
      /\ mem'[w] = m
      /\ \A d \in Workers : d # w => pc'[d] = pc[d] /\ mem'[d] = mem[d]
  BY <1>1, <1>2, <1>3, GotoEffect DEF ShapeInv
<1>7. QueueOf(w)'
  BY <1>1, <1>2, <1>3, <1>6 DEF QueueOf, QueuePCs, Stored
<1>8. DecideOf(w)'
  BY <1>1, <1>2, <1>6 DEF DecideOf, DecidePCs, BulkPCs, Copied, NoCopies
<1>9. LineOf(w)'
  BY <1>1, <1>2, <1>3, <1>4, <1>5, <1>6 DEF LineOf, Stored
<1> QED
  BY <1>1, <1>2, <1>3, <1>7, <1>8, <1>9, QuietMove DEF ShapeOf, ShapeInv, TypeOK

\* A step that only goes on with queueing, keeping what it was asked.
LEMMA QueueMove ==
  ASSUME ShapeInv, LineInv, NEW w \in Workers, NEW label \in QueuePCs, NEW m \in Mem,
         pc[w] \in QueuePCs,
         Goto(w, label, m), UNCHANGED <<requests, rows>>,
         keys' \in [RequestIds -> Keys \union {Expired, None}],
         UNCHANGED <<overtaken, marks>>,
         m.req = mem[w].req, m.panel = mem[w].panel, m.parent = mem[w].parent,
         m.copy = mem[w].copy,
         <<pc[w], label>> \in {<<"guard", "parent">>, <<"parent", "insert">>,
                               <<"key", "rekey">>},
         label = "insert" => /\ Org[m.parent] = Org[m.req]
                             /\ Ancestor(m.parent)[MaxDepth + 1] = None,
         label = "rekey" => m.process # None /\ m.root # None
  PROVE  ShapeInv' /\ LineInv'
<1>1. label \in Steps
  BY DEF QueuePCs, Steps
<1>2. /\ pc'[w] = label
      /\ mem'[w] = m
      /\ \A d \in Workers : d # w => pc'[d] = pc[d] /\ mem'[d] = mem[d]
  BY <1>1, GotoEffect DEF ShapeInv
<1>3. QueueOf(w)'
  BY <1>2 DEF ShapeInv, QueueOf, QueuePCs, Stored, HasRow
<1>4. DecideOf(w)'
  BY <1>2 DEF ShapeInv, DecideOf, QueuePCs, DecidePCs, BulkPCs, Copied, Stored
<1>5. \A p : Ancestor(p)' = Ancestor(p)
  BY AncestorIsLine, AncestorIsLineNext
<1>6. LineOf(w)'
  BY <1>2, <1>5 DEF LineInv, LineOf, QueuePCs, Stored
<1> QED
  BY <1>1, <1>3, <1>4, <1>6, QuietMove DEF ShapeOf, ShapeInv, TypeOK

LEMMA GuardKeyShape ==
  ASSUME ShapeInv, LineInv, NEW w \in Workers, GuardKey(w) \/ GuardSkipped(w)
  PROVE  ShapeInv' /\ LineInv'
<1> DEFINE m == [mem[w] EXCEPT !.checked = TRUE]
<1>1. /\ mem[w] \in Mem /\ m \in Mem
      /\ m.req = mem[w].req /\ m.panel = mem[w].panel /\ m.parent = mem[w].parent
      /\ m.copy = mem[w].copy
  BY DEF ShapeInv, TypeOK, Mem
<1>2. pc[w] = "guard" /\ (Goto(w, "parent", m) \/ Goto(w, "parent", mem[w]))
      /\ UNCHANGED <<requests, rows, keys, overtaken, marks>>
  BY DEF GuardKey, GuardSkipped
<1> HIDE DEF m
<1>3. "parent" \in QueuePCs /\ pc[w] \in QueuePCs
      /\ keys' \in [RequestIds -> Keys \union {Expired, None}]
  BY <1>2 DEF QueuePCs, ShapeInv, TypeOK
<1>4. CASE Goto(w, "parent", m)
  BY <1>1, <1>2, <1>3, <1>4, QueueMove
<1>5. CASE Goto(w, "parent", mem[w])
  BY <1>1, <1>2, <1>3, <1>5, QueueMove
<1> QED  BY <1>2, <1>4, <1>5

LEMMA ParentLoadShape ==
  ASSUME ShapeInv, LineInv, NEW w \in Workers, ParentLoad(w)
  PROVE  ShapeInv' /\ LineInv'
<1> DEFINE m == [mem[w] EXCEPT !.root = Root(mem[w].parent)]
<1>1. pc[w] = "parent" /\ mem[w].parent \in Stored /\ Goto(w, "insert", m)
      /\ Org[mem[w].parent] = Org[mem[w].req]
      /\ Ancestor(mem[w].parent)[MaxDepth + 1] = None
      /\ UNCHANGED <<requests, rows, keys, overtaken, marks>>
  BY DEF ParentLoad
<1>2. Root(mem[w].parent) \in RequestIds
  BY <1>1, RootIsStored DEF Stored, ShapeInv
<1>3. /\ m \in Mem /\ m.req = mem[w].req /\ m.panel = mem[w].panel
      /\ m.parent = mem[w].parent /\ m.copy = mem[w].copy
  BY <1>2 DEF ShapeInv, TypeOK, Mem
<1> HIDE DEF m
<1>4. "insert" \in QueuePCs /\ pc[w] \in QueuePCs
      /\ keys' \in [RequestIds -> Keys \union {Expired, None}]
  BY <1>1 DEF QueuePCs, ShapeInv, TypeOK
<1> QED  BY <1>1, <1>3, <1>4, QueueMove

LEMMA KeyLoadShape ==
  ASSUME ShapeInv, LineInv, NEW w \in Workers, KeyLoad(w)
  PROVE  ShapeInv' /\ LineInv'
<1> DEFINE m == [mem[w] EXCEPT !.root = keys[mem[w].process].root]
<1>1. pc[w] = "key" /\ mem[w].process # None
      /\ keys[mem[w].process] \in Keys /\ Goto(w, "rekey", m)
      /\ UNCHANGED <<requests, rows, keys, overtaken, marks>>
  BY DEF KeyLoad
<1>2. keys[mem[w].process].root \in RequestIds
  BY <1>1 DEF Keys
<1>3. /\ m \in Mem /\ m.req = mem[w].req /\ m.panel = mem[w].panel
      /\ m.parent = mem[w].parent /\ m.copy = mem[w].copy
      /\ m.process # None /\ m.root # None
  BY <1>1, <1>2, NoneIsNothing DEF ShapeInv, TypeOK, Mem
<1> HIDE DEF m
<1>4. "rekey" \in QueuePCs /\ pc[w] \in QueuePCs
      /\ keys' \in [RequestIds -> Keys \union {Expired, None}]
  BY <1>1 DEF QueuePCs, ShapeInv, TypeOK
<1> QED  BY <1>1, <1>3, <1>4, QueueMove

\* A worker that is done keeps nothing.
LEMMA IdleMove ==
  ASSUME ShapeInv, LineInv, NEW w \in Workers,
         Goto(w, "idle", NoMem), UNCHANGED <<requests, rows>>,
         keys' \in [RequestIds -> Keys \union {Expired, None}],
         overtaken' \subseteq Workers,
         marks' \in [RequestIds -> SUBSET Marks],
         \A q \in RequestIds : marks[q] \subseteq marks'[q]
  PROVE  ShapeInv' /\ LineInv'
<1>1. "idle" \in Steps /\ NoMem \in Mem
  BY NoMemType DEF Steps
<1>2. pc'[w] = "idle" /\ mem'[w] = NoMem
  BY <1>1, GotoEffect DEF ShapeInv
<1>3. QueueOf(w)'
  BY <1>2 DEF QueueOf, QueuePCs
<1>4. DecideOf(w)'
  BY <1>2, NoMemType DEF DecideOf, DecidePCs, BulkPCs, Copied
<1>5. LineOf(w)'
  BY <1>2 DEF LineOf, QueuePCs
<1> QED  BY <1>1, <1>3, <1>4, <1>5, QuietMove DEF ShapeOf

LEMMA KeyMoveShape ==
  ASSUME ShapeInv, LineInv, NEW w \in Workers, KeyMove(w)
  PROVE  ShapeInv' /\ LineInv'
<1>1. mem[w].process \in RequestIds /\ mem[w].root \in RequestIds /\ mem[w].req \in RequestIds
  BY DEF KeyMove, ShapeInv, QueueOf, QueuePCs, TypeOK, Mem
<1>2. keys' \in [RequestIds -> Keys \union {Expired, None}]
  BY <1>1 DEF KeyMove, Keys, ShapeInv, TypeOK
<1>3. /\ marks' \in [RequestIds -> SUBSET Marks]
      /\ \A q \in RequestIds : marks[q] \subseteq marks'[q]
  BY <1>1, MarkEffect DEF KeyMove, ShapeInv, Marks
<1>4. Goto(w, "idle", NoMem) /\ UNCHANGED <<requests, rows, overtaken>>
  BY DEF KeyMove
<1> QED  BY <1>2, <1>3, <1>4, IdleMove DEF ShapeInv, TypeOK

LEMMA KeyCreateShape ==
  ASSUME ShapeInv, LineInv, NEW w \in Workers, KeyCreate(w)
  PROVE  ShapeInv' /\ LineInv'
<1>1. pc[w] \in {"key", "rekey"} /\ mem[w].req \in RequestIds
  BY DEF KeyCreate, ShapeInv, QueueOf, QueuePCs
<1>2. mem[w].parent # None => Root(mem[w].parent) \in RequestIds
  BY <1>1, RootIsStored DEF ShapeInv, LineInv, LineOf, QueuePCs, Stored
<1>3. keys' \in [RequestIds -> Keys \union {Expired, None}]
  BY <1>1, <1>2 DEF KeyCreate, Keys, ShapeInv, TypeOK
<1>4. Goto(w, "idle", NoMem) /\ UNCHANGED <<requests, rows, overtaken, marks>>
  BY DEF KeyCreate
<1> QED  BY <1>3, <1>4, IdleMove DEF ShapeInv, TypeOK

LEMMA ExpireShape ==
  ASSUME ShapeInv, LineInv, NEW k \in RequestIds, Expire(k)
  PROVE  ShapeInv' /\ LineInv'
<1>1. keys' \in [RequestIds -> Keys \union {Expired, None}]
      /\ UNCHANGED <<requests, rows, pc, mem, overtaken, marks>>
  BY DEF Expire, ShapeInv, TypeOK
<1>2. TypeOK' /\ StoredOK'
  BY <1>1 DEF ShapeInv, TypeOK, StoredOK, HasRow, Stored, Open
<1>3. \A w \in Workers : QueueOf(w)' /\ DecideOf(w)'
  BY <1>1 DEF ShapeInv, QueueOf, DecideOf, HasRow, Stored, Copied
<1>4. \A p : Ancestor(p)' = Ancestor(p)
  BY <1>1, AncestorIsLine, AncestorIsLineNext
<1>5. LineInv'
  BY <1>1, <1>4 DEF LineInv, LineOf, LineOfStored, Stored
<1> QED  BY <1>2, <1>3, <1>5 DEF ShapeInv

\* The document is stored: it becomes the end of a chain that was short enough.
LEMMA RequestInsertShape ==
  ASSUME ShapeInv, LineInv, NEW w \in Workers, RequestInsert(w)
  PROVE  ShapeInv' /\ LineInv'
<1>0. PICK r \in RequestIds : r = mem[w].req
  BY DEF RequestInsert, ShapeInv, QueueOf, QueuePCs
<1> DEFINE doc == [status |-> "PENDING", next |-> First(mem[w].panel),
                   panel |-> mem[w].panel, parent |-> mem[w].parent]
<1>1. /\ pc[w] = "insert" /\ Goto(w, "rows", mem[w])
      /\ requests' = [requests EXCEPT ![r] = doc]
      /\ UNCHANGED <<rows, keys, overtaken, marks>>
  BY <1>0 DEF RequestInsert
<1>2. /\ r \in RequestIds /\ requests[r] = None
      /\ mem[w].panel \in SUBSET Users /\ mem[w].panel # {}
      /\ mem[w].parent \in RequestIds \union {None}
      /\ HasRow(r) = {}
  BY <1>0, <1>1 DEF ShapeInv, StoredOK, QueueOf, QueuePCs, TypeOK, Mem, Stored
<1>3. First(mem[w].panel) \in mem[w].panel
  BY <1>2, FirstIsOne
<1>4. doc \in Docs /\ doc.panel = mem[w].panel /\ doc.parent = mem[w].parent
      /\ doc.next \in Users
  BY <1>2, <1>3 DEF Docs, Statuses
<1> HIDE DEF doc
<1>5. /\ requests' \in [RequestIds -> Docs \union {None}]
      /\ requests'[r] = doc
      /\ \A q \in RequestIds : q # r => requests'[q] = requests[q]
      /\ Stored' = Stored \union {r} /\ r \notin Stored
  BY <1>1, <1>2, <1>4, NoneIsNothing DEF ShapeInv, TypeOK, Stored
<1>6. /\ pc' \in [Workers -> Steps]
      /\ mem' \in [Workers -> Mem]
      /\ pc'[w] = "rows" /\ mem' = mem
      /\ \A d \in Workers : d # w => pc'[d] = pc[d]
  BY <1>1 DEF Goto, ShapeInv, TypeOK, Steps
<1>7. TypeOK'
  BY <1>1, <1>5, <1>6 DEF ShapeInv, TypeOK
<1>8. \A q : HasRow(q)' = HasRow(q)
  BY <1>1 DEF HasRow
<1>9. StoredOK'
  BY <1>2, <1>4, <1>5, <1>8 DEF ShapeInv, StoredOK, Open
<1>10. ASSUME NEW d \in Workers PROVE QueueOf(d)'
  <2>1. CASE d = w
    BY <1>0, <1>1, <1>2, <1>4, <1>5, <1>6, <1>8, <2>1 DEF ShapeInv, QueueOf, QueuePCs
  <2>2. CASE d # w
    <3>1. pc[d] \in QueuePCs => mem[d].req # r
      BY <1>0, <1>1, <2>2 DEF ShapeInv, QueueOf, QueuePCs
    <3>2. pc[w] \in QueuePCs /\ r = mem[w].req
      BY <1>0, <1>1 DEF QueuePCs
    <3> QED  BY <1>5, <1>6, <1>8, <2>2, <3>1, <3>2 DEF ShapeInv, QueueOf, QueuePCs
  <2> QED  BY <2>1, <2>2
<1>11. ASSUME NEW d \in Workers PROVE DecideOf(d)'
  <2>1. Copied(d)' = Copied(d) /\ Copied(d) \subseteq RequestIds
    BY <1>6 DEF Copied
  <2>2. CASE d = w
    BY <1>0, <1>1, <1>5, <1>6, <2>1, <2>2 DEF ShapeInv, DecideOf, DecidePCs, BulkPCs
  <2>3. CASE d # w
    BY <1>1, <1>5, <1>6, <1>8, <2>1, <2>3 DEF ShapeInv, DecideOf
  <2> QED  BY <2>2, <2>3
<1>12. \A p \in Stored : Ancestor(p)' = Ancestor(p)
  <2>1. \A q \in Stored : requests'[q].parent = requests[q].parent
    BY <1>5 DEF Stored
  <2> QED  BY <2>1, LinesStay
<1>13. \A q \in Stored : LineOfStored(q)'
  BY <1>5, <1>12 DEF LineInv, LineOfStored, Stored
<1>14. LineOfStored(r)'
  <2>1. CASE mem[w].parent = None
    <3>1. Ancestor(r)'[1] = None
      <4>1. 0 \in 0 .. MaxDepth + 1 /\ r # None
        BY <1>2, DepthAssumption, NoneIsNothing
      <4>2. Ancestor(r)' = Line(requests', r)
        BY AncestorIsLineNext
      <4>3. Line(requests', r)[0] = r /\ Line(requests', r)[0 + 1] = Above(requests', r)
        BY <4>1, Walk
      <4> QED  BY <1>4, <1>5, <2>1, <4>1, <4>2, <4>3 DEF Above
    <3>2. 1 \in Depth /\ MaxDepth + 2 \in Depth /\ 1 <= MaxDepth + 2
      BY DepthAssumption DEF Depth
    <3>3. Ancestor(r)'[MaxDepth + 2] = None
      BY <3>1, <3>2, NothingAboveRoot, AncestorIsLineNext
    <3> QED  BY <1>4, <1>5, <2>1, <3>3 DEF LineOfStored
  <2>2. CASE mem[w].parent # None
    <3>0. PICK p \in Stored : p = mem[w].parent
      BY <1>1, <2>2 DEF LineInv, LineOf, QueuePCs
    <3>1. p \in Stored /\ Org[p] = Org[r] /\ Ancestor(p)[MaxDepth + 1] = None
      BY <1>0, <1>1, <2>2, <3>0 DEF LineInv, LineOf, QueuePCs
    <3>2. requests'[r].parent = p /\ r # None
      BY <1>2, <1>4, <1>5, <3>0, NoneIsNothing
    <3>3. MaxDepth + 1 \in 0 .. MaxDepth + 1 /\ (MaxDepth + 1) + 1 = MaxDepth + 2
      BY DepthAssumption
    <3>4. Line(requests', r)[(MaxDepth + 1) + 1] = Line(requests', p)[MaxDepth + 1]
      BY <3>2, <3>3, LineOfChild
    <3>5. Line(requests', p) = Ancestor(p)
      BY <1>12, <3>1, AncestorIsLineNext
    <3>6. Ancestor(r)'[MaxDepth + 2] = None
      BY <3>1, <3>3, <3>4, <3>5, AncestorIsLineNext
    <3> QED  BY <1>5, <3>1, <3>2, <3>6 DEF LineOfStored
  <2> QED  BY <2>1, <2>2
<1>15. ASSUME NEW d \in Workers PROVE LineOf(d)'
  <2>1. CASE d = w
    BY <1>0, <1>1, <1>4, <1>5, <1>6, <2>1 DEF LineInv, LineOf, QueuePCs
  <2>2. CASE d # w
    <3>1. pc[d] \in {"rows", "key", "rekey"} => mem[d].req \in Stored
      BY DEF ShapeInv, QueueOf
    <3>2. pc[d] = "insert" /\ mem[d].parent # None =>
            Ancestor(mem[d].parent)' = Ancestor(mem[d].parent)
      BY <1>12, <1>6 DEF LineInv, LineOf, QueuePCs
    <3> QED  BY <1>5, <1>6, <2>2, <3>1, <3>2 DEF LineInv, LineOf, Stored
  <2> QED  BY <2>1, <2>2
<1>16. LineInv'
  BY <1>5, <1>13, <1>14, <1>15 DEF LineInv
<1> QED  BY <1>7, <1>9, <1>10, <1>11, <1>16 DEF ShapeInv

(***************************************************************************)
(* The steps that write rows or documents keep the shape.                  *)
(***************************************************************************)
LEMMA WriteMove ==
  ASSUME ShapeInv, LineInv, NEW w \in Workers, NEW label \in Steps, NEW m \in Mem,
         Goto(w, label, m), UNCHANGED keys,
         requests' \in [RequestIds -> Docs \union {None}],
         rows' \in [RequestIds -> [Users -> Statuses \union {None}]],
         overtaken' \subseteq Workers,
         marks' \in [RequestIds -> SUBSET Marks],
         \A q \in RequestIds : marks[q] \subseteq marks'[q],
         Stored' = Stored,
         \A q \in Stored : /\ requests'[q].panel = requests[q].panel
                           /\ requests'[q].parent = requests[q].parent,
         StoredOK',
         \A q \in RequestIds : HasRow(q) \subseteq HasRow(q)',
         \A d \in Workers : d # w /\ pc[d] = "rows" =>
                              HasRow(mem[d].req)' = HasRow(mem[d].req),
         ShapeOf(w)'
  PROVE  ShapeInv' /\ LineInv'
<1>1. /\ pc' \in [Workers -> Steps]
      /\ mem' \in [Workers -> Mem]
      /\ \A d \in Workers : d # w => pc'[d] = pc[d] /\ mem'[d] = mem[d]
  BY GotoEffect DEF ShapeInv
<1>2. TypeOK'
  BY <1>1 DEF ShapeInv, TypeOK
<1>3. ASSUME NEW d \in Workers PROVE QueueOf(d)'
  <2>1. CASE d = w
    BY <2>1 DEF ShapeOf
  <2>2. CASE d # w
    <3>1. pc'[d] = pc[d] /\ mem'[d] = mem[d]
      BY <1>1, <2>2
    <3>2. QueueOf(d)
      BY DEF ShapeInv
    <3>3. pc[d] \in QueuePCs =>
            \A e \in Workers :
              pc'[e] \in QueuePCs /\ mem'[e].req = mem[d].req => e = d
      <4> SUFFICES ASSUME pc[d] \in QueuePCs, NEW e \in Workers,
                          pc'[e] \in QueuePCs, mem'[e].req = mem[d].req
                   PROVE  e = d
        OBVIOUS
      <4>1. CASE e = w
        BY <2>2, <3>1, <4>1 DEF ShapeOf, QueueOf
      <4>2. CASE e # w
        BY <1>1, <3>2, <4>2 DEF QueueOf
      <4> QED  BY <4>1, <4>2
    <3>4. pc[d] = "rows" => /\ mem[d].panel # {}
                            /\ mem[d].panel = requests'[mem[d].req].panel
                                                \ HasRow(mem[d].req)'
      BY <2>2, <3>2 DEF QueueOf
    <3> QED  BY <3>1, <3>2, <3>3, <3>4 DEF QueueOf
  <2> QED  BY <2>1, <2>2
<1>4. ASSUME NEW d \in Workers PROVE DecideOf(d)'
  <2>1. CASE d = w
    BY <2>1 DEF ShapeOf
  <2>2. CASE d # w
    <3>1. Copied(d)' = Copied(d) /\ Copied(d) \subseteq RequestIds
      BY <1>1, <2>2 DEF Copied
    <3>2. pc'[d] = pc[d] /\ mem'[d] = mem[d] /\ DecideOf(d)
      BY <1>1, <2>2 DEF ShapeInv
    <3>3. \A q \in RequestIds : HasRow(q) \subseteq HasRow(q)'
      OBVIOUS
    <3>4. pc[d] \in {"decide", "count", "save", "bulksave"} =>
            mem[d].req \in RequestIds /\ mem[d].user \in HasRow(mem[d].req)
      BY <3>1, <3>2 DEF DecideOf, DecidePCs
    <3>5. pc[d] \in {"decide", "count", "save", "bulksave"} =>
            (mem[d].user \in HasRow(mem[d].req))'
      BY <3>2, <3>3, <3>4 DEF HasRow
    <3> QED  BY <3>1, <3>2, <3>5 DEF DecideOf
  <2> QED  BY <2>1, <2>2
<1>5. \A p \in Stored : Ancestor(p)' = Ancestor(p)
  BY LinesStay
<1>6. ASSUME NEW d \in Workers PROVE LineOf(d)'
  <2>1. CASE d = w
    BY <2>1 DEF ShapeOf
  <2>2. CASE d # w
    <3>1. pc'[d] = pc[d] /\ mem'[d] = mem[d] /\ LineOf(d) /\ QueueOf(d)
      BY <1>1, <2>2 DEF LineInv, ShapeInv
    <3>2. pc[d] = "insert" /\ mem[d].parent # None =>
            Ancestor(mem[d].parent)' = Ancestor(mem[d].parent)
      BY <1>5, <3>1 DEF LineOf, QueuePCs
    <3> QED  BY <3>1, <3>2 DEF LineOf, QueueOf
  <2> QED  BY <2>1, <2>2
<1>7. \A r \in Stored' : LineOfStored(r)'
  BY <1>5 DEF LineInv, LineOfStored
<1> QED  BY <1>2, <1>3, <1>4, <1>6, <1>7 DEF ShapeInv, LineInv

LEMMA RowInsertShape ==
  ASSUME ShapeInv, LineInv, NEW w \in Workers, RowInsert(w)
  PROVE  ShapeInv' /\ LineInv'
<1>0. PICK r \in Stored : r = mem[w].req
  BY DEF RowInsert, ShapeInv, QueueOf
<1>0a. PICK u \in Users : u = First(mem[w].panel) /\ u \in mem[w].panel
  BY FirstIsOne DEF RowInsert, ShapeInv, QueueOf, TypeOK, Mem
<1> DEFINE label == IF mem[w].panel = {u} THEN "key" ELSE "rows"
           m == [mem[w] EXCEPT !.panel = mem[w].panel \ {u}]
<1>1. /\ pc[w] = "rows" /\ Goto(w, label, m)
      /\ rows' = [rows EXCEPT ![r][u] = "PENDING"]
      /\ overtaken' = overtaken \union Felt(w)
      /\ UNCHANGED <<requests, keys, marks>>
  BY <1>0, <1>0a DEF RowInsert
<1>2. /\ label \in {"key", "rows"} /\ label \in Steps
      /\ m \in Mem /\ m.req = r /\ m.parent = mem[w].parent /\ m.copy = mem[w].copy
      /\ m.panel = mem[w].panel \ {u}
      /\ label = "rows" => m.panel # {}
  <2>1. mem[w] \in Mem
    BY DEF ShapeInv, TypeOK
  <2>2. m \in Mem /\ m.req = r /\ m.parent = mem[w].parent /\ m.copy = mem[w].copy
        /\ m.panel = mem[w].panel \ {u}
    BY <1>0, <2>1 DEF Mem
  <2>3. label \in {"key", "rows"} /\ label \in Steps
    BY DEF Steps
  <2>4. label = "rows" => mem[w].panel \ {u} # {}
    BY <1>0a
  <2> HIDE DEF label, m
  <2> QED  BY <2>2, <2>3, <2>4
<1> HIDE DEF label, m
<1>3. /\ pc'[w] = label /\ mem'[w] = m
      /\ \A d \in Workers : d # w => pc'[d] = pc[d] /\ mem'[d] = mem[d]
  BY <1>1, <1>2, GotoEffect DEF ShapeInv
<1>4. rows' \in [RequestIds -> [Users -> Statuses \union {None}]] /\ "PENDING" # None
  <2>1. "PENDING" \in Statuses
    BY DEF Statuses
  <2> QED  BY <1>0, <1>1, <2>1, NoneIsNothing DEF ShapeInv, TypeOK, Stored
<1>5. /\ HasRow(r)' = HasRow(r) \union {u}
      /\ \A q \in RequestIds : q # r => HasRow(q)' = HasRow(q)
  BY <1>0, <1>1, <1>4, NoneIsNothing DEF ShapeInv, TypeOK, Stored, HasRow
<1>6. /\ mem[w].panel = requests[r].panel \ HasRow(r)
      /\ HasRow(r) \subseteq requests[r].panel /\ r \in RequestIds
  BY <1>0, <1>1 DEF ShapeInv, StoredOK, QueueOf, Stored
<1>7. StoredOK'
  BY <1>0, <1>0a, <1>1, <1>5, <1>6 DEF ShapeInv, StoredOK, Stored, Open
<1>8. ASSUME NEW d \in Workers, d # w, pc[d] = "rows"
      PROVE  HasRow(mem[d].req)' = HasRow(mem[d].req)
  <2>1. mem[d].req # r /\ mem[d].req \in RequestIds /\ mem'[d] = mem[d]
    BY <1>0, <1>1, <1>3, <1>8 DEF ShapeInv, QueueOf, QueuePCs
  <2> QED  BY <1>1, <2>1, <1>0 DEF HasRow, ShapeInv, TypeOK, Stored
<1>9. QueueOf(w)'
  <2>1. pc[w] \in QueuePCs /\ \A d \in Workers :
          pc[d] \in QueuePCs /\ mem[d].req = r => d = w
    BY <1>0, <1>1 DEF ShapeInv, QueueOf, QueuePCs
  <2>2. mem'[w].panel = requests'[r].panel \ HasRow(r)'
    BY <1>1, <1>2, <1>3, <1>5, <1>6
  <2> QED
    BY <1>0, <1>1, <1>2, <1>3, <1>6, <2>1, <2>2 DEF QueueOf, QueuePCs, Stored, HasRow
<1>10. DecideOf(w)'
  <2>1. Copied(w)' = Copied(w) /\ Copied(w) \subseteq RequestIds
    BY <1>2, <1>3 DEF Copied
  <2> QED
    BY <1>1, <1>2, <1>3, <2>1 DEF ShapeInv, DecideOf, DecidePCs, BulkPCs, Stored
<1>11. \A p : Ancestor(p)' = Ancestor(p)
  BY <1>1, AncestorIsLine, AncestorIsLineNext
<1>12. LineOf(w)'
  BY <1>0, <1>1, <1>2, <1>3, <1>11 DEF LineInv, LineOf, QueuePCs, Stored
<1>13. overtaken' \subseteq Workers
  BY <1>1 DEF Felt, ShapeInv, TypeOK
<1>14. Stored' = Stored /\ requests' = requests
  BY <1>1 DEF Stored
<1>15. \A q \in RequestIds : HasRow(q) \subseteq HasRow(q)'
  BY <1>5
<1>16. /\ requests' \in [RequestIds -> Docs \union {None}]
       /\ marks' \in [RequestIds -> SUBSET Marks]
       /\ \A q \in RequestIds : marks[q] \subseteq marks'[q]
       /\ UNCHANGED keys
  BY <1>1 DEF ShapeInv, TypeOK
<1> QED
  BY <1>1, <1>2, <1>4, <1>7, <1>8, <1>9, <1>10, <1>12, <1>13, <1>14, <1>15, <1>16,
     WriteMove DEF ShapeOf

\* A row that is there is given a decision: whoever has a row still has it.
LEMMA DecisionWritten ==
  ASSUME ShapeInv, NEW r \in Stored, NEW u \in HasRow(r), NEW choice \in Statuses,
         rows' = [rows EXCEPT ![r][u] = choice], UNCHANGED requests
  PROVE  /\ rows' \in [RequestIds -> [Users -> Statuses \union {None}]]
         /\ \A q \in RequestIds : HasRow(q)' = HasRow(q)
         /\ StoredOK'
         /\ Stored' = Stored
<1>1. r \in RequestIds /\ u \in Users
  BY DEF Stored, HasRow
<1>2. rows' \in [RequestIds -> [Users -> Statuses \union {None}]]
  BY <1>1 DEF ShapeInv, TypeOK
<1>3. \A q \in RequestIds : HasRow(q)' = HasRow(q)
  BY <1>1, NoneIsNothing DEF HasRow, ShapeInv, TypeOK
<1>4. StoredOK' /\ Stored' = Stored
  BY <1>3 DEF ShapeInv, StoredOK, Stored, Open
<1> QED  BY <1>2, <1>3, <1>4

LEMMA RowSaveShape ==
  ASSUME ShapeInv, LineInv, NEW w \in Workers, RowSave(w)
  PROVE  ShapeInv' /\ LineInv'
<1>0. PICK r \in Stored : r = mem[w].req /\ r \in Copied(w)
  BY DEF RowSave, ShapeInv, DecideOf, DecidePCs
<1>0a. PICK u \in HasRow(r) : u = mem[w].user
  BY <1>0 DEF RowSave, ShapeInv, DecideOf
<1>1. /\ pc[w] = "decide" /\ Goto(w, "count", mem[w])
      /\ rows' = [rows EXCEPT ![r][u] = mem[w].choice]
      /\ mem[w].choice \in Statuses
      /\ overtaken' = overtaken \union Felt(w)
      /\ Mark(r, Overtaken(w))
      /\ UNCHANGED <<requests, keys>>
  BY <1>0, <1>0a DEF RowSave, ShapeInv, DecideOf, DecidePCs
<1>2. /\ rows' \in [RequestIds -> [Users -> Statuses \union {None}]]
      /\ \A q \in RequestIds : HasRow(q)' = HasRow(q)
      /\ StoredOK' /\ Stored' = Stored
  BY <1>1, DecisionWritten
<1>3. /\ marks' \in [RequestIds -> SUBSET Marks]
      /\ \A q \in RequestIds : marks[q] \subseteq marks'[q]
  <2>1. Overtaken(w) \in SUBSET Marks /\ r \in RequestIds
    BY DEF Overtaken, Marks, Stored
  <2> QED  BY <1>1, <2>1, MarkEffect DEF ShapeInv
<1>4. "count" \in Steps /\ mem[w] \in Mem
  BY DEF Steps, ShapeInv, TypeOK
<1>5. /\ pc'[w] = "count" /\ mem'[w] = mem[w]
      /\ \A d \in Workers : d # w => pc'[d] = pc[d] /\ mem'[d] = mem[d]
  BY <1>1, <1>4, GotoEffect DEF ShapeInv
<1>6. QueueOf(w)' /\ LineOf(w)'
  BY <1>5 DEF QueueOf, LineOf, QueuePCs
<1>7. DecideOf(w)'
  <2>1. Copied(w)' = Copied(w) /\ Copied(w) \subseteq RequestIds
    BY <1>5 DEF Copied
  <2>2. (mem[w].user \in HasRow(mem[w].req))'
    BY <1>0, <1>0a, <1>2, <1>5 DEF HasRow, Stored
  <2> QED
    BY <1>1, <1>2, <1>5, <2>1, <2>2 DEF ShapeInv, DecideOf, DecidePCs, BulkPCs
<1>8. \A d \in Workers : d # w /\ pc[d] = "rows" =>
        HasRow(mem[d].req)' = HasRow(mem[d].req)
  <2> SUFFICES ASSUME NEW d \in Workers, d # w, pc[d] = "rows"
               PROVE  HasRow(mem[d].req)' = HasRow(mem[d].req)
    OBVIOUS
  <2>1. mem'[d] = mem[d] /\ mem[d].req \in RequestIds
    BY <1>5 DEF ShapeInv, QueueOf, QueuePCs
  <2> QED  BY <1>2, <2>1 DEF HasRow
<1>9. overtaken' \subseteq Workers
  BY <1>1 DEF Felt, ShapeInv, TypeOK
<1>10. /\ requests' \in [RequestIds -> Docs \union {None}]
       /\ \A q \in RequestIds : HasRow(q) \subseteq HasRow(q)'
       /\ \A q \in Stored : /\ requests'[q].panel = requests[q].panel
                            /\ requests'[q].parent = requests[q].parent
  BY <1>1, <1>2 DEF ShapeInv, TypeOK
<1> QED
  BY <1>1, <1>2, <1>3, <1>4, <1>6, <1>7, <1>8, <1>9, <1>10, WriteMove DEF ShapeOf

\* A copy that is written back: the panel and the parent are what they were.
LEMMA CopyWritten ==
  ASSUME ShapeInv, NEW r \in Stored, NEW doc \in Docs,
         doc.panel = requests[r].panel, doc.parent = requests[r].parent,
         doc.status \notin Decisions => doc.next \in Users,
         requests' = [requests EXCEPT ![r] = doc], UNCHANGED rows
  PROVE  /\ requests' \in [RequestIds -> Docs \union {None}]
         /\ \A q \in RequestIds : HasRow(q)' = HasRow(q)
         /\ StoredOK'
         /\ Stored' = Stored
         /\ \A q \in Stored : /\ requests'[q].panel = requests[q].panel
                              /\ requests'[q].parent = requests[q].parent
<1>1. /\ requests' \in [RequestIds -> Docs \union {None}]
      /\ requests'[r] = doc /\ doc # None /\ r \in RequestIds
      /\ \A q \in RequestIds : q # r => requests'[q] = requests[q]
  BY NoneIsNothing DEF ShapeInv, TypeOK, Stored
<1>2. Stored' = Stored
  BY <1>1 DEF Stored
<1>3. \A q : HasRow(q)' = HasRow(q)
  BY DEF HasRow
<1>4. \A q \in Stored : /\ requests'[q].panel = requests[q].panel
                        /\ requests'[q].parent = requests[q].parent
  BY <1>1 DEF Stored
<1>5. StoredOK'
  BY <1>1, <1>2, <1>3, <1>4 DEF ShapeInv, StoredOK, Open
<1> QED  BY <1>1, <1>2, <1>3, <1>4, <1>5

\* What a worker holds of a request it has copied.
LEMMA CopyType ==
  ASSUME ShapeInv, NEW w \in Workers, NEW r \in Copied(w)
  PROVE  /\ r \in RequestIds /\ r \in Stored
         /\ mem[w] \in Mem
         /\ mem[w].copy[r] \in Docs
         /\ mem[w].copy[r].panel = requests[r].panel
         /\ mem[w].copy[r].parent = requests[r].parent
         /\ mem[w].copy[r].status \notin Decisions => mem[w].copy[r].next \in Users
  BY DEF ShapeInv, TypeOK, Mem, Copied, DecideOf

LEMMA StatusSaveShape ==
  ASSUME ShapeInv, LineInv, NEW w \in Workers, StatusSave(w)
  PROVE  ShapeInv' /\ LineInv'
<1>0. PICK r \in Copied(w) : r = mem[w].req
  BY DEF StatusSave, ShapeInv, DecideOf, DecidePCs
<1> DEFINE doc == mem[w].copy[r]
<1>1. /\ requests' = [requests EXCEPT ![r] = doc]
      /\ UNCHANGED <<rows, keys>>
      /\ overtaken' = (overtaken \union Felt(w)) \ {w}
      /\ Mark(r, Overtaken(w))
      /\ Goto(w, "idle", NoMem)
  BY <1>0 DEF StatusSave
<1>2. /\ r \in RequestIds /\ r \in Stored /\ doc \in Docs
      /\ doc.panel = requests[r].panel
      /\ doc.parent = requests[r].parent
      /\ doc.status \notin Decisions => doc.next \in Users
  BY <1>0, CopyType
<1> HIDE DEF doc
<1>3. /\ requests' \in [RequestIds -> Docs \union {None}]
      /\ \A q \in RequestIds : HasRow(q)' = HasRow(q)
      /\ StoredOK' /\ Stored' = Stored
      /\ \A q \in Stored : /\ requests'[q].panel = requests[q].panel
                           /\ requests'[q].parent = requests[q].parent
  BY <1>1, <1>2, CopyWritten
<1>4. /\ marks' \in [RequestIds -> SUBSET Marks]
      /\ \A q \in RequestIds : marks[q] \subseteq marks'[q]
  <2>1. Overtaken(w) \in SUBSET Marks
    BY DEF Overtaken, Marks
  <2> QED  BY <1>1, <1>2, <2>1, MarkEffect DEF ShapeInv
<1>5. "idle" \in Steps /\ NoMem \in Mem
  BY NoMemType DEF Steps
<1>6. /\ pc'[w] = "idle" /\ mem'[w] = NoMem
      /\ \A d \in Workers : d # w => pc'[d] = pc[d] /\ mem'[d] = mem[d]
  BY <1>1, <1>5, GotoEffect DEF ShapeInv
<1>7. QueueOf(w)' /\ LineOf(w)' /\ DecideOf(w)'
  BY <1>6, NoMemType DEF QueueOf, LineOf, DecideOf, QueuePCs, DecidePCs, BulkPCs, Copied
<1>8. \A d \in Workers : d # w /\ pc[d] = "rows" =>
        HasRow(mem[d].req)' = HasRow(mem[d].req)
  BY <1>1, <1>6 DEF HasRow
<1>9. overtaken' \subseteq Workers
  BY <1>1 DEF Felt, ShapeInv, TypeOK
<1>10. /\ rows' \in [RequestIds -> [Users -> Statuses \union {None}]]
       /\ \A q \in RequestIds : HasRow(q) \subseteq HasRow(q)'
       /\ UNCHANGED keys
  BY <1>1, <1>3 DEF ShapeInv, TypeOK
<1> QED
  BY <1>1, <1>3, <1>4, <1>5, <1>7, <1>8, <1>9, <1>10, WriteMove DEF ShapeOf

LEMMA BulkRowShape ==
  ASSUME ShapeInv, LineInv, NEW w \in Workers, NEW r \in RequestIds, BulkRow(w, r)
  PROVE  ShapeInv' /\ LineInv'
<1> DEFINE m == [mem[w] EXCEPT !.req = r]
<1>0. PICK u \in HasRow(r) : u = mem[w].user
  BY DEF BulkRow, ShapeInv, DecideOf, BulkPCs, HasRow
<1>1. /\ pc[w] = "bulk" /\ r \in Copied(w) /\ Goto(w, "bulksave", m)
      /\ rows' = [rows EXCEPT ![r][u] = "APPROVED"]
      /\ overtaken' = overtaken \union Felt(w)
      /\ Mark(r, {"bulk"} \union Overtaken(w))
      /\ UNCHANGED <<requests, keys>>
  BY <1>0 DEF BulkRow
<1>2. r \in Stored
  BY <1>1, CopyType
<1>3. /\ rows' \in [RequestIds -> [Users -> Statuses \union {None}]]
      /\ \A q \in RequestIds : HasRow(q)' = HasRow(q)
      /\ StoredOK' /\ Stored' = Stored
  <2>1. "APPROVED" \in Statuses
    BY DEF Statuses, Decisions
  <2> QED  BY <1>1, <1>2, <2>1, DecisionWritten
<1>4. /\ marks' \in [RequestIds -> SUBSET Marks]
      /\ \A q \in RequestIds : marks[q] \subseteq marks'[q]
      /\ "bulk" \in marks'[r]
  <2>1. {"bulk"} \union Overtaken(w) \in SUBSET Marks
    BY DEF Overtaken, Marks
  <2> QED  BY <1>1, <2>1, MarkEffect DEF ShapeInv
<1>5. "bulksave" \in Steps /\ m \in Mem /\ m.copy = mem[w].copy /\ m.req = r
      /\ m.user = mem[w].user
  BY DEF Steps, ShapeInv, TypeOK, Mem
<1> HIDE DEF m
<1>6. /\ pc'[w] = "bulksave" /\ mem'[w] = m
      /\ \A d \in Workers : d # w => pc'[d] = pc[d] /\ mem'[d] = mem[d]
  BY <1>1, <1>5, GotoEffect DEF ShapeInv
<1>7. QueueOf(w)' /\ LineOf(w)'
  BY <1>6 DEF QueueOf, LineOf, QueuePCs
<1>8. DecideOf(w)'
  <2>1. Copied(w)' = Copied(w) /\ Copied(w) \subseteq RequestIds
    BY <1>5, <1>6 DEF Copied
  <2>2. (mem[w].user \in HasRow(mem[w].req))'
    BY <1>0, <1>3, <1>5, <1>6 DEF HasRow
  <2> QED
    BY <1>1, <1>3, <1>4, <1>5, <1>6, <2>1, <2>2
       DEF ShapeInv, DecideOf, DecidePCs, BulkPCs
<1>9. \A d \in Workers : d # w /\ pc[d] = "rows" =>
        HasRow(mem[d].req)' = HasRow(mem[d].req)
  <2> SUFFICES ASSUME NEW d \in Workers, d # w, pc[d] = "rows"
               PROVE  HasRow(mem[d].req)' = HasRow(mem[d].req)
    OBVIOUS
  <2>1. mem'[d] = mem[d] /\ mem[d].req \in RequestIds
    BY <1>6 DEF ShapeInv, QueueOf, QueuePCs
  <2> QED  BY <1>3, <2>1 DEF HasRow
<1>10. overtaken' \subseteq Workers
  BY <1>1 DEF Felt, ShapeInv, TypeOK
<1>11. /\ requests' \in [RequestIds -> Docs \union {None}]
       /\ \A q \in RequestIds : HasRow(q) \subseteq HasRow(q)'
       /\ \A q \in Stored : /\ requests'[q].panel = requests[q].panel
                            /\ requests'[q].parent = requests[q].parent
       /\ UNCHANGED keys
  BY <1>1, <1>3 DEF ShapeInv, TypeOK
<1> QED
  BY <1>1, <1>3, <1>4, <1>5, <1>7, <1>8, <1>9, <1>10, <1>11, WriteMove DEF ShapeOf

\* What the worker goes on with once it has dropped r: the other copies.
Dropped(w, r) ==
  IF Copied(w) = {r} THEN NoMem ELSE [mem[w] EXCEPT !.req = None, !.copy[r] = None]

LEMMA DropEffect ==
  ASSUME ShapeInv, NEW w \in Workers, NEW r \in Copied(w), pc[w] \in BulkPCs, Drop(w, r)
  PROVE  /\ Dropped(w, r) \in Mem
         /\ \E label \in {"idle", "bulk"} : Goto(w, label, Dropped(w, r))
         /\ pc'[w] \in {"idle", "bulk"} /\ mem'[w] = Dropped(w, r)
         /\ \A d \in Workers : d # w => pc'[d] = pc[d] /\ mem'[d] = mem[d]
         /\ pc'[w] = "bulk" => mem'[w].user \in Users
         /\ Copied(w)' \subseteq Copied(w) \ {r}
         /\ \A q \in Copied(w)' : mem'[w].copy[q] = mem[w].copy[q]
<1> DEFINE label == IF Copied(w) = {r} THEN "idle" ELSE "bulk"
           rest == [mem[w] EXCEPT !.req = None, !.copy[r] = None]
           m == Dropped(w, r)
<1>1. mem[w] \in Mem /\ mem[w].user \in Users
  BY DEF ShapeInv, TypeOK, DecideOf
<1>2. /\ rest \in Mem
      /\ rest.user = mem[w].user
      /\ rest.copy[r] = None
      /\ \A q \in RequestIds : q # r => rest.copy[q] = mem[w].copy[q]
  BY <1>1 DEF Mem, Copied
<1>3. m = IF Copied(w) = {r} THEN NoMem ELSE rest
  BY DEF Dropped
<1>4. Goto(w, label, m)
  BY DEF Drop, Dropped
<1>5. label \in {"idle", "bulk"} /\ label \in Steps
      /\ (label = "bulk" => Copied(w) # {r})
  BY DEF Steps
<1> HIDE DEF label, rest, m
<1>6. m \in Mem
  BY <1>2, <1>3, NoMemType
<1>7. /\ pc'[w] = label /\ mem'[w] = m
      /\ \A d \in Workers : d # w => pc'[d] = pc[d] /\ mem'[d] = mem[d]
  BY <1>4, <1>5, <1>6, GotoEffect DEF ShapeInv
<1>8. \A q \in RequestIds :
        q \in Copied(w)' => q # r /\ q \in Copied(w) /\ mem'[w].copy[q] = mem[w].copy[q]
  BY <1>2, <1>3, <1>7, NoMemType DEF Copied
<1>9. Copied(w)' \subseteq RequestIds
  BY DEF Copied
<1>10. pc'[w] = "bulk" => mem'[w].user \in Users
  BY <1>1, <1>2, <1>3, <1>5, <1>7
<1> QED  BY <1>4, <1>5, <1>6, <1>7, <1>8, <1>9, <1>10 DEF m

\* Whoever goes on with the copies that are left has the right shape.
LEMMA DropShape ==
  ASSUME ShapeInv, NEW w \in Workers, NEW r \in Copied(w), pc[w] \in BulkPCs, Drop(w, r),
         Stored' = Stored,
         \A q \in Stored : /\ requests'[q].panel = requests[q].panel
                           /\ requests'[q].parent = requests[q].parent
  PROVE  ShapeOf(w)'
<1>1. /\ pc'[w] \in {"idle", "bulk"}
      /\ pc'[w] = "bulk" => mem'[w].user \in Users
      /\ Copied(w)' \subseteq Copied(w)
      /\ \A q \in Copied(w)' : mem'[w].copy[q] = mem[w].copy[q]
  BY DropEffect
<1>2. QueueOf(w)' /\ LineOf(w)'
  BY <1>1 DEF QueueOf, LineOf, QueuePCs
<1>3. DecideOf(w)'
  BY <1>1 DEF ShapeInv, DecideOf, DecidePCs, BulkPCs
<1> QED  BY <1>2, <1>3 DEF ShapeOf

LEMMA BulkSaveShape ==
  ASSUME ShapeInv, LineInv, NEW w \in Workers, BulkSave(w)
  PROVE  ShapeInv' /\ LineInv'
<1>0. PICK r \in Copied(w) : r = mem[w].req /\ mem[w].user \in HasRow(r)
  BY DEF BulkSave, ShapeInv, DecideOf
<1> DEFINE doc == With(mem[w].copy[r], "IN_PROGRESS", First(HasRow(r)))
           m == Dropped(w, r)
<1>1. /\ pc[w] = "bulksave"
      /\ requests' = [requests EXCEPT ![r] = doc]
      /\ Mark(r, Overtaken(w))
      /\ Drop(w, r)
      /\ overtaken' = overtaken \ (IF Copied(w) = {r} THEN {w} ELSE {})
      /\ UNCHANGED <<rows, keys>>
  BY <1>0 DEF BulkSave
<1>2. r \in RequestIds /\ r \in Stored
  BY <1>0, CopyType
<1>3. First(HasRow(r)) \in Users
  BY <1>0, FirstIsOne DEF HasRow
<1>4. /\ doc \in Docs /\ doc.next \in Users
      /\ doc.panel = requests[r].panel /\ doc.parent = requests[r].parent
  <2>1. /\ mem[w].copy[r] \in Docs
        /\ mem[w].copy[r].panel = requests[r].panel
        /\ mem[w].copy[r].parent = requests[r].parent
    BY <1>0, CopyType
  <2> QED  BY <1>3, <2>1 DEF With, Docs, Statuses
<1> HIDE DEF doc
<1>5. /\ requests' \in [RequestIds -> Docs \union {None}]
      /\ \A q \in RequestIds : HasRow(q)' = HasRow(q)
      /\ StoredOK' /\ Stored' = Stored
      /\ \A q \in Stored : /\ requests'[q].panel = requests[q].panel
                           /\ requests'[q].parent = requests[q].parent
  BY <1>1, <1>2, <1>4, CopyWritten
<1>6. /\ marks' \in [RequestIds -> SUBSET Marks]
      /\ \A q \in RequestIds : marks[q] \subseteq marks'[q]
  <2>1. Overtaken(w) \in SUBSET Marks
    BY DEF Overtaken, Marks
  <2> QED  BY <1>1, <1>2, <2>1, MarkEffect DEF ShapeInv
<1>7. pc[w] \in BulkPCs
  BY <1>1 DEF BulkPCs
<1>8. /\ m \in Mem /\ \E label \in {"idle", "bulk"} : Goto(w, label, m)
      /\ \A d \in Workers : d # w => pc'[d] = pc[d] /\ mem'[d] = mem[d]
  BY <1>0, <1>1, <1>7, DropEffect
<1>9. ShapeOf(w)'
  BY <1>0, <1>1, <1>5, <1>7, DropShape
<1>10. \A d \in Workers : d # w /\ pc[d] = "rows" =>
         HasRow(mem[d].req)' = HasRow(mem[d].req)
  BY <1>1, <1>8 DEF HasRow
<1>11. overtaken' \subseteq Workers
  BY <1>1 DEF ShapeInv, TypeOK
<1>12. /\ rows' \in [RequestIds -> [Users -> Statuses \union {None}]]
       /\ \A q \in RequestIds : HasRow(q) \subseteq HasRow(q)'
       /\ UNCHANGED keys
  BY <1>1, <1>5 DEF ShapeInv, TypeOK
<1>13. PICK label \in {"idle", "bulk"} : Goto(w, label, m)
  BY <1>8
<1>14. label \in Steps
  BY DEF Steps
<1> HIDE DEF m
<1> QED
  BY <1>5, <1>6, <1>8, <1>9, <1>10, <1>11, <1>12, <1>13, <1>14, WriteMove

LEMMA BulkSkipShape ==
  ASSUME ShapeInv, LineInv, NEW w \in Workers, NEW r \in RequestIds, BulkSkip(w, r)
  PROVE  ShapeInv' /\ LineInv'
<1> DEFINE m == Dropped(w, r)
<1>1. /\ pc[w] \in BulkPCs /\ r \in Copied(w)
      /\ Drop(w, r)
      /\ Mark(r, IF pc[w] = "bulksave" THEN {"failed"} ELSE {})
      /\ overtaken' = overtaken \ (IF Copied(w) = {r} THEN {w} ELSE {})
      /\ UNCHANGED <<requests, rows, keys>>
  BY DEF BulkSkip, BulkPCs, ShapeInv, DecideOf
<1>2. /\ marks' \in [RequestIds -> SUBSET Marks]
      /\ \A q \in RequestIds : marks[q] \subseteq marks'[q]
  <2>1. (IF pc[w] = "bulksave" THEN {"failed"} ELSE {}) \in SUBSET Marks
    BY DEF Marks
  <2> QED  BY <1>1, <2>1, MarkEffect DEF ShapeInv
<1>3. m \in Mem /\ \E label \in {"idle", "bulk"} : Goto(w, label, m)
  BY <1>1, DropEffect
<1>4. ShapeOf(w)'
  BY <1>1, DropShape DEF Stored
<1>5. PICK label \in {"idle", "bulk"} : Goto(w, label, m)
  BY <1>3
<1>6. label \in Steps /\ overtaken' \subseteq Workers
      /\ keys' \in [RequestIds -> Keys \union {Expired, None}]
  BY <1>1 DEF Steps, ShapeInv, TypeOK
<1> HIDE DEF m
<1> QED  BY <1>1, <1>2, <1>3, <1>4, <1>5, <1>6, QuietMove

(***************************************************************************)
(* A decision's steps that store nothing keep the shape.                   *)
(***************************************************************************)
LEMMA DecideLoadShape ==
  ASSUME ShapeInv, LineInv, NEW w \in Workers, NEW u \in Users, NEW r \in RequestIds,
         NEW choice \in Statuses, DecideLoad(w, u, r, choice)
  PROVE  ShapeInv' /\ LineInv'
<1> DEFINE m == [NoMem EXCEPT !.req = r, !.user = u, !.choice = choice,
                              !.copy[r] = requests[r]]
<1>1. /\ Open(r) /\ Goto(w, "find", m)
      /\ UNCHANGED <<requests, rows, keys, overtaken, marks>>
  BY DEF DecideLoad
<1>2. /\ requests[r] \in Docs /\ r \in Stored
      /\ requests[r].status \notin Decisions => requests[r].next \in Users
  BY <1>1 DEF Open, ShapeInv, TypeOK, StoredOK, Stored
<1>3. /\ m \in Mem /\ m.req = r /\ m.user = u /\ m.choice = choice
      /\ m.copy[r] = requests[r]
      /\ \A q \in RequestIds : q # r => m.copy[q] = None
  BY <1>2 DEF NoMem, Mem, NoCopies
<1>4. "find" \in Steps
  BY DEF Steps
<1> HIDE DEF m
<1>5. pc'[w] = "find" /\ mem'[w] = m
  BY <1>1, <1>3, <1>4, GotoEffect DEF ShapeInv
<1>6. Copied(w)' = {r}
  BY <1>2, <1>3, <1>5, NoneIsNothing DEF Copied
<1>7. QueueOf(w)' /\ LineOf(w)'
  BY <1>5 DEF QueueOf, LineOf, QueuePCs
<1>8. DecideOf(w)'
  BY <1>1, <1>2, <1>3, <1>5, <1>6 DEF DecideOf, DecidePCs, BulkPCs, Stored
<1> QED
  BY <1>1, <1>3, <1>4, <1>7, <1>8, QuietMove DEF ShapeOf, ShapeInv, TypeOK

LEMMA RowFindShape ==
  ASSUME ShapeInv, LineInv, NEW w \in Workers, RowFind(w)
  PROVE  ShapeInv' /\ LineInv'
<1>1. /\ pc[w] = "find" /\ mem[w].user \in Undecided(mem[w].req)
      /\ Goto(w, "decide", mem[w])
      /\ UNCHANGED <<requests, rows, keys, overtaken, marks>>
  BY DEF RowFind
<1>2. "decide" \in Steps /\ mem[w] \in Mem
  BY DEF Steps, ShapeInv, TypeOK
<1>3. pc'[w] = "decide" /\ mem'[w] = mem[w]
  BY <1>1, <1>2, GotoEffect DEF ShapeInv
<1>4. QueueOf(w)' /\ LineOf(w)'
  BY <1>3 DEF QueueOf, LineOf, QueuePCs
<1>5. DecideOf(w)'
  <2>1. Copied(w)' = Copied(w)
    BY <1>3 DEF Copied
  <2>2. mem[w].user \in HasRow(mem[w].req)
    BY <1>1 DEF Undecided
  <2>3. (mem[w].user \in HasRow(mem[w].req))'
    BY <1>1, <1>3, <2>2 DEF HasRow
  <2> QED
    BY <1>1, <1>3, <2>1, <2>3 DEF ShapeInv, DecideOf, DecidePCs, BulkPCs, Stored
<1> QED
  BY <1>1, <1>2, <1>4, <1>5, QuietMove DEF ShapeOf, ShapeInv, TypeOK

\* Whatever the rows say, the outcome is a document of the same panel.
LEMMA OutcomeType ==
  ASSUME ShapeInv, NEW w \in Workers, NEW r \in Copied(w),
         NEW doc \in Outcomes(r, mem[w].copy[r])
  PROVE  /\ doc \in Docs
         /\ doc.panel = requests[r].panel
         /\ doc.parent = requests[r].parent
         /\ doc.status \notin Decisions => doc.next \in Users
<1>1. /\ mem[w].copy[r] \in Docs
      /\ mem[w].copy[r].panel = requests[r].panel
      /\ mem[w].copy[r].parent = requests[r].parent
  BY CopyType
<1>2. PICK status \in {"APPROVED", "REJECTED", "IN_PROGRESS"}, next \in Users \union {None} :
        /\ doc = With(mem[w].copy[r], status, next)
        /\ status = "IN_PROGRESS" => next \in Users
  BY DEF Outcomes, Undecided, HasRow
<1> QED  BY <1>1, <1>2 DEF With, Docs, Statuses, Decisions

LEMMA CountShape ==
  ASSUME ShapeInv, LineInv, NEW w \in Workers, Count(w)
  PROVE  ShapeInv' /\ LineInv'
<1>0. PICK r \in Copied(w) : r = mem[w].req
  BY DEF Count, ShapeInv, DecideOf, DecidePCs
<1>1. PICK doc \in Outcomes(r, mem[w].copy[r]) :
        Goto(w, "save", [mem[w] EXCEPT !.copy[r] = doc])
  BY <1>0 DEF Count
<1> DEFINE m == [mem[w] EXCEPT !.copy[r] = doc]
<1>2. /\ pc[w] = "count"
      /\ Mark(r, IF HasRow(r) = requests[r].panel THEN {} ELSE {"hurried"})
      /\ UNCHANGED <<requests, rows, keys, overtaken>>
  BY <1>0 DEF Count
<1>3. /\ doc \in Docs
      /\ doc.panel = requests[r].panel
      /\ doc.parent = requests[r].parent
      /\ doc.status \notin Decisions => doc.next \in Users
  BY OutcomeType
<1>4. mem[w] \in Mem /\ r \in RequestIds
  BY CopyType
<1>5. /\ m \in Mem /\ m.req = mem[w].req /\ m.user = mem[w].user
      /\ m.choice = mem[w].choice
      /\ m.copy[r] = doc
      /\ \A q \in RequestIds : q # r => m.copy[q] = mem[w].copy[q]
  BY <1>3, <1>4 DEF Mem
<1>6. Goto(w, "save", m) /\ "save" \in Steps
  BY <1>1 DEF Steps
<1> HIDE DEF m
<1>7. pc'[w] = "save" /\ mem'[w] = m
  BY <1>5, <1>6, GotoEffect DEF ShapeInv
<1>8. /\ marks' \in [RequestIds -> SUBSET Marks]
      /\ \A q \in RequestIds : marks[q] \subseteq marks'[q]
  <2>1. (IF HasRow(r) = requests[r].panel THEN {} ELSE {"hurried"}) \in SUBSET Marks
    BY DEF Marks
  <2> QED  BY <1>2, <1>4, <2>1, MarkEffect DEF ShapeInv
<1>9. QueueOf(w)' /\ LineOf(w)'
  BY <1>7 DEF QueueOf, LineOf, QueuePCs
<1>10. DecideOf(w)'
  <2>1. Copied(w)' = Copied(w)
    BY <1>3, <1>5, <1>7, NoneIsNothing DEF Copied
  <2>2. (mem[w].user \in HasRow(mem[w].req))'
    BY <1>2, <1>5, <1>7 DEF ShapeInv, DecideOf, HasRow
  <2>3. Copied(w) \subseteq RequestIds /\ Stored' = Stored /\ DecideOf(w)
    BY <1>2 DEF Copied, Stored, ShapeInv
  <2> QED
    BY <1>2, <1>3, <1>5, <1>7, <2>1, <2>2, <2>3 DEF DecideOf, DecidePCs, BulkPCs
<1> QED
  BY <1>2, <1>5, <1>6, <1>8, <1>9, <1>10, QuietMove DEF ShapeOf, ShapeInv, TypeOK

LEMMA BulkLoadShape ==
  ASSUME ShapeInv, LineInv, NEW w \in Workers, NEW u \in Users, BulkLoad(w, u)
  PROVE  ShapeInv' /\ LineInv'
<1> DEFINE eligible ==
             {r \in RequestIds : Open(r) /\ requests[r].next = u /\ Org[r] = Org[u]}
           m == [NoMem EXCEPT !.user = u,
                   !.copy = [r \in RequestIds |-> IF r \in eligible THEN requests[r] ELSE None]]
<1>1. Goto(w, "bulk", m) /\ UNCHANGED <<requests, rows, keys, overtaken, marks>>
  BY DEF BulkLoad
<1>2. \A r \in eligible :
        /\ r \in Stored /\ requests[r] \in Docs
        /\ requests[r].status \notin Decisions => requests[r].next \in Users
  BY DEF Open, ShapeInv, TypeOK, StoredOK, Stored
<1>3. eligible \subseteq RequestIds
  OBVIOUS
<1> HIDE DEF eligible
<1>4. /\ m \in Mem /\ m.user = u
      /\ \A r \in RequestIds : m.copy[r] = IF r \in eligible THEN requests[r] ELSE None
  BY <1>2, <1>3 DEF NoMem, Mem, NoCopies
<1>5. "bulk" \in Steps
  BY DEF Steps
<1> HIDE DEF m
<1>6. pc'[w] = "bulk" /\ mem'[w] = m
  BY <1>1, <1>4, <1>5, GotoEffect DEF ShapeInv
<1>7. QueueOf(w)' /\ LineOf(w)'
  BY <1>6 DEF QueueOf, LineOf, QueuePCs
<1>8. DecideOf(w)'
  <2>1. \A r \in RequestIds : r \in Copied(w)' => r \in eligible
    BY <1>4, <1>6 DEF Copied
  <2>2. Copied(w)' \subseteq RequestIds /\ Stored' = Stored
    BY <1>1 DEF Copied, Stored
  <2> QED
    BY <1>1, <1>2, <1>4, <1>6, <2>1, <2>2 DEF DecideOf, DecidePCs, BulkPCs
<1> QED
  BY <1>1, <1>4, <1>5, <1>7, <1>8, QuietMove DEF ShapeOf, ShapeInv, TypeOK

LEMMA StopShape ==
  ASSUME ShapeInv, LineInv, NEW w \in Workers, Stop(w)
  PROVE  ShapeInv' /\ LineInv'
<1>1. /\ Goto(w, "idle", NoMem)
      /\ overtaken' = overtaken \ {w}
      /\ UNCHANGED <<requests, rows, keys>>
  BY DEF Stop
<1>2. /\ marks' \in [RequestIds -> SUBSET Marks]
      /\ \A q \in RequestIds : marks[q] \subseteq marks'[q]
  <2>1. CASE pc[w] \in {"count", "save", "bulksave"}
    <3>1. mem[w].req \in RequestIds
      BY <2>1, CopyType DEF ShapeInv, DecideOf, DecidePCs
    <3> QED  BY <2>1, <3>1, MarkEffect DEF Stop, Marks, ShapeInv
  <2>2. CASE pc[w] \notin {"count", "save", "bulksave"}
    BY <2>2 DEF Stop, ShapeInv, TypeOK
  <2> QED  BY <2>1, <2>2
<1> QED  BY <1>1, <1>2, IdleMove DEF ShapeInv, TypeOK

LEMMA InitShape == Init => ShapeInv /\ LineInv
<1> SUFFICES ASSUME Init PROVE ShapeInv /\ LineInv
  OBVIOUS
<1>1. TypeOK
  BY NoMemType DEF Init, TypeOK, NoCopies, Steps
<1>2. Stored = {}
  BY DEF Init, Stored, NoCopies
<1>3. StoredOK
  BY <1>2 DEF Init, StoredOK, HasRow
<1>4. \A w \in Workers : QueueOf(w) /\ LineOf(w)
  BY DEF Init, QueueOf, LineOf, QueuePCs
<1>5. \A w \in Workers : DecideOf(w)
  BY NoMemType DEF Init, DecideOf, DecidePCs, BulkPCs, Copied
<1> QED  BY <1>1, <1>2, <1>3, <1>4, <1>5 DEF ShapeInv, LineInv

LEMMA NextShape == ShapeInv /\ LineInv /\ [Next]_gvVars => ShapeInv' /\ LineInv'
<1> SUFFICES ASSUME ShapeInv, LineInv, [Next]_gvVars PROVE ShapeInv' /\ LineInv'
  OBVIOUS
<1>1. ASSUME NEW w \in Workers, Queueing(w) PROVE ShapeInv' /\ LineInv'
  <2>1. CASE \E r \in RequestIds \ Stored, panel \in SUBSET Users,
                parent \in Stored \union {None} :
               \E process \in {k \in RequestIds : keys[k] # None} \union {None} :
                 QueueStart(w, r, panel, parent, process)
    BY <2>1, QueueStartShape
  <2>2. CASE GuardKey(w) \/ GuardSkipped(w)
    BY <2>2, GuardKeyShape
  <2>3. CASE ParentLoad(w)
    BY <2>3, ParentLoadShape
  <2>4. CASE RequestInsert(w)
    BY <2>4, RequestInsertShape
  <2>5. CASE RowInsert(w)
    BY <2>5, RowInsertShape
  <2>6. CASE KeyLoad(w)
    BY <2>6, KeyLoadShape
  <2>7. CASE KeyMove(w)
    BY <2>7, KeyMoveShape
  <2>8. CASE KeyCreate(w)
    BY <2>8, KeyCreateShape
  <2> QED
    BY <1>1, <2>1, <2>2, <2>3, <2>4, <2>5, <2>6, <2>7, <2>8 DEF Queueing
<1>2. ASSUME NEW w \in Workers, Deciding(w) PROVE ShapeInv' /\ LineInv'
  BY <1>2, DecideLoadShape, RowFindShape, RowSaveShape, CountShape, StatusSaveShape
     DEF Deciding
<1>3. ASSUME NEW w \in Workers, Approving(w) PROVE ShapeInv' /\ LineInv'
  BY <1>3, BulkLoadShape, BulkRowShape, BulkSkipShape, BulkSaveShape DEF Approving
<1>4. ASSUME NEW w \in Workers, Stop(w) PROVE ShapeInv' /\ LineInv'
  BY <1>4, StopShape
<1>5. ASSUME NEW k \in RequestIds, Expire(k) PROVE ShapeInv' /\ LineInv'
  BY <1>5, ExpireShape
<1>6. CASE UNCHANGED gvVars
  <2>1. /\ requests' = requests /\ rows' = rows /\ keys' = keys /\ pc' = pc
        /\ mem' = mem /\ overtaken' = overtaken /\ marks' = marks
    BY <1>6 DEF gvVars
  <2>2. TypeOK' /\ StoredOK'
    BY <2>1 DEF ShapeInv, TypeOK, StoredOK, HasRow, Stored, Open
  <2>3. \A w \in Workers : QueueOf(w)' /\ DecideOf(w)'
    BY <2>1 DEF ShapeInv, QueueOf, DecideOf, HasRow, Stored, Copied
  <2>4. \A p : Ancestor(p)' = Ancestor(p)
    BY <2>1, AncestorIsLine, AncestorIsLineNext
  <2>5. LineInv'
    BY <2>1, <2>4 DEF LineInv, LineOf, LineOfStored, Stored
  <2> QED  BY <2>2, <2>3, <2>5 DEF ShapeInv
<1> QED  BY <1>1, <1>2, <1>3, <1>4, <1>5, <1>6 DEF Next

\* Every reachable state of the requests, their rows, the process keys and what
\* the workers hold is well typed.
THEOREM ValidationTypeCorrect == Spec => []TypeOK
<1>1. ShapeInv => TypeOK
  BY DEF ShapeInv
<1> QED  BY <1>1, InitShape, NextShape, PTL DEF Spec

(***************************************************************************)
(* Decisions.                                                              *)
(***************************************************************************)
\* Only an open request is decided on, by a worker nobody has overtaken.
FreshOf(w) == w \notin overtaken => \A r \in Copied(w) : Open(r)

\* The status and the next validator that the rows of r call for.
Match(r, doc) ==
  /\ (doc.status = "APPROVED") <=> (Said(r, "APPROVED") = requests[r].panel)
  /\ (doc.status = "REJECTED") <=> (Said(r, "REJECTED") # {})
  /\ doc.status \notin Decisions => rows[r][doc.next] \notin Decisions

\* What is about to be saved was counted on all the rows, and on the rows as
\* they are unless the worker has been overtaken.
CountedOf(w) ==
  pc[w] = "save" =>
    \A r \in RequestIds :
      r = mem[w].req /\ "hurried" \notin marks[r] =>
        /\ HasRow(r) = requests[r].panel
        /\ w \notin overtaken => Match(r, mem[w].copy[r])

Unspoiled(r) == marks[r] \cap {"hurried", "overtaken"} = {}

\* Nothing of a closed request is still to come.
CompleteOf(r) ==
  requests[r].status \in Decisions /\ Unspoiled(r) => HasRow(r) = requests[r].panel

ApprovedOf(r) ==
  requests[r].status = "APPROVED" /\ Unspoiled(r) =>
    Said(r, "APPROVED") = requests[r].panel

\* A decision that is not in the status yet is being counted.
Pending(r) == \E w \in Workers : pc[w] \in {"count", "save"} /\ mem[w].req = r

SettlingOf(r) ==
  marks[r] \subseteq {"unguarded"} => Pending(r) \/ Match(r, requests[r])

DecidedOf(r) == CompleteOf(r) /\ ApprovedOf(r) /\ SettlingOf(r)

DecisionInv ==
  /\ \A w \in Workers : FreshOf(w) /\ CountedOf(w)
  /\ \A r \in Stored : DecidedOf(r)

\* A step that stores nothing and does not forget a decision it is counting.
LEMMA QuietDecision ==
  ASSUME ShapeInv, DecisionInv, NEW w \in Workers,
         \A d \in Workers : d # w => pc'[d] = pc[d] /\ mem'[d] = mem[d],
         UNCHANGED <<requests, rows>>,
         \A d \in overtaken : d # w => d \in overtaken',
         \A q \in RequestIds : marks[q] \subseteq marks'[q],
         FreshOf(w)', CountedOf(w)',
         pc[w] \in {"count", "save"} =>
           \/ pc'[w] \in {"count", "save"} /\ mem'[w].req = mem[w].req
           \/ "failed" \in marks'[mem[w].req]
  PROVE  DecisionInv'
<1>1. ASSUME NEW d \in Workers PROVE FreshOf(d)'
  BY DEF DecisionInv, FreshOf, Copied, Open
<1>2. ASSUME NEW d \in Workers PROVE CountedOf(d)'
  <2>1. CASE d = w
    BY <2>1
  <2>2. CASE d # w
    <3> SUFFICES ASSUME pc'[d] = "save", NEW r \in RequestIds, r = mem'[d].req,
                        "hurried" \notin marks'[r]
                 PROVE  /\ HasRow(r)' = requests'[r].panel
                        /\ d \notin overtaken' => Match(r, mem[d].copy[r])'
      BY DEF CountedOf
    <3>1. pc[d] = "save" /\ r = mem[d].req /\ mem'[d] = mem[d] /\ "hurried" \notin marks[r]
      BY <2>2
    <3>2. /\ HasRow(r) = requests[r].panel
          /\ d \notin overtaken => Match(r, mem[d].copy[r])
      BY <3>1 DEF DecisionInv, CountedOf
    <3>3. HasRow(r)' = HasRow(r) /\ Match(r, mem[d].copy[r])' = Match(r, mem[d].copy[r])
      BY <3>1 DEF HasRow, Match, Said
    <3> QED  BY <2>2, <3>2, <3>3
  <2> QED  BY <2>1, <2>2
<1>3. ASSUME NEW r \in Stored PROVE DecidedOf(r)'
  <2>1. r \in RequestIds /\ DecidedOf(r) /\ marks[r] \subseteq marks'[r]
    BY DEF DecisionInv, Stored
  <2>2. CompleteOf(r)' /\ ApprovedOf(r)'
    BY <2>1 DEF DecidedOf, CompleteOf, ApprovedOf, Unspoiled, HasRow, Said
  <2>3. SettlingOf(r)'
    <3> SUFFICES ASSUME marks'[r] \subseteq {"unguarded"}
                 PROVE  Pending(r)' \/ Match(r, requests[r])'
      BY DEF SettlingOf
    <3>1. CASE Match(r, requests[r])
      BY <3>1 DEF Match, Said
    <3>2. CASE Pending(r)
      <4>1. PICK d \in Workers : pc[d] \in {"count", "save"} /\ mem[d].req = r
        BY <3>2 DEF Pending
      <4>2. pc'[d] \in {"count", "save"} /\ mem'[d].req = r
        BY <4>1
      <4> QED  BY <4>2 DEF Pending
    <3> QED  BY <2>1, <3>1, <3>2 DEF DecidedOf, SettlingOf
  <2> QED  BY <2>2, <2>3 DEF DecidedOf
<1>4. Stored' = Stored
  BY DEF Stored
<1> QED  BY <1>1, <1>2, <1>3, <1>4 DEF DecisionInv

\* Workers that queue, and workers that are done, decide nothing.
LEMMA NoDecision ==
  ASSUME ShapeInv, DecisionInv, NEW w \in Workers, NEW label \in Steps, NEW m \in Mem,
         pc[w] \notin {"count", "save"}, label # "save",
         Goto(w, label, m), \A r \in RequestIds : m.copy[r] # None => Open(r) \/ w \in overtaken',
         UNCHANGED <<requests, rows>>,
         \A d \in overtaken : d # w => d \in overtaken',
         \A q \in RequestIds : marks[q] \subseteq marks'[q]
  PROVE  DecisionInv'
<1>1. /\ pc'[w] = label /\ mem'[w] = m
      /\ \A d \in Workers : d # w => pc'[d] = pc[d] /\ mem'[d] = mem[d]
  BY GotoEffect DEF ShapeInv
<1>2. FreshOf(w)'
  BY <1>1 DEF FreshOf, Copied, Open
<1>3. CountedOf(w)'
  BY <1>1 DEF CountedOf
<1> QED  BY <1>1, <1>2, <1>3, QuietDecision

\* A worker that stores nothing and has nothing to count: it goes on with the
\* copies it has, with none, or with copies it has just read.
LEMMA QueueingDecision ==
  ASSUME ShapeInv, DecisionInv, NEW w \in Workers,
         \/ \E r \in RequestIds, panel \in SUBSET Users, parent \in Stored \union {None},
               process \in RequestIds \union {None} : QueueStart(w, r, panel, parent, process)
         \/ GuardKey(w) \/ GuardSkipped(w) \/ ParentLoad(w)
         \/ KeyLoad(w) \/ KeyMove(w) \/ KeyCreate(w)
  PROVE  DecisionInv'
<1>1. /\ mem[w] \in Mem
      /\ \A r \in RequestIds : mem[w].copy[r] # None => Open(r) \/ w \in overtaken
  BY DEF ShapeInv, TypeOK, DecisionInv, FreshOf, Copied
<1>2. CASE \E r \in RequestIds, panel \in SUBSET Users, parent \in Stored \union {None},
              process \in RequestIds \union {None} : QueueStart(w, r, panel, parent, process)
  <2>1. PICK r \in RequestIds, panel \in SUBSET Users, parent \in Stored \union {None},
             process \in RequestIds \union {None} : QueueStart(w, r, panel, parent, process)
    BY <1>2
  <2> DEFINE label == IF parent = None THEN "insert"
                      ELSE IF process = None THEN "parent" ELSE "guard"
             m == [NoMem EXCEPT !.req = r, !.panel = panel, !.parent = parent,
                                !.process = process]
  <2>2. /\ pc[w] = "idle" /\ Goto(w, label, m)
        /\ UNCHANGED <<requests, rows, keys, overtaken, marks>>
    BY <2>1 DEF QueueStart
  <2>3. m \in Mem /\ \A q \in RequestIds : m.copy[q] = None
    BY DEF NoMem, Mem, NoCopies, Stored
  <2>4. label \in Steps /\ label # "save"
    BY DEF Steps
  <2> HIDE DEF label, m
  <2> QED  BY <2>2, <2>3, <2>4, NoDecision
<1>3. CASE GuardKey(w)
  <2> DEFINE m == [mem[w] EXCEPT !.checked = TRUE]
  <2>1. m \in Mem /\ m.copy = mem[w].copy /\ "parent" \in Steps
    BY <1>1 DEF Mem, Steps
  <2>2. /\ pc[w] = "guard" /\ Goto(w, "parent", m)
        /\ UNCHANGED <<requests, rows, keys, overtaken, marks>>
    BY <1>3 DEF GuardKey
  <2> HIDE DEF m
  <2> QED  BY <1>1, <2>1, <2>2, NoDecision
<1>4. CASE GuardSkipped(w)
  BY <1>1, <1>4, NoDecision DEF GuardSkipped, Steps
<1>5. CASE ParentLoad(w)
  <2> DEFINE root == Root(mem[w].parent)
             m == [mem[w] EXCEPT !.root = root]
  <2>1. /\ pc[w] = "parent" /\ Goto(w, "insert", m)
        /\ UNCHANGED <<requests, rows, keys, overtaken, marks>>
    BY <1>5 DEF ParentLoad
  <2>2. pc'[w] = "insert" /\ \A d \in Workers : d # w => pc'[d] = pc[d] /\ mem'[d] = mem[d]
    BY <2>1 DEF Goto, Steps, ShapeInv, TypeOK
  <2>3. mem'[w] = m
    BY <2>1 DEF Goto, ShapeInv, TypeOK
  <2>4. m.copy = mem[w].copy
    BY <1>1 DEF Mem
  <2> HIDE DEF m
  <2>5. Copied(w)' = Copied(w)
    BY <2>3, <2>4 DEF Copied
  <2>6. FreshOf(w)' /\ CountedOf(w)'
    BY <2>1, <2>2, <2>5 DEF DecisionInv, FreshOf, CountedOf, Open
  <2> QED  BY <2>1, <2>2, <2>6, QuietDecision
<1>6. CASE KeyLoad(w)
  <2> DEFINE m == [mem[w] EXCEPT !.root = keys[mem[w].process].root]
  <2>1. /\ pc[w] = "key" /\ Goto(w, "rekey", m) /\ keys[mem[w].process] \in Keys
        /\ UNCHANGED <<requests, rows, keys, overtaken, marks>>
    BY <1>6 DEF KeyLoad
  <2>2. m \in Mem /\ m.copy = mem[w].copy /\ "rekey" \in Steps
    BY <1>1, <2>1 DEF Mem, Steps, Keys
  <2> HIDE DEF m
  <2> QED  BY <1>1, <2>1, <2>2, NoDecision
<1>7. CASE KeyMove(w) \/ KeyCreate(w)
  <2>1. /\ pc[w] \in {"key", "rekey"} /\ Goto(w, "idle", NoMem)
        /\ UNCHANGED <<requests, rows, overtaken>>
    BY <1>7 DEF KeyMove, KeyCreate
  <2>2. \A q \in RequestIds : marks[q] \subseteq marks'[q]
    BY <1>7 DEF KeyMove, KeyCreate, Mark, ShapeInv, TypeOK
  <2> QED  BY <2>1, <2>2, NoMemType, NoDecision DEF Steps
<1> QED  BY <1>2, <1>3, <1>4, <1>5, <1>6, <1>7

LEMMA ExpireDecision ==
  ASSUME ShapeInv, DecisionInv, NEW k \in RequestIds, Expire(k)
  PROVE  DecisionInv'
  BY DEF Expire, DecisionInv, FreshOf, CountedOf, DecidedOf, CompleteOf, ApprovedOf,
         SettlingOf, Unspoiled, Pending, Match, Said, HasRow, Copied, Open, Stored

LEMMA ReadingDecision ==
  ASSUME ShapeInv, DecisionInv, NEW w \in Workers,
         \/ \E u \in Users, r \in RequestIds, choice \in Statuses : DecideLoad(w, u, r, choice)
         \/ RowFind(w)
         \/ \E u \in Users : BulkLoad(w, u)
  PROVE  DecisionInv'
<1>1. CASE \E u \in Users, r \in RequestIds, choice \in Statuses : DecideLoad(w, u, r, choice)
  <2>1. PICK u \in Users, r \in RequestIds, choice \in Statuses : DecideLoad(w, u, r, choice)
    BY <1>1
  <2> DEFINE m == [NoMem EXCEPT !.req = r, !.user = u, !.choice = choice,
                                !.copy[r] = requests[r]]
  <2>2. /\ pc[w] = "idle" /\ Open(r) /\ Goto(w, "find", m)
        /\ UNCHANGED <<requests, rows, keys, overtaken, marks>>
    BY <2>1 DEF DecideLoad
  <2>3. requests[r] \in Docs
    BY <2>2 DEF Open, ShapeInv, TypeOK
  <2>4. m \in Mem /\ \A q \in RequestIds : q # r => m.copy[q] = None
    BY <2>3 DEF NoMem, Mem, NoCopies
  <2> HIDE DEF m
  <2> QED  BY <2>2, <2>4, NoDecision DEF Steps
<1>2. CASE RowFind(w)
  <2>1. /\ mem[w] \in Mem
        /\ \A r \in RequestIds : mem[w].copy[r] # None => Open(r) \/ w \in overtaken
    BY DEF ShapeInv, TypeOK, DecisionInv, FreshOf, Copied
  <2> QED  BY <1>2, <2>1, NoDecision DEF RowFind, Steps
<1>3. CASE \E u \in Users : BulkLoad(w, u)
  <2>1. PICK u \in Users : BulkLoad(w, u)
    BY <1>3
  <2> DEFINE eligible ==
               {r \in RequestIds : Open(r) /\ requests[r].next = u /\ Org[r] = Org[u]}
             m == [NoMem EXCEPT !.user = u,
                     !.copy = [r \in RequestIds |-> IF r \in eligible THEN requests[r] ELSE None]]
  <2>2. /\ pc[w] = "idle" /\ Goto(w, "bulk", m)
        /\ UNCHANGED <<requests, rows, keys, overtaken, marks>>
    BY <2>1 DEF BulkLoad
  <2>3. \A r \in eligible : r \in RequestIds /\ Open(r) /\ requests[r] \in Docs
    BY DEF Open, ShapeInv, TypeOK
  <2> HIDE DEF eligible
  <2>4. m \in Mem /\ \A r \in RequestIds : m.copy[r] # None => r \in eligible
    BY <2>3 DEF NoMem, Mem, NoCopies
  <2> HIDE DEF m
  <2> QED  BY <2>2, <2>3, <2>4, NoDecision DEF Steps
<1> QED  BY <1>1, <1>2, <1>3

LEMMA BulkSkipDecision ==
  ASSUME ShapeInv, DecisionInv, NEW w \in Workers, NEW r \in RequestIds, BulkSkip(w, r)
  PROVE  DecisionInv'
<1>1. /\ pc[w] \in {"bulk", "bulksave"} /\ r \in Copied(w)
      /\ Drop(w, r)
      /\ Mark(r, IF pc[w] = "bulksave" THEN {"failed"} ELSE {})
      /\ overtaken' = overtaken \ (IF Copied(w) = {r} THEN {w} ELSE {})
      /\ UNCHANGED <<requests, rows, keys>>
  BY DEF BulkSkip, ShapeInv, DecideOf
<1>2. /\ pc'[w] \in {"idle", "bulk"}
      /\ \A d \in Workers : d # w => pc'[d] = pc[d] /\ mem'[d] = mem[d]
      /\ Copied(w)' \subseteq Copied(w) \ {r}
  BY <1>1, DropEffect DEF BulkPCs
<1>3. \A q \in RequestIds : marks[q] \subseteq marks'[q]
  BY <1>1 DEF Mark, ShapeInv, TypeOK
<1>4. FreshOf(w)' /\ CountedOf(w)'
  BY <1>1, <1>2 DEF DecisionInv, FreshOf, CountedOf, Open
<1> QED  BY <1>1, <1>2, <1>3, <1>4, QuietDecision

\* A handler that stops between a decision and its outcome leaves a mark.
LEMMA StopDecision ==
  ASSUME ShapeInv, DecisionInv, NEW w \in Workers, Stop(w)
  PROVE  DecisionInv'
<1>1. /\ Goto(w, "idle", NoMem)
      /\ overtaken' = overtaken \ {w}
      /\ UNCHANGED <<requests, rows, keys>>
  BY DEF Stop
<1>2. /\ pc'[w] = "idle" /\ mem'[w] = NoMem
      /\ \A d \in Workers : d # w => pc'[d] = pc[d] /\ mem'[d] = mem[d]
  BY <1>1, NoMemType, GotoEffect DEF Steps, ShapeInv
<1>3. /\ \A q \in RequestIds : marks[q] \subseteq marks'[q]
      /\ pc[w] \in {"count", "save"} => "failed" \in marks'[mem[w].req]
  <2>1. CASE pc[w] \in {"count", "save", "bulksave"}
    <3>1. mem[w].req \in RequestIds
      BY <2>1, CopyType DEF ShapeInv, DecideOf, DecidePCs
    <3> QED  BY <2>1, <3>1, MarkEffect DEF Stop, Marks, ShapeInv
  <2>2. CASE pc[w] \notin {"count", "save", "bulksave"}
    BY <2>2 DEF Stop, ShapeInv, TypeOK
  <2> QED  BY <2>1, <2>2
<1>4. FreshOf(w)' /\ CountedOf(w)'
  BY <1>2, NoMemType DEF FreshOf, CountedOf, Copied
<1> QED  BY <1>1, <1>2, <1>3, <1>4, QuietDecision

\* Counted on the rows of the whole panel, the outcome is what the rows say.
LEMMA OutcomeMatches ==
  ASSUME ShapeInv, NEW r \in Stored, HasRow(r) = requests[r].panel,
         NEW old \in Docs, NEW doc \in Outcomes(r, old)
  PROVE  Match(r, doc)
<1>1. /\ requests[r].panel # {}
      /\ Said(r, "APPROVED") \subseteq HasRow(r)
      /\ Said(r, "APPROVED") \intersect Said(r, "REJECTED") = {}
      /\ Said(r, "REJECTED") \subseteq HasRow(r)
  BY NoneIsNothing DEF ShapeInv, StoredOK, Stored, Said, HasRow, Decisions
<1>2. \A status \in Statuses, next \in Users \union {None} :
        With(old, status, next).status = status /\ With(old, status, next).next = next
  BY DEF With, Docs
<1>3. CASE Said(r, "APPROVED") = HasRow(r)
  <2>1. doc.status = "APPROVED"
    BY <1>2, <1>3 DEF Outcomes, Statuses, Decisions
  <2>2. Said(r, "REJECTED") = {}
    BY <1>1, <1>3
  <2> QED  BY <1>3, <2>1, <2>2 DEF Match, Decisions
<1>4. CASE Said(r, "APPROVED") # HasRow(r) /\ Said(r, "REJECTED") # {}
  <2>1. doc.status = "REJECTED"
    BY <1>2, <1>4 DEF Outcomes, Statuses, Decisions
  <2> QED  BY <1>4, <2>1 DEF Match, Decisions
<1>5. CASE Said(r, "APPROVED") # HasRow(r) /\ Said(r, "REJECTED") = {}
  <2>1. PICK u \in Undecided(r) : doc = With(old, "IN_PROGRESS", u)
    BY <1>5 DEF Outcomes
  <2>2. doc.status = "IN_PROGRESS" /\ doc.next = u /\ rows[r][u] \notin Decisions
    BY <1>2, <2>1 DEF Undecided, HasRow, Statuses
  <2> QED  BY <1>5, <2>2 DEF Match, Decisions
<1> QED  BY <1>3, <1>4, <1>5

LEMMA CountDecision ==
  ASSUME ShapeInv, DecisionInv, NEW w \in Workers, Count(w)
  PROVE  DecisionInv'
<1>0. PICK r \in Copied(w) : r = mem[w].req
  BY DEF Count, ShapeInv, DecideOf, DecidePCs
<1>1. PICK doc \in Outcomes(r, mem[w].copy[r]) :
        Goto(w, "save", [mem[w] EXCEPT !.copy[r] = doc])
  BY <1>0 DEF Count
<1> DEFINE m == [mem[w] EXCEPT !.copy[r] = doc]
<1>2. /\ pc[w] = "count"
      /\ Mark(r, IF HasRow(r) = requests[r].panel THEN {} ELSE {"hurried"})
      /\ UNCHANGED <<requests, rows, keys, overtaken>>
  BY <1>0 DEF Count
<1>3. mem[w] \in Mem /\ r \in RequestIds /\ r \in Stored /\ mem[w].copy[r] \in Docs
  BY CopyType
<1>4. doc \in Docs
  BY OutcomeType
<1>5. /\ m \in Mem /\ m.req = r
      /\ m.copy[r] = doc
      /\ \A q \in RequestIds : q # r => m.copy[q] = mem[w].copy[q]
  BY <1>0, <1>3, <1>4 DEF Mem
<1> HIDE DEF m
<1>6. /\ pc'[w] = "save" /\ mem'[w] = m
      /\ \A d \in Workers : d # w => pc'[d] = pc[d] /\ mem'[d] = mem[d]
  BY <1>1, <1>5, GotoEffect DEF ShapeInv, Steps, m
<1>7. /\ \A q \in RequestIds : marks[q] \subseteq marks'[q]
      /\ HasRow(r) # requests[r].panel => "hurried" \in marks'[r]
  BY <1>2, <1>3 DEF Mark, ShapeInv, TypeOK
<1>8. FreshOf(w)'
  <2>1. \A q \in RequestIds : q \in Copied(w)' => q \in Copied(w)
    BY <1>5, <1>6 DEF Copied
  <2>2. Copied(w)' \subseteq RequestIds
    BY DEF Copied
  <2> QED  BY <1>2, <2>1, <2>2 DEF DecisionInv, FreshOf, Open
<1>9. CountedOf(w)'
  <2>1. HasRow(r) = requests[r].panel => Match(r, doc)
    BY <1>3, OutcomeMatches
  <2>2. Match(r, mem[w].copy[r])' = Match(r, doc)
    BY <1>2, <1>5, <1>6 DEF Match, Said
  <2>3. HasRow(r)' = HasRow(r)
    BY <1>2 DEF HasRow
  <2>4. \A q \in RequestIds : q = mem'[w].req => q = r
    BY <1>5, <1>6
  <2> QED  BY <1>2, <1>7, <2>1, <2>2, <2>3, <2>4 DEF CountedOf
<1> QED  BY <1>0, <1>2, <1>5, <1>6, <1>7, <1>8, <1>9, QuietDecision

\* A step that writes r or its rows: the worker itself and r are looked at, the
\* others are overtaken if they hold what has changed.
LEMMA WrittenDecision ==
  ASSUME ShapeInv, DecisionInv, NEW w \in Workers, NEW r \in RequestIds,
         \A d \in Workers : d # w => pc'[d] = pc[d] /\ mem'[d] = mem[d],
         \A q \in RequestIds : q # r => requests'[q] = requests[q] /\ rows'[q] = rows[q],
         Stored' = Stored \union {r},
         r \in Stored => requests'[r].panel = requests[r].panel,
         r \notin Stored => requests'[r].status \notin Decisions,
         HasRow(r) = requests[r].panel /\ r \in Stored => HasRow(r)' = HasRow(r),
         \A d \in overtaken \union Felt(w) : d # w => d \in overtaken',
         \A q \in RequestIds : marks[q] \subseteq marks'[q],
         pc[w] \in {"count", "save"} => mem[w].req = r,
         FreshOf(w)', CountedOf(w)', DecidedOf(r)'
  PROVE  DecisionInv'
<1>1. ASSUME NEW d \in Workers PROVE FreshOf(d)'
  <2>1. CASE d = w
    BY <2>1
  <2>2. CASE d # w
    <3> SUFFICES ASSUME d \notin overtaken', NEW q \in RequestIds, q \in Copied(d)'
                 PROVE  Open(q)'
      BY DEF FreshOf, Copied
    <3>1. q \in Copied(d) /\ d \notin overtaken /\ d \notin Felt(w)
      BY <2>2 DEF Copied
    <3>2. Open(q)
      BY <3>1 DEF DecisionInv, FreshOf
    <3>3. requests'[q].status \notin Decisions
      BY <2>2, <3>1, <3>2 DEF Felt
    <3>4. q \in Stored'
      BY <3>2 DEF Open, Stored
    <3> QED  BY <3>3, <3>4 DEF Open, Stored
  <2> QED  BY <2>1, <2>2
<1>2. ASSUME NEW d \in Workers PROVE CountedOf(d)'
  <2>1. CASE d = w
    BY <2>1
  <2>2. CASE d # w
    <3> SUFFICES ASSUME pc'[d] = "save", NEW q \in RequestIds, q = mem'[d].req,
                        "hurried" \notin marks'[q]
                 PROVE  /\ HasRow(q)' = requests'[q].panel
                        /\ d \notin overtaken' => Match(q, mem[d].copy[q])'
      BY DEF CountedOf
    <3>1. pc[d] = "save" /\ q = mem[d].req /\ mem'[d] = mem[d] /\ "hurried" \notin marks[q]
      BY <2>2
    <3>2. /\ HasRow(q) = requests[q].panel
          /\ d \notin overtaken => Match(q, mem[d].copy[q])
      BY <3>1 DEF DecisionInv, CountedOf
    <3>3. q \in Stored
      BY <3>1, CopyType DEF ShapeInv, DecideOf, DecidePCs
    <3>4. requests'[q].panel = requests[q].panel
      BY <3>3
    <3>5. HasRow(q)' = HasRow(q)
      BY <3>2, <3>3 DEF HasRow
    <3>6. d \notin overtaken' => rows'[q] = rows[q] /\ d \notin overtaken
      BY <2>2, <3>1 DEF Felt
    <3>7. rows'[q] = rows[q] => Match(q, mem[d].copy[q])' = Match(q, mem[d].copy[q])
      BY <3>1, <3>4 DEF Match, Said
    <3> QED  BY <3>2, <3>4, <3>5, <3>6, <3>7
  <2> QED  BY <2>1, <2>2
<1>3. ASSUME NEW q \in Stored, q # r PROVE DecidedOf(q)'
  <2>1. /\ q \in RequestIds /\ DecidedOf(q) /\ marks[q] \subseteq marks'[q]
        /\ requests'[q] = requests[q] /\ rows'[q] = rows[q]
    BY <1>3 DEF DecisionInv, Stored
  <2>2. CompleteOf(q)' /\ ApprovedOf(q)'
    BY <2>1 DEF DecidedOf, CompleteOf, ApprovedOf, Unspoiled, HasRow, Said
  <2>3. SettlingOf(q)'
    <3> SUFFICES ASSUME marks'[q] \subseteq {"unguarded"}
                 PROVE  Pending(q)' \/ Match(q, requests[q])'
      BY DEF SettlingOf
    <3>1. CASE Match(q, requests[q])
      BY <2>1, <3>1 DEF Match, Said
    <3>2. CASE Pending(q)
      <4>1. PICK d \in Workers : pc[d] \in {"count", "save"} /\ mem[d].req = q
        BY <3>2 DEF Pending
      <4>2. pc'[d] \in {"count", "save"} /\ mem'[d].req = q
        BY <1>3, <4>1
      <4> QED  BY <4>2 DEF Pending
    <3> QED  BY <2>1, <3>1, <3>2 DEF DecidedOf, SettlingOf
  <2> QED  BY <2>2, <2>3 DEF DecidedOf
<1> QED  BY <1>1, <1>2, <1>3 DEF DecisionInv

LEMMA RequestInsertDecision ==
  ASSUME ShapeInv, DecisionInv, NEW w \in Workers, RequestInsert(w)
  PROVE  DecisionInv'
<1>0. PICK r \in RequestIds \ Stored : r = mem[w].req
  BY DEF RequestInsert, ShapeInv, QueueOf, QueuePCs
<1> DEFINE doc == [status |-> "PENDING", next |-> First(mem[w].panel),
                   panel |-> mem[w].panel, parent |-> mem[w].parent]
<1>1. /\ pc[w] = "insert"
      /\ requests' = [requests EXCEPT ![r] = doc]
      /\ Goto(w, "rows", mem[w])
      /\ UNCHANGED <<rows, keys, overtaken, marks>>
  BY <1>0 DEF RequestInsert
<1>2. mem[w] \in Mem /\ mem[w].panel # {}
  BY <1>1 DEF ShapeInv, TypeOK, QueueOf
<1>3. First(mem[w].panel) \in Users
  BY <1>2, FirstIsOne DEF Mem
<1>4. doc \in Docs /\ doc # None
  BY <1>2, <1>3, NoneIsNothing DEF Docs, Statuses, Mem
<1>5. doc.status = "PENDING" /\ doc.panel # {} /\ doc.next \in Users
  BY <1>2, <1>3
<1> HIDE DEF doc
<1>6. /\ pc'[w] = "rows" /\ mem'[w] = mem[w]
      /\ \A d \in Workers : d # w => pc'[d] = pc[d] /\ mem'[d] = mem[d]
  BY <1>1, <1>2, GotoEffect DEF Steps, ShapeInv
<1>7. /\ requests'[r] = doc
      /\ \A q \in RequestIds : q # r => requests'[q] = requests[q] /\ rows'[q] = rows[q]
  BY <1>0, <1>1 DEF ShapeInv, TypeOK
<1>8. Stored' = Stored \union {r}
  BY <1>4, <1>7 DEF Stored
<1>9. \A d \in Workers : r \notin Copied(d)
  BY <1>0 DEF ShapeInv, DecideOf
<1>10. \A d \in Felt(w) : FALSE
  BY <1>1, <1>7, <1>9 DEF Felt, Open, Copied
<1>11. FreshOf(w)' /\ CountedOf(w)'
  <2>1. Copied(w)' = Copied(w) /\ \A q \in Copied(w) : q \in RequestIds /\ q # r
    BY <1>6, <1>9 DEF Copied
  <2> QED  BY <1>1, <1>6, <1>7, <2>1 DEF DecisionInv, FreshOf, CountedOf, Open
<1>12. DecidedOf(r)'
  <2>1. HasRow(r) = {}
    BY <1>0 DEF ShapeInv, StoredOK
  <2>2. \A u \in Users : rows'[r][u] = None
    BY <1>1, <2>1 DEF HasRow
  <2>3. Said(r, "APPROVED")' = {} /\ Said(r, "REJECTED")' = {}
    BY <2>2, NoneIsNothing DEF Said, Decisions
  <2>4. Match(r, requests[r])'
    BY <1>5, <1>7, <2>2, <2>3, NoneIsNothing DEF Match, Decisions
  <2> QED
    BY <1>5, <1>7, <2>4 DEF DecidedOf, CompleteOf, ApprovedOf, SettlingOf, Decisions
<1> QED
  BY <1>0, <1>1, <1>5, <1>6, <1>7, <1>8, <1>10, <1>11, <1>12, WrittenDecision
     DEF Decisions

\* While rows are missing, a request that is closed has been counted too early.
LEMMA RowInsertDecision ==
  ASSUME ShapeInv, DecisionInv, NEW w \in Workers, RowInsert(w)
  PROVE  DecisionInv'
<1>0. PICK r \in Stored : r = mem[w].req
  BY DEF RowInsert, ShapeInv, QueueOf
<1>0a. PICK u \in Users : u = First(mem[w].panel) /\ u \in mem[w].panel
  BY FirstIsOne DEF RowInsert, ShapeInv, QueueOf, TypeOK, Mem
<1> DEFINE label == IF mem[w].panel = {u} THEN "key" ELSE "rows"
           m == [mem[w] EXCEPT !.panel = mem[w].panel \ {u}]
<1>1. /\ pc[w] = "rows" /\ Goto(w, label, m)
      /\ rows' = [rows EXCEPT ![r][u] = "PENDING"]
      /\ overtaken' = overtaken \union Felt(w)
      /\ UNCHANGED <<requests, keys, marks>>
  BY <1>0, <1>0a DEF RowInsert
<1>2. label \in {"key", "rows"} /\ label \in Steps /\ m \in Mem /\ m.copy = mem[w].copy
  BY DEF Steps, ShapeInv, TypeOK, Mem
<1> HIDE DEF label, m
<1>3. /\ pc'[w] = label /\ mem'[w] = m
      /\ \A d \in Workers : d # w => pc'[d] = pc[d] /\ mem'[d] = mem[d]
  BY <1>1, <1>2, GotoEffect DEF ShapeInv
<1>4. r \in RequestIds /\ u \notin HasRow(r) /\ u \in requests[r].panel
  BY <1>0, <1>0a, <1>1 DEF ShapeInv, QueueOf, Stored
<1>5. /\ rows'[r][u] = "PENDING"
      /\ \A v \in Users : v # u => rows'[r][v] = rows[r][v]
      /\ \A q \in RequestIds : q # r => rows'[q] = rows[q]
  BY <1>1, <1>4 DEF ShapeInv, TypeOK
<1>6. rows[r][u] = None
  BY <1>4 DEF HasRow
<1>7. /\ Said(r, "APPROVED")' = Said(r, "APPROVED")
      /\ Said(r, "REJECTED")' = Said(r, "REJECTED")
  BY <1>5, <1>6, NoneIsNothing DEF Said, Decisions
<1>8. HasRow(r) # requests[r].panel
  BY <1>4
<1>9. DecidedOf(r)'
  <2>1. DecidedOf(r)
    BY <1>0 DEF DecisionInv
  <2>2. ~ (requests[r].status \in Decisions /\ Unspoiled(r))
    BY <1>8, <2>1 DEF DecidedOf, CompleteOf
  <2>3. CompleteOf(r)' /\ ApprovedOf(r)'
    BY <1>1, <2>2 DEF CompleteOf, ApprovedOf, Unspoiled, Decisions
  <2>4. Match(r, requests[r]) => Match(r, requests[r])'
    <3>1. requests[r].status \notin Decisions => requests[r].next \in Users
      BY <1>0, <1>4 DEF ShapeInv, StoredOK, Open, Stored
    <3>2. "PENDING" \notin Decisions
      BY DEF Decisions
    <3> QED  BY <1>1, <1>5, <1>7, <3>1, <3>2 DEF Match
  <2>5. Pending(r) => Pending(r)'
    BY <1>1, <1>3 DEF Pending
  <2>6. SettlingOf(r)'
    BY <1>1, <2>1, <2>4, <2>5 DEF DecidedOf, SettlingOf
  <2> QED  BY <2>3, <2>6 DEF DecidedOf
<1>10. FreshOf(w)' /\ CountedOf(w)'
  <2>1. Copied(w)' = Copied(w)
    BY <1>2, <1>3 DEF Copied
  <2> QED  BY <1>1, <1>2, <1>3, <2>1 DEF DecisionInv, FreshOf, CountedOf, Open
<1>11. Stored' = Stored \union {r}
  BY <1>0, <1>1 DEF Stored
<1> QED
  BY <1>0, <1>1, <1>3, <1>4, <1>5, <1>8, <1>9, <1>10, <1>11, WrittenDecision

\* A decision is written: by a worker that has been overtaken, or on a request
\* that is open, and its outcome is still to be counted.
LEMMA RowDecision ==
  ASSUME ShapeInv, DecisionInv, NEW w \in Workers, NEW r \in Copied(w),
         NEW u \in HasRow(r), NEW choice \in Statuses, NEW more \in SUBSET {"bulk"},
         NEW label \in Steps, NEW m \in Mem, pc[w] \notin {"count", "save"},
         Goto(w, label, m), m.req = r, m.copy = mem[w].copy,
         label = "count" \/ "bulk" \in more, label # "save",
         rows' = [rows EXCEPT ![r][u] = choice],
         overtaken' = overtaken \union Felt(w),
         Mark(r, more \union Overtaken(w)), UNCHANGED <<requests, keys>>
  PROVE  DecisionInv'
<1>1. r \in RequestIds /\ r \in Stored /\ u \in Users
  BY CopyType DEF HasRow
<1>2. \A q \in RequestIds : HasRow(q)' = HasRow(q)
  BY <1>1, DecisionWritten
<1>3. /\ pc'[w] = label /\ mem'[w] = m
      /\ \A d \in Workers : d # w => pc'[d] = pc[d] /\ mem'[d] = mem[d]
  BY GotoEffect DEF ShapeInv
<1>4. more \union Overtaken(w) \in SUBSET Marks
  BY DEF Overtaken, Marks
<1>5. /\ \A q \in RequestIds : marks[q] \subseteq marks'[q]
      /\ marks'[r] = marks[r] \union more \union Overtaken(w)
  <2> DEFINE added == more \union Overtaken(w)
  <2>1. added \in SUBSET Marks /\ Mark(r, added)
    BY <1>4
  <2> HIDE DEF added
  <2>2. /\ \A q \in RequestIds : marks[q] \subseteq marks'[q]
        /\ marks'[r] = marks[r] \union added
    BY <1>1, <2>1, MarkEffect DEF ShapeInv
  <2> QED  BY <2>2 DEF added
<1>6. FreshOf(w)' /\ CountedOf(w)'
  <2>1. Copied(w)' = Copied(w)
    BY <1>3 DEF Copied
  <2> QED  BY <1>3, <2>1 DEF DecisionInv, FreshOf, CountedOf, Open
<1>7. DecidedOf(r)'
  <2>1. CASE w \in overtaken
    <3>1. "overtaken" \in marks'[r]
      BY <1>5, <2>1 DEF Overtaken
    <3> QED
      BY <3>1 DEF DecidedOf, CompleteOf, ApprovedOf, SettlingOf, Unspoiled
  <2>2. CASE w \notin overtaken
    <3>1. requests'[r].status \notin Decisions
      BY <2>2 DEF DecisionInv, FreshOf, Open
    <3>2. CompleteOf(r)' /\ ApprovedOf(r)'
      BY <3>1 DEF CompleteOf, ApprovedOf, Decisions
    <3>3. CASE label = "count"
      BY <1>3, <3>2, <3>3 DEF DecidedOf, SettlingOf, Pending
    <3>4. CASE "bulk" \in more
      BY <1>5, <3>2, <3>4 DEF DecidedOf, SettlingOf
    <3> QED  BY <3>3, <3>4
  <2> QED  BY <2>1, <2>2
<1>8. Stored' = Stored \union {r}
  BY <1>1 DEF Stored
<1>9. \A q \in RequestIds : q # r => requests'[q] = requests[q] /\ rows'[q] = rows[q]
  BY <1>1 DEF ShapeInv, TypeOK
<1> QED  BY <1>1, <1>2, <1>3, <1>5, <1>6, <1>7, <1>8, <1>9, WrittenDecision

LEMMA RowSaveDecision ==
  ASSUME ShapeInv, DecisionInv, NEW w \in Workers, RowSave(w)
  PROVE  DecisionInv'
<1>0. PICK r \in Copied(w) : r = mem[w].req
  BY DEF RowSave, ShapeInv, DecideOf, DecidePCs
<1>0a. PICK u \in HasRow(r) : u = mem[w].user
  BY <1>0 DEF RowSave, ShapeInv, DecideOf
<1>1. /\ pc[w] = "decide" /\ Goto(w, "count", mem[w])
      /\ rows' = [rows EXCEPT ![r][u] = mem[w].choice]
      /\ mem[w].choice \in Statuses
      /\ overtaken' = overtaken \union Felt(w)
      /\ Mark(r, {} \union Overtaken(w))
      /\ UNCHANGED <<requests, keys>>
  BY <1>0, <1>0a DEF RowSave, ShapeInv, DecideOf, DecidePCs
<1>2. "count" \in Steps /\ mem[w] \in Mem /\ {} \in SUBSET {"bulk"}
  BY DEF Steps, ShapeInv, TypeOK
<1> QED  BY <1>0, <1>1, <1>2, RowDecision

LEMMA BulkRowDecision ==
  ASSUME ShapeInv, DecisionInv, NEW w \in Workers, NEW r \in RequestIds, BulkRow(w, r)
  PROVE  DecisionInv'
<1> DEFINE m == [mem[w] EXCEPT !.req = r]
<1>0. PICK u \in HasRow(r) : u = mem[w].user
  BY DEF BulkRow, ShapeInv, DecideOf, BulkPCs, HasRow
<1>1. /\ pc[w] = "bulk" /\ r \in Copied(w) /\ Goto(w, "bulksave", m)
      /\ rows' = [rows EXCEPT ![r][u] = "APPROVED"]
      /\ overtaken' = overtaken \union Felt(w)
      /\ Mark(r, {"bulk"} \union Overtaken(w))
      /\ UNCHANGED <<requests, keys>>
  BY <1>0 DEF BulkRow
<1>2. "bulksave" \in Steps /\ m \in Mem /\ m.copy = mem[w].copy /\ m.req = r
  BY DEF Steps, ShapeInv, TypeOK, Mem
<1>3. "APPROVED" \in Statuses /\ {"bulk"} \in SUBSET {"bulk"}
  BY DEF Statuses, Decisions
<1> HIDE DEF m
<1> QED  BY <1>1, <1>2, <1>3, RowDecision

\* What is saved was counted on all the rows as they are, or leaves a mark.
LEMMA StatusSaveDecision ==
  ASSUME ShapeInv, DecisionInv, NEW w \in Workers, StatusSave(w)
  PROVE  DecisionInv'
<1>0. PICK r \in Copied(w) : r = mem[w].req
  BY DEF StatusSave, ShapeInv, DecideOf, DecidePCs
<1>0a. PICK doc \in Docs : doc = mem[w].copy[r]
  BY CopyType
<1>1. /\ pc[w] = "save"
      /\ requests' = [requests EXCEPT ![r] = doc]
      /\ UNCHANGED <<rows, keys>>
      /\ overtaken' = (overtaken \union Felt(w)) \ {w}
      /\ Mark(r, Overtaken(w))
      /\ Goto(w, "idle", NoMem)
  BY <1>0, <1>0a DEF StatusSave
<1>2. r \in RequestIds /\ r \in Stored /\ doc.panel = requests[r].panel /\ doc # None
  BY <1>0a, CopyType, NoneIsNothing
<1>3. /\ requests'[r] = doc
      /\ \A q \in RequestIds : q # r => requests'[q] = requests[q] /\ rows'[q] = rows[q]
  BY <1>1, <1>2 DEF ShapeInv, TypeOK
<1>4. /\ \A q \in RequestIds : marks[q] \subseteq marks'[q]
      /\ marks'[r] = marks[r] \union Overtaken(w)
  BY <1>1, <1>2, MarkEffect DEF ShapeInv, Overtaken, Marks
<1>5. /\ pc'[w] = "idle" /\ mem'[w] = NoMem
      /\ \A d \in Workers : d # w => pc'[d] = pc[d] /\ mem'[d] = mem[d]
  BY <1>1, NoMemType, GotoEffect DEF Steps, ShapeInv
<1>6. FreshOf(w)' /\ CountedOf(w)'
  BY <1>5, NoMemType DEF FreshOf, CountedOf, Copied
<1>7. DecidedOf(r)'
  <2>1. CASE w \in overtaken \/ "hurried" \in marks[r]
    <3>1. marks'[r] \intersect {"hurried", "overtaken"} # {}
      BY <1>4, <2>1 DEF Overtaken
    <3> QED
      BY <3>1 DEF DecidedOf, CompleteOf, ApprovedOf, SettlingOf, Unspoiled
  <2>2. CASE w \notin overtaken /\ "hurried" \notin marks[r]
    <3>1. HasRow(r) = requests[r].panel /\ Match(r, doc)
      BY <1>0, <1>0a, <1>1, <1>2, <2>2 DEF DecisionInv, CountedOf
    <3>2. HasRow(r)' = requests'[r].panel /\ Match(r, requests[r])'
      BY <1>1, <1>2, <1>3, <3>1 DEF HasRow, Match, Said
    <3> QED
      BY <3>2 DEF DecidedOf, CompleteOf, ApprovedOf, SettlingOf, Match
  <2> QED  BY <2>1, <2>2
<1>8. Stored' = Stored \union {r}
  BY <1>2, <1>3 DEF Stored
<1>9. HasRow(r)' = HasRow(r)
  BY <1>1 DEF HasRow
<1>10. \A d \in overtaken \union Felt(w) : d # w => d \in overtaken'
  BY <1>1
<1> QED
  BY <1>0, <1>1, <1>2, <1>3, <1>4, <1>5, <1>6, <1>7, <1>8, <1>9, <1>10, WrittenDecision

LEMMA BulkSaveDecision ==
  ASSUME ShapeInv, DecisionInv, NEW w \in Workers, BulkSave(w)
  PROVE  DecisionInv'
<1>0. PICK r \in Copied(w) : r = mem[w].req
  BY DEF BulkSave, ShapeInv, DecideOf
<1> DEFINE doc == With(mem[w].copy[r], "IN_PROGRESS", First(HasRow(r)))
<1>1. /\ pc[w] = "bulksave" /\ "bulk" \in marks[r] /\ mem[w].user \in HasRow(r)
      /\ requests' = [requests EXCEPT ![r] = doc]
      /\ Mark(r, Overtaken(w))
      /\ Drop(w, r)
      /\ overtaken' = overtaken \ (IF Copied(w) = {r} THEN {w} ELSE {})
      /\ UNCHANGED <<rows, keys>>
  BY <1>0 DEF BulkSave, ShapeInv, DecideOf
<1>2. r \in RequestIds /\ r \in Stored
  BY <1>0, CopyType
<1>3. /\ doc.panel = requests[r].panel /\ doc # None
      /\ doc.status = "IN_PROGRESS"
  <2>1. First(HasRow(r)) \in Users
    BY <1>1, FirstIsOne DEF HasRow
  <2>2. mem[w].copy[r] \in Docs /\ mem[w].copy[r].panel = requests[r].panel
    BY <1>0, CopyType
  <2>3. doc \in Docs /\ doc.panel = requests[r].panel /\ doc.status = "IN_PROGRESS"
    BY <2>1, <2>2 DEF With, Docs, Statuses
  <2> HIDE DEF doc
  <2> QED  BY <2>3, NoneIsNothing
<1> HIDE DEF doc
<1>4. /\ requests'[r] = doc
      /\ \A q \in RequestIds : q # r => requests'[q] = requests[q] /\ rows'[q] = rows[q]
  BY <1>1, <1>2 DEF ShapeInv, TypeOK
<1>5. \A q \in RequestIds : marks[q] \subseteq marks'[q]
  BY <1>1, <1>2, MarkEffect DEF ShapeInv, Overtaken, Marks
<1>6. /\ pc'[w] \in {"idle", "bulk"}
      /\ \A d \in Workers : d # w => pc'[d] = pc[d] /\ mem'[d] = mem[d]
      /\ Copied(w)' \subseteq Copied(w) \ {r}
  BY <1>0, <1>1, DropEffect DEF BulkPCs
<1>7. FreshOf(w)' /\ CountedOf(w)'
  <2>1. Copied(w)' \subseteq RequestIds
    BY DEF Copied
  <2>2. w \notin overtaken' => w \notin overtaken \/ Copied(w)' = {}
    BY <1>1, <1>6
  <2> QED
    BY <1>4, <1>6, <2>1, <2>2 DEF DecisionInv, FreshOf, CountedOf, Open
<1>8. requests'[r].status \notin Decisions
  BY <1>3, <1>4 DEF Decisions
<1>9. DecidedOf(r)'
  <2>1. "bulk" \in marks'[r]
    BY <1>1, <1>2, <1>5
  <2> QED
    BY <1>8, <2>1 DEF DecidedOf, CompleteOf, ApprovedOf, SettlingOf, Decisions
<1>10. \A d \in Felt(w) : FALSE
  BY <1>1, <1>4, <1>8 DEF Felt, Open, Copied
<1>11. Stored' = Stored \union {r}
  BY <1>2, <1>3, <1>4 DEF Stored
<1>12. HasRow(r)' = HasRow(r)
  BY <1>1 DEF HasRow
<1>13. \A d \in overtaken \union Felt(w) : d # w => d \in overtaken'
  BY <1>1, <1>10
<1> QED
  BY <1>1, <1>2, <1>3, <1>4, <1>5, <1>6, <1>7, <1>9, <1>11, <1>12, <1>13,
     WrittenDecision

LEMMA InitDecision == Init => DecisionInv
<1> SUFFICES ASSUME Init PROVE DecisionInv
  OBVIOUS
<1>1. Stored = {}
  BY DEF Init, Stored, NoCopies
<1>2. \A w \in Workers : FreshOf(w) /\ CountedOf(w)
  BY NoMemType DEF Init, FreshOf, CountedOf, Copied
<1> QED  BY <1>1, <1>2 DEF DecisionInv

LEMMA NextDecision == ShapeInv /\ DecisionInv /\ [Next]_gvVars => DecisionInv'
<1> SUFFICES ASSUME ShapeInv, DecisionInv, [Next]_gvVars PROVE DecisionInv'
  OBVIOUS
<1>1. ASSUME NEW w \in Workers, Queueing(w) PROVE DecisionInv'
  BY <1>1, QueueingDecision, RequestInsertDecision, RowInsertDecision DEF Queueing
<1>2. ASSUME NEW w \in Workers, Deciding(w) PROVE DecisionInv'
  BY <1>2, ReadingDecision, RowSaveDecision, CountDecision, StatusSaveDecision DEF Deciding
<1>3. ASSUME NEW w \in Workers, Approving(w) PROVE DecisionInv'
  BY <1>3, ReadingDecision, BulkRowDecision, BulkSkipDecision, BulkSaveDecision
     DEF Approving
<1>4. ASSUME NEW w \in Workers, Stop(w) PROVE DecisionInv'
  BY <1>4, StopDecision
<1>5. ASSUME NEW k \in RequestIds, Expire(k) PROVE DecisionInv'
  BY <1>5, ExpireDecision
<1>6. CASE UNCHANGED gvVars
  BY <1>6 DEF gvVars, DecisionInv, FreshOf, CountedOf, DecidedOf, CompleteOf, ApprovedOf,
              SettlingOf, Unspoiled, Pending, Match, Said, HasRow, Copied, Open, Stored
<1> QED  BY <1>1, <1>2, <1>3, <1>4, <1>5, <1>6 DEF Next

LEMMA Decided == Spec => [](ShapeInv /\ LineInv /\ DecisionInv)
<1>1. Init => ShapeInv /\ LineInv /\ DecisionInv
  BY InitShape, InitDecision
<1>2. ShapeInv /\ LineInv /\ DecisionInv /\ [Next]_gvVars
        => (ShapeInv /\ LineInv /\ DecisionInv)'
  BY NextShape, NextDecision
<1> QED  BY <1>1, <1>2, PTL DEF Spec

\* An approved request has the approval of its whole panel, unless it was
\* counted while rows were still being inserted or saved after a row had
\* changed (static_controller.py:5053).
THEOREM WholePanelApproved == Spec => []ApprovedByAll
<1>1. DecisionInv => ApprovedByAll
  BY DEF DecisionInv, DecidedOf, ApprovedOf, Unspoiled, ApprovedByAll
<1> QED  BY <1>1, Decided, PTL

\* When nobody is at work on a request its status is what its rows say and an
\* open one awaits a validator who has not decided, unless a decision was cut
\* short, taken through validate_all, counted too early or saved too late.
THEOREM RestingRequestIsSettled == Spec => []Settled
<1>1. ShapeInv /\ DecisionInv => Settled
  <2> SUFFICES ASSUME ShapeInv, DecisionInv, NEW r \in Stored, Quiet(r),
                      marks[r] \subseteq {"unguarded"}
               PROVE  Match(r, requests[r])
    BY DEF Settled, Match, Open
  <2>1. ~ Pending(r)
    BY DEF Quiet, Pending
  <2> QED  BY <2>1 DEF DecisionInv, DecidedOf, SettlingOf
<1> QED  BY <1>1, Decided, PTL

\* A worker that writes a closed request, or a row of it, leaves a mark.
LEMMA ClosedIsKept ==
  ASSUME ShapeInv, LineInv, DecisionInv, NEW w \in Workers, NEW r \in Stored,
         RequestInsert(w) \/ RowInsert(w) \/ RowSave(w) \/ StatusSave(w) \/ BulkSave(w)
           \/ \E q \in RequestIds : BulkRow(w, q),
         requests[r].status \in Decisions,
         <<requests'[r], rows'[r]>> # <<requests[r], rows[r]>>
  PROVE  marks'[r] \intersect {"hurried", "overtaken"} # {}
<1>0. r \in RequestIds /\ ~ Open(r)
  BY DEF Stored, Open
<1>1. CASE RequestInsert(w)
  <2>1. mem[w].req \notin Stored /\ mem[w].req # r
    BY <1>1 DEF RequestInsert, ShapeInv, QueueOf
  <2> QED  BY <1>0, <1>1, <2>1 DEF RequestInsert, ShapeInv, TypeOK
<1>2. CASE RowInsert(w)
  <2>1. r = mem[w].req
    BY <1>0, <1>2 DEF RowInsert, ShapeInv, TypeOK
  <2>2. HasRow(r) # requests[r].panel
    BY <1>2, <2>1 DEF RowInsert, ShapeInv, QueueOf
  <2>3. ~ Unspoiled(r)
    BY <2>2 DEF DecisionInv, DecidedOf, CompleteOf
  <2> QED  BY <1>2, <2>3 DEF RowInsert, Unspoiled
<1>3. ASSUME r \in Copied(w), NEW more \in SUBSET {"bulk"}, Mark(r, more \union Overtaken(w))
      PROVE  marks'[r] \intersect {"hurried", "overtaken"} # {}
  <2>1. w \in overtaken
    BY <1>0, <1>3 DEF DecisionInv, FreshOf
  <2> QED  BY <1>0, <1>3, <2>1 DEF Overtaken, Mark, ShapeInv, TypeOK
<1>4. CASE RowSave(w)
  <2>1. r = mem[w].req /\ mem[w].req \in Copied(w) /\ Mark(mem[w].req, {} \union Overtaken(w))
    BY <1>0, <1>4 DEF RowSave, ShapeInv, TypeOK, DecideOf, DecidePCs
  <2> QED  BY <1>3, <2>1
<1>5. CASE StatusSave(w)
  <2>1. r = mem[w].req /\ mem[w].req \in Copied(w) /\ Mark(mem[w].req, {} \union Overtaken(w))
    BY <1>0, <1>5 DEF StatusSave, ShapeInv, TypeOK, DecideOf, DecidePCs
  <2> QED  BY <1>3, <2>1
<1>6. CASE BulkSave(w)
  <2>1. r = mem[w].req /\ mem[w].req \in Copied(w) /\ Mark(mem[w].req, {} \union Overtaken(w))
    BY <1>0, <1>6 DEF BulkSave, ShapeInv, TypeOK, DecideOf
  <2> QED  BY <1>3, <2>1
<1>7. CASE \E q \in RequestIds : BulkRow(w, q)
  <2>1. PICK q \in RequestIds : BulkRow(w, q)
    BY <1>7
  <2>2. r = q /\ q \in Copied(w) /\ Mark(q, {"bulk"} \union Overtaken(w))
    BY <1>0, <2>1 DEF BulkRow, ShapeInv, TypeOK
  <2> QED  BY <1>3, <2>2
<1> QED  BY <1>1, <1>2, <1>4, <1>5, <1>6, <1>7

\* Once a request is approved or rejected it stays so and no row of it changes,
\* unless by a worker that had read it before, or because it was closed while
\* its rows were still being inserted (static_controller.py:4909).
THEOREM ClosedRequestIsFinal == Spec => ClosedIsFinal
<1> DEFINE Changed(r) == <<requests'[r], rows'[r]>> # <<requests[r], rows[r]>>
           Final == \A r \in Stored :
                      requests[r].status \in Decisions /\ Changed(r) =>
                        marks'[r] \cap {"hurried", "overtaken"} # {}
<1>1. ASSUME NEW w \in Workers,
             Queueing(w) \/ Deciding(w) \/ Approving(w) \/ Stop(w)
      PROVE  \/ UNCHANGED <<requests, rows>>
             \/ RequestInsert(w) \/ RowInsert(w) \/ RowSave(w) \/ StatusSave(w)
                \/ BulkSave(w) \/ \E q \in RequestIds : BulkRow(w, q)
  <2>1. CASE Queueing(w)
    BY <2>1 DEF Queueing, QueueStart, GuardKey, GuardSkipped, ParentLoad, KeyLoad,
                KeyMove, KeyCreate
  <2>2. CASE Deciding(w)
    BY <2>2 DEF Deciding, DecideLoad, RowFind, Count
  <2>3. CASE Approving(w)
    BY <2>3 DEF Approving, BulkLoad, BulkSkip
  <2>4. CASE Stop(w)
    BY <2>4 DEF Stop
  <2> QED  BY <1>1, <2>1, <2>2, <2>3, <2>4
<1>2. ShapeInv /\ LineInv /\ DecisionInv /\ [Next]_gvVars => [Final]_gvVars
  <2> SUFFICES ASSUME ShapeInv, LineInv, DecisionInv, Next,
                      NEW r \in Stored, requests[r].status \in Decisions, Changed(r)
               PROVE  marks'[r] \intersect {"hurried", "overtaken"} # {}
    OBVIOUS
  <2>1. PICK w \in Workers : Queueing(w) \/ Deciding(w) \/ Approving(w) \/ Stop(w)
    BY DEF Next, Expire
  <2> QED  BY <1>1, <2>1, ClosedIsKept
<1> QED  BY <1>2, Decided, PTL DEF Spec, ClosedIsFinal

(***************************************************************************)
(* Process keys.                                                           *)
(***************************************************************************)
\* A key hangs under the root of the request it was made for, for ever; its
\* current step hangs under the same root if every worker that moved it had
\* compared its parent with the step before.
KeyOf(k) ==
  /\ keys[k] # None => k \in Stored
  /\ keys[k] \in Keys =>
       /\ keys[k].root = Root(k)
       /\ keys[k].current \in Stored
       /\ "unguarded" \notin marks[k] => Root(keys[k].current) = Root(k)

\* What a worker knows of the process its sub-operation is said to belong to.
ProcessOf(w) ==
  /\ pc[w] = "guard" => mem[w].process # None
  /\ pc[w] \in QueuePCs /\ mem[w].checked => mem[w].process # None
  /\ pc[w] \in QueuePCs /\ mem[w].process # None =>
       /\ mem[w].process \in Stored
       /\ mem[w].checked =>
            /\ mem[w].parent # None
            /\ "unguarded" \notin marks[mem[w].process] =>
                 Root(mem[w].parent) = Root(mem[w].process)
  /\ pc[w] = "rekey" => mem[w].process # None /\ mem[w].root = Root(mem[w].process)

KeyInv ==
  /\ \A k \in RequestIds : KeyOf(k)
  /\ \A w \in Workers : ProcessOf(w)

\* A root is its own root; another request has the root of its parent.
LEMMA RootOfChild ==
  ASSUME LineInv, NEW r \in Stored
  PROVE  Root(r) = IF requests[r].parent = None THEN r ELSE Root(requests[r].parent)
<1> DEFINE p == requests[r].parent
           L == Line(requests, r)
           M == Line(requests, p)
<1>1. r # None /\ L[0] = r /\ L[0 + 1] = p
  <2>1. r # None
    BY NoneIsNothing DEF Stored
  <2>2. L[0] = r /\ L[0 + 1] = Above(requests, L[0])
    BY Walk, DepthAssumption
  <2> HIDE DEF L
  <2> QED  BY <2>1, <2>2 DEF Above
<1>2. CASE p = None
  <2>1. EndOf(L) = L[0]
    <3>1. 0 \in 0 .. MaxDepth + 1 /\ L[0] # None /\ L[0 + 1] = None
      BY <1>1, <1>2, DepthAssumption
    <3> QED  BY <3>1, EndIsUnique
  <2>2. EndOf(L) = r
    BY <1>1, <2>1
  <2> HIDE DEF L
  <2>3. Root(r) = EndOf(L)
    BY AncestorIsLine DEF L
  <2> QED  BY <1>2, <2>2, <2>3
<1>3. CASE p # None
  <2>1. L[MaxDepth + 2] = None
    BY AncestorIsLine DEF LineInv, LineOfStored
  <2>2. \A n \in 0 .. MaxDepth + 1 : L[n + 1] = M[n]
    BY <1>1, LineOfChild
  <2>3. M[MaxDepth + 1] = None
    <3>1. MaxDepth + 1 \in 0 .. MaxDepth + 1 /\ (MaxDepth + 1) + 1 = MaxDepth + 2
      BY DepthAssumption
    <3> HIDE DEF L, M
    <3>2. L[(MaxDepth + 1) + 1] = M[MaxDepth + 1]
      BY <2>2, <3>1
    <3> QED  BY <2>1, <3>1, <3>2
  <2>4. PICK n \in 0 .. MaxDepth + 1 : n < MaxDepth + 1 /\ M[n] # None /\ M[n + 1] = None
    <3>1. MaxDepth + 1 \in Depth
      BY DepthAssumption DEF Depth
    <3> QED  BY <1>3, <2>3, <3>1, LineEnds
  <2>5. n + 1 \in 0 .. MaxDepth + 1
    BY <2>4, DepthAssumption
  <2>6. L[n + 1] = M[n] /\ L[(n + 1) + 1] = M[n + 1]
    <3> HIDE DEF L, M
    <3> QED  BY <2>2, <2>5
  <2>7. EndOf(M) = M[n]
    BY <2>4, EndIsUnique
  <2>8. EndOf(L) = L[n + 1]
    <3>1. L[n + 1] # None /\ L[(n + 1) + 1] = None
      BY <2>4, <2>6
    <3> QED  BY <2>5, <3>1, EndIsUnique
  <2>9. Root(r) = EndOf(L) /\ Root(p) = EndOf(M)
    BY AncestorIsLine
  <2>10. EndOf(L) = EndOf(M)
    <3> HIDE DEF L, M
    <3> QED  BY <2>6, <2>7, <2>8
  <2> HIDE DEF L, M
  <2> QED  BY <1>3, <2>9, <2>10
<1> QED  BY <1>2, <1>3

\* A step that leaves the keys alone needs to be looked at in its own worker.
LEMMA KeysStay ==
  ASSUME ShapeInv, LineInv, KeyInv, NEW w \in Workers,
         \A d \in Workers : d # w => pc'[d] = pc[d] /\ mem'[d] = mem[d],
         \A r \in Stored : requests'[r].parent = requests[r].parent,
         Stored \subseteq Stored', UNCHANGED keys,
         \A q \in RequestIds : marks[q] \subseteq marks'[q],
         ProcessOf(w)'
  PROVE  KeyInv'
<1>1. \A p \in Stored : Root(p)' = Root(p)
  BY LinesStay
<1>2. ASSUME NEW k \in RequestIds PROVE KeyOf(k)'
  <2>1. KeyOf(k)
    BY DEF KeyInv
  <2>2. k \in Stored => Root(k)' = Root(k)
    BY <1>1
  <2>3. keys[k] \in Keys => Root(keys[k].current)' = Root(keys[k].current)
    BY <1>1, <2>1 DEF KeyOf
  <2>4. keys[k] \in Keys => keys[k] # None
    BY NoneIsNothing
  <2> QED  BY <2>1, <2>2, <2>3, <2>4 DEF KeyOf
<1>3. ASSUME NEW d \in Workers PROVE ProcessOf(d)'
  <2>1. CASE d = w
    BY <2>1
  <2>2. CASE d # w
    <3>1. pc'[d] = pc[d] /\ mem'[d] = mem[d] /\ ProcessOf(d) /\ LineOf(d)
      BY <2>2 DEF KeyInv, LineInv
    <3>2. mem[d].process \in Stored => /\ Root(mem[d].process)' = Root(mem[d].process)
                                       /\ mem[d].process \in RequestIds
      BY <1>1, <3>1 DEF Stored
    <3>3. pc[d] \in QueuePCs /\ mem[d].parent # None =>
            Root(mem[d].parent)' = Root(mem[d].parent)
      BY <1>1, <3>1 DEF LineOf
    <3>4. pc[d] = "rekey" => pc[d] \in QueuePCs
      BY DEF QueuePCs
    <3> QED  BY <3>1, <3>2, <3>3, <3>4 DEF ProcessOf
  <2> QED  BY <2>1, <2>2
<1> QED  BY <1>2, <1>3 DEF KeyInv

\* A worker that goes on with queueing knows what it knew.
LEMMA StillKnown ==
  ASSUME ShapeInv, LineInv, KeyInv, NEW w \in Workers,
         pc[w] \in QueuePCs, pc'[w] \notin {"guard", "rekey"},
         mem'[w].process = mem[w].process, mem'[w].parent = mem[w].parent,
         mem'[w].checked = mem[w].checked,
         \A r \in Stored : requests'[r].parent = requests[r].parent,
         Stored \subseteq Stored',
         \A q \in RequestIds : marks[q] \subseteq marks'[q]
  PROVE  ProcessOf(w)'
<1>1. \A p \in Stored : Root(p)' = Root(p)
  BY LinesStay
<1>2. ProcessOf(w) /\ LineOf(w)
  BY DEF KeyInv, LineInv
<1>3. PICK process, parent : process = mem[w].process /\ parent = mem[w].parent
  OBVIOUS
<1>4. process # None =>
        process \in Stored /\ process \in RequestIds /\ Root(process)' = Root(process)
  BY <1>1, <1>2, <1>3 DEF ProcessOf, Stored
<1>5. parent # None => Root(parent)' = Root(parent)
  BY <1>1, <1>2, <1>3 DEF LineOf
<1>6. mem'[w].process = process /\ mem'[w].parent = parent
  BY <1>3
<1> QED  BY <1>2, <1>3, <1>4, <1>5, <1>6 DEF ProcessOf

LEMMA QueueStartKeys ==
  ASSUME ShapeInv, LineInv, KeyInv, NEW w \in Workers, NEW r \in RequestIds,
         NEW panel \in SUBSET Users, NEW parent \in Stored \union {None},
         NEW process \in {k \in RequestIds : keys[k] # None} \union {None},
         QueueStart(w, r, panel, parent, process)
  PROVE  KeyInv'
<1> DEFINE label == IF parent = None THEN "insert"
                    ELSE IF process = None THEN "parent" ELSE "guard"
           m == [NoMem EXCEPT !.req = r, !.panel = panel, !.parent = parent,
                              !.process = process]
<1>1. label \in {"insert", "parent", "guard"} /\ label \in Steps
      /\ (label = "guard" => process # None)
  BY DEF Steps
<1>2. m \in Mem /\ m.process = process /\ m.checked = FALSE
  BY DEF NoMem, Mem, NoCopies, Stored
<1>3. Goto(w, label, m) /\ UNCHANGED <<requests, rows, keys, overtaken, marks>>
  BY DEF QueueStart
<1> HIDE DEF label, m
<1>4. /\ pc'[w] = label /\ mem'[w] = m
      /\ \A d \in Workers : d # w => pc'[d] = pc[d] /\ mem'[d] = mem[d]
  BY <1>1, <1>2, <1>3, GotoEffect DEF ShapeInv
<1>5. process # None => process \in Stored
  BY DEF KeyInv, KeyOf
<1>6. Stored' = Stored
  BY <1>3 DEF Stored
<1>7. ProcessOf(w)'
  BY <1>1, <1>2, <1>4, <1>5, <1>6 DEF ProcessOf
<1> QED  BY <1>3, <1>4, <1>6, <1>7, KeysStay

\* A worker that compared its parent with the key's current step is below the
\* root of the key's request, as long as nobody else moved the key unchecked.
LEMMA GuardKeyKeys ==
  ASSUME ShapeInv, LineInv, KeyInv, NEW w \in Workers, GuardKey(w)
  PROVE  KeyInv'
<1> DEFINE m == [mem[w] EXCEPT !.checked = TRUE]
<1>0. PICK process, parent : process = mem[w].process /\ parent = mem[w].parent
  OBVIOUS
<1>1. /\ pc[w] = "guard" /\ Goto(w, "parent", m)
      /\ keys[process] \in Keys /\ keys[process].current = parent
      /\ UNCHANGED <<requests, rows, keys, overtaken, marks>>
  BY <1>0 DEF GuardKey
<1>2. m \in Mem /\ m.process = process /\ m.parent = parent /\ m.checked = TRUE
      /\ "parent" \in Steps
  BY <1>0 DEF ShapeInv, TypeOK, Mem, Steps
<1> HIDE DEF m
<1>3. /\ pc'[w] = "parent" /\ mem'[w] = m
      /\ \A d \in Workers : d # w => pc'[d] = pc[d] /\ mem'[d] = mem[d]
  BY <1>1, <1>2, GotoEffect DEF ShapeInv
<1>4. Stored' = Stored /\ \A p : Root(p)' = Root(p)
  BY <1>1, AncestorIsLine, AncestorIsLineNext DEF Stored
<1>5. process # None /\ process \in Stored /\ process \in RequestIds /\ parent # None
  BY <1>0, <1>1 DEF KeyInv, ProcessOf, LineInv, LineOf, QueuePCs, Stored
<1>6. "unguarded" \notin marks[process] => Root(parent) = Root(process)
  BY <1>1, <1>5 DEF KeyInv, KeyOf
<1>7. ProcessOf(w)'
  BY <1>1, <1>2, <1>3, <1>4, <1>5, <1>6 DEF ProcessOf
<1> QED  BY <1>1, <1>3, <1>4, <1>7, KeysStay

\* The other steps of queueing that leave the keys alone.
LEMMA QueueingKeys ==
  ASSUME ShapeInv, LineInv, KeyInv, NEW w \in Workers,
         GuardSkipped(w) \/ ParentLoad(w) \/ RequestInsert(w) \/ RowInsert(w)
  PROVE  KeyInv'
<1>0. mem[w] \in Mem
  BY DEF ShapeInv, TypeOK
<1>1. pc[w] \in QueuePCs /\ UNCHANGED <<keys, marks>>
  BY DEF GuardSkipped, ParentLoad, RequestInsert, RowInsert, QueuePCs
<1>2. \E label \in {"parent", "insert", "rows", "key"} : \E m :
        /\ Goto(w, label, m)
        /\ m.process = mem[w].process /\ m.parent = mem[w].parent
        /\ m.checked = mem[w].checked
  <2>1. CASE GuardSkipped(w)
    BY <2>1 DEF GuardSkipped
  <2>2. CASE RequestInsert(w)
    BY <2>2 DEF RequestInsert
  <2>3. CASE ParentLoad(w)
    <3>1. PICK root : Goto(w, "insert", [mem[w] EXCEPT !.root = root])
      BY <2>3 DEF ParentLoad
    <3> DEFINE m == [mem[w] EXCEPT !.root = root]
    <3>2. /\ m.process = mem[w].process /\ m.parent = mem[w].parent
          /\ m.checked = mem[w].checked
      BY <1>0 DEF Mem
    <3> HIDE DEF m
    <3> QED  BY <3>1, <3>2 DEF m
  <2>4. CASE RowInsert(w)
    <3>1. PICK left : \E label \in {"rows", "key"} :
                        Goto(w, label, [mem[w] EXCEPT !.panel = left])
      BY <2>4 DEF RowInsert
    <3> DEFINE m == [mem[w] EXCEPT !.panel = left]
    <3>2. /\ m.process = mem[w].process /\ m.parent = mem[w].parent
          /\ m.checked = mem[w].checked
      BY <1>0 DEF Mem
    <3>3. \E label \in {"rows", "key"} : Goto(w, label, m)
      BY <3>1
    <3> HIDE DEF m
    <3> QED  BY <3>2, <3>3
  <2> QED  BY <2>1, <2>2, <2>3, <2>4
<1>3. /\ pc'[w] \notin {"guard", "rekey"}
      /\ mem'[w].process = mem[w].process
      /\ mem'[w].parent = mem[w].parent
      /\ mem'[w].checked = mem[w].checked
      /\ \A d \in Workers : d # w => pc'[d] = pc[d] /\ mem'[d] = mem[d]
  BY <1>2 DEF Goto, ShapeInv, TypeOK
<1>4. /\ Stored \subseteq Stored'
      /\ \A r \in Stored : requests'[r].parent = requests[r].parent
  <2>1. CASE RequestInsert(w)
    <3>1. PICK r \in RequestIds \ Stored : r = mem[w].req
      BY <2>1 DEF RequestInsert, ShapeInv, QueueOf, QueuePCs
    <3> QED  BY <2>1, <3>1 DEF RequestInsert, ShapeInv, TypeOK, Stored
  <2>2. CASE GuardSkipped(w) \/ ParentLoad(w) \/ RowInsert(w)
    BY <2>2 DEF GuardSkipped, ParentLoad, RowInsert, Stored
  <2> QED  BY <2>1, <2>2
<1>5. ProcessOf(w)'
  BY <1>1, <1>3, <1>4, StillKnown
<1> QED  BY <1>1, <1>3, <1>4, <1>5, KeysStay

LEMMA KeyLoadKeys ==
  ASSUME ShapeInv, LineInv, KeyInv, NEW w \in Workers, KeyLoad(w)
  PROVE  KeyInv'
<1>0. PICK process, parent : process = mem[w].process /\ parent = mem[w].parent
  OBVIOUS
<1>0a. PICK root \in RequestIds : keys[process] \in Keys /\ root = keys[process].root
  BY <1>0 DEF KeyLoad, Keys
<1> DEFINE m == [mem[w] EXCEPT !.root = root]
<1>1. /\ pc[w] = "key" /\ Goto(w, "rekey", m)
      /\ process # None /\ keys[process] \in Keys
      /\ UNCHANGED <<requests, rows, keys, overtaken, marks>>
  BY <1>0, <1>0a DEF KeyLoad
<1>2. m \in Mem /\ m.process = process /\ m.parent = parent
      /\ m.checked = mem[w].checked /\ m.root = keys[process].root /\ "rekey" \in Steps
  <2>1. mem[w] \in Mem
    BY DEF ShapeInv, TypeOK
  <2> QED  BY <1>0, <1>0a, <2>1 DEF Mem, Steps
<1> HIDE DEF m
<1>3. /\ pc'[w] = "rekey" /\ mem'[w] = m
      /\ \A d \in Workers : d # w => pc'[d] = pc[d] /\ mem'[d] = mem[d]
  BY <1>1, <1>2, GotoEffect DEF ShapeInv
<1>4. Stored' = Stored /\ \A p : Root(p)' = Root(p)
  BY <1>1, AncestorIsLine, AncestorIsLineNext DEF Stored
<1>5. process \in Stored /\ process \in RequestIds /\ ProcessOf(w) /\ pc[w] \in QueuePCs
  BY <1>0, <1>1 DEF KeyInv, ProcessOf, QueuePCs, Stored
<1>6. keys[process].root = Root(process)
  BY <1>1, <1>5 DEF KeyInv, KeyOf
<1>7. ProcessOf(w)'
  BY <1>0, <1>1, <1>2, <1>3, <1>4, <1>5, <1>6 DEF ProcessOf
<1> QED  BY <1>1, <1>3, <1>4, <1>7, KeysStay

\* A sub-operation moves the key to itself: it is below the same root if it was
\* compared, and marked otherwise.
LEMMA KeyMoveKeys ==
  ASSUME ShapeInv, LineInv, KeyInv, NEW w \in Workers, KeyMove(w)
  PROVE  KeyInv'
<1>0. PICK process, parent, r :
        process = mem[w].process /\ parent = mem[w].parent /\ r = mem[w].req
  OBVIOUS
<1> DEFINE m == IF mem[w].checked THEN {} ELSE {"unguarded"}
           new == [root |-> mem[w].root, current |-> r]
<1>1. /\ pc[w] = "rekey" /\ Goto(w, "idle", NoMem)
      /\ keys' = [keys EXCEPT ![process] = new]
      /\ Mark(process, m)
      /\ UNCHANGED <<requests, rows, overtaken>>
  BY <1>0 DEF KeyMove
<1>2. ProcessOf(w) /\ LineOf(w) /\ QueueOf(w) /\ pc[w] \in QueuePCs
  BY <1>1 DEF KeyInv, LineInv, ShapeInv, QueuePCs
<1>3. /\ process # None /\ process \in Stored /\ process \in RequestIds
      /\ mem[w].root = Root(process)
      /\ mem[w].checked /\ "unguarded" \notin marks[process] =>
           parent # None /\ Root(parent) = Root(process)
      /\ r \in Stored /\ requests[r].parent = parent
  BY <1>0, <1>1, <1>2 DEF ProcessOf, LineOf, QueueOf, Stored
<1>4. \A p : Root(p)' = Root(p)
  BY <1>1, AncestorIsLine, AncestorIsLineNext
<1>5. Stored' = Stored
  BY <1>1 DEF Stored
<1>6. m \in SUBSET Marks /\ (~ mem[w].checked => "unguarded" \in m)
  BY DEF Marks
<1> HIDE DEF m
<1>7. /\ \A q \in RequestIds : marks[q] \subseteq marks'[q]
      /\ marks'[process] = marks[process] \union m
  BY <1>1, <1>3, <1>6, MarkEffect DEF ShapeInv
<1>8. /\ keys'[process] = new
      /\ \A k \in RequestIds : k # process => keys'[k] = keys[k]
  BY <1>1, <1>3 DEF ShapeInv, TypeOK
<1>9. /\ pc'[w] = "idle"
      /\ \A d \in Workers : d # w => pc'[d] = pc[d] /\ mem'[d] = mem[d]
  BY <1>1, NoMemType, GotoEffect DEF Steps, ShapeInv
<1>10. ASSUME NEW k \in RequestIds PROVE KeyOf(k)'
  <2>1. CASE k = process
    <3>1. "unguarded" \notin marks'[process] => Root(r) = Root(process)
      BY <1>3, <1>6, <1>7, RootOfChild
    <3>2. new.root = Root(process) /\ new.current = r
      BY <1>3
    <3> HIDE DEF new
    <3> QED  BY <1>3, <1>4, <1>5, <1>8, <2>1, <3>1, <3>2 DEF KeyOf
  <2>2. CASE k # process
    BY <1>4, <1>5, <1>7, <1>8, <2>2 DEF KeyInv, KeyOf
  <2> QED  BY <2>1, <2>2
<1>11. ASSUME NEW d \in Workers PROVE ProcessOf(d)'
  <2>1. CASE d = w
    BY <1>9, <2>1 DEF ProcessOf, QueuePCs
  <2>2. CASE d # w
    <3>1. pc'[d] = pc[d] /\ mem'[d] = mem[d] /\ ProcessOf(d)
      BY <1>9, <2>2 DEF KeyInv
    <3>2. mem[d].process \in Stored => mem[d].process \in RequestIds
      BY DEF Stored
    <3> QED  BY <1>4, <1>5, <1>7, <3>1, <3>2 DEF ProcessOf
  <2> QED  BY <2>1, <2>2
<1> QED  BY <1>10, <1>11 DEF KeyInv

\* A key that is made anew is made for the request it names as the current one.
LEMMA KeyCreateKeys ==
  ASSUME ShapeInv, LineInv, KeyInv, NEW w \in Workers, KeyCreate(w)
  PROVE  KeyInv'
<1>0a. PICK r \in Stored : r = mem[w].req
  BY DEF KeyCreate, ShapeInv, QueueOf
<1>0b. PICK parent : parent = mem[w].parent
  OBVIOUS
<1>0. r = mem[w].req /\ parent = mem[w].parent
  BY <1>0a, <1>0b
<1> DEFINE new == [root |-> IF parent = None THEN r ELSE Root(parent), current |-> r]
<1>1. /\ pc[w] \in {"key", "rekey"} /\ Goto(w, "idle", NoMem)
      /\ keys' = [keys EXCEPT ![r] = new]
      /\ UNCHANGED <<requests, rows, overtaken, marks>>
  BY <1>0 DEF KeyCreate
<1>2. requests[r].parent = parent /\ r \in RequestIds
  BY <1>0, <1>1 DEF LineInv, LineOf, Stored
<1>3. new.root = Root(r) /\ new.current = r
  BY <1>2, RootOfChild
<1> HIDE DEF new
<1>4. \A p : Root(p)' = Root(p)
  BY <1>1, AncestorIsLine, AncestorIsLineNext
<1>5. Stored' = Stored
  BY <1>1 DEF Stored
<1>6. /\ keys'[r] = new
      /\ \A k \in RequestIds : k # r => keys'[k] = keys[k]
  BY <1>1, <1>2 DEF ShapeInv, TypeOK
<1>7. /\ pc'[w] = "idle"
      /\ \A d \in Workers : d # w => pc'[d] = pc[d] /\ mem'[d] = mem[d]
  BY <1>1, NoMemType, GotoEffect DEF Steps, ShapeInv
<1>8. ASSUME NEW k \in RequestIds PROVE KeyOf(k)'
  BY <1>1, <1>3, <1>4, <1>5, <1>6 DEF KeyInv, KeyOf
<1>9. ASSUME NEW d \in Workers PROVE ProcessOf(d)'
  <2>1. CASE d = w
    BY <1>7, <2>1 DEF ProcessOf, QueuePCs
  <2>2. CASE d # w
    BY <1>1, <1>4, <1>5, <1>7, <2>2 DEF KeyInv, ProcessOf
  <2> QED  BY <2>1, <2>2
<1> QED  BY <1>8, <1>9 DEF KeyInv

LEMMA ExpireKeys ==
  ASSUME ShapeInv, LineInv, KeyInv, NEW k \in RequestIds, Expire(k)
  PROVE  KeyInv'
<1>1. /\ \A p : Root(p)' = Root(p)
      /\ Stored' = Stored /\ pc' = pc /\ mem' = mem /\ marks' = marks
  BY AncestorIsLine, AncestorIsLineNext DEF Expire, Stored
<1>2. /\ keys'[k] = Expired /\ keys[k] # None
      /\ \A q \in RequestIds : q # k => keys'[q] = keys[q]
  BY NoneIsNothing DEF Expire, ShapeInv, TypeOK
<1>3. ASSUME NEW q \in RequestIds PROVE KeyOf(q)'
  BY <1>1, <1>2, NoneIsNothing DEF KeyInv, KeyOf
<1>4. ASSUME NEW d \in Workers PROVE ProcessOf(d)'
  BY <1>1 DEF KeyInv, ProcessOf
<1> QED  BY <1>3, <1>4 DEF KeyInv

\* A copy that is saved has the parent of the request it is a copy of.
LEMMA ParentsStay ==
  ASSUME ShapeInv, NEW w \in Workers, StatusSave(w) \/ BulkSave(w)
  PROVE  /\ Stored' = Stored
         /\ \A q \in Stored : requests'[q].parent = requests[q].parent
<1>1. PICK r \in Copied(w) : r = mem[w].req
  BY DEF StatusSave, BulkSave, ShapeInv, DecideOf, DecidePCs
<1>2. r \in RequestIds /\ r \in Stored /\ mem[w].copy[r] \in Docs
      /\ mem[w].copy[r].parent = requests[r].parent
  BY CopyType
<1>3. PICK doc : /\ requests' = [requests EXCEPT ![r] = doc]
                 /\ doc # None /\ doc.parent = requests[r].parent
  <2>1. CASE StatusSave(w)
    BY <1>1, <1>2, <2>1, NoneIsNothing DEF StatusSave
  <2>2. CASE BulkSave(w)
    <3>1. PICK first : first = First(HasRow(r))
      OBVIOUS
    <3> DEFINE doc == With(mem[w].copy[r], "IN_PROGRESS", first)
    <3>2. requests' = [requests EXCEPT ![r] = doc]
      BY <1>1, <2>2, <3>1 DEF BulkSave
    <3>3. first \in Users
      <4>1. mem[w].user \in HasRow(r)
        BY <1>1, <2>2 DEF BulkSave, ShapeInv, DecideOf
      <4>2. HasRow(r) \in SUBSET Users
        BY DEF HasRow
      <4> QED  BY <3>1, <4>1, <4>2, FirstIsOne
    <3>4. doc \in Docs /\ doc.parent = requests[r].parent
      BY <1>2, <3>3 DEF With, Docs, Statuses
    <3> HIDE DEF doc
    <3> QED  BY <3>2, <3>4, NoneIsNothing
  <2> QED  BY <2>1, <2>2
<1>4. /\ requests'[r] = doc
      /\ \A q \in RequestIds : q # r => requests'[q] = requests[q]
  BY <1>2, <1>3 DEF ShapeInv, TypeOK
<1> QED  BY <1>2, <1>3, <1>4 DEF Stored

\* Workers that decide have nothing to do with keys.
LEMMA DecidingKeys ==
  ASSUME ShapeInv, LineInv, KeyInv, NEW w \in Workers,
         Deciding(w) \/ Approving(w) \/ Stop(w)
  PROVE  KeyInv'
<1>1. /\ pc'[w] \notin QueuePCs
      /\ \A d \in Workers : d # w => pc'[d] = pc[d] /\ mem'[d] = mem[d]
      /\ UNCHANGED keys
  BY DEF Deciding, Approving, Stop, DecideLoad, RowFind, RowSave, Count, StatusSave,
         BulkLoad, BulkRow, BulkSkip, BulkSave, Drop, Goto, QueuePCs, ShapeInv, TypeOK
<1>2. \A q \in RequestIds : marks[q] \subseteq marks'[q]
  <2>1. UNCHANGED marks \/ \E r, m : Mark(r, m)
    <3>1. CASE Deciding(w)
      BY <3>1 DEF Deciding, DecideLoad, RowFind, RowSave, Count, StatusSave
    <3>2. CASE Approving(w)
      BY <3>2 DEF Approving, BulkLoad, BulkRow, BulkSkip, BulkSave
    <3>3. CASE Stop(w)
      BY <3>3 DEF Stop
    <3> QED  BY <3>1, <3>2, <3>3
  <2>2. ASSUME NEW r, NEW m, Mark(r, m)
        PROVE  \A q \in RequestIds : marks[q] \subseteq marks'[q]
    BY <2>2 DEF Mark, ShapeInv, TypeOK
  <2> QED  BY <2>1, <2>2
<1>3. /\ Stored' = Stored
      /\ \A q \in Stored : requests'[q].parent = requests[q].parent
  <2>1. CASE StatusSave(w) \/ BulkSave(w)
    BY <2>1, ParentsStay
  <2>2. CASE UNCHANGED requests
    BY <2>2 DEF Stored
  <2> QED
    BY <2>1, <2>2 DEF Deciding, Approving, Stop, DecideLoad, RowFind, RowSave, Count,
                      BulkLoad, BulkRow, BulkSkip
<1>4. ProcessOf(w)'
  BY <1>1 DEF ProcessOf, QueuePCs
<1> QED  BY <1>1, <1>2, <1>3, <1>4, KeysStay

LEMMA InitKeys == Init => KeyInv
  BY NoneIsNothing DEF Init, KeyInv, KeyOf, ProcessOf, QueuePCs

LEMMA NextKeys == ShapeInv /\ LineInv /\ KeyInv /\ [Next]_gvVars => KeyInv'
<1> SUFFICES ASSUME ShapeInv, LineInv, KeyInv, [Next]_gvVars PROVE KeyInv'
  OBVIOUS
<1>1. ASSUME NEW w \in Workers, Queueing(w) PROVE KeyInv'
  BY <1>1, QueueStartKeys, GuardKeyKeys, QueueingKeys, KeyLoadKeys, KeyMoveKeys,
     KeyCreateKeys DEF Queueing
<1>2. ASSUME NEW w \in Workers, Deciding(w) \/ Approving(w) \/ Stop(w) PROVE KeyInv'
  BY <1>2, DecidingKeys
<1>3. ASSUME NEW k \in RequestIds, Expire(k) PROVE KeyInv'
  BY <1>3, ExpireKeys
<1>4. CASE UNCHANGED gvVars
  <2>1. /\ requests' = requests /\ keys' = keys /\ pc' = pc /\ mem' = mem /\ marks' = marks
    BY <1>4 DEF gvVars
  <2>2. Stored' = Stored /\ \A p : Root(p)' = Root(p)
    BY <2>1, AncestorIsLine, AncestorIsLineNext DEF Stored
  <2> QED  BY <2>1, <2>2 DEF KeyInv, KeyOf, ProcessOf
<1> QED  BY <1>1, <1>2, <1>3, <1>4 DEF Next

\* A chain of requests stays in one organisation and within the allowed depth
\* (generic_services.py:1062), and a process key's current step hangs under the
\* key's root, unless a worker that could not check the key (line 854) moved it.
THEOREM ChainsHangUnderTheirRoot == Spec => []Lineage
<1>1. Init => ShapeInv /\ LineInv /\ KeyInv
  BY InitShape, InitKeys
<1>2. ShapeInv /\ LineInv /\ KeyInv /\ [Next]_gvVars => (ShapeInv /\ LineInv /\ KeyInv)'
  BY NextShape, NextKeys
<1>3. ShapeInv /\ LineInv /\ KeyInv => Lineage
  BY DEF LineInv, LineOfStored, KeyInv, KeyOf, Lineage
<1> QED  BY <1>1, <1>2, <1>3, PTL DEF Spec
=============================================================================
