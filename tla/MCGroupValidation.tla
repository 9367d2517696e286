-------------------------- MODULE MCGroupValidation --------------------------
(* The instance of GroupValidation that TLC checks.                          *)
EXTENDS GroupValidation, TLC

CONSTANTS r1, r2, r3, r4, o1, o2

\* All but the last request, and every user, are of one organisation.
MCOrg == [x \in RequestIds \union Users |-> IF x = r4 THEN o2 ELSE o1]

WorkerSymmetry == Permutations(Workers)

Used(r) == requests[r] # None \/ (\E w \in Workers : mem[w].req = r)

\* Request r has, or is being given, one validator.
Single(r) ==
  /\ requests[r] # None => requests[r].panel = {1}
  /\ \A w \in Workers : mem[w].req = r => mem[w].panel \subseteq {1}

\* Four requests, some of them the parents of others, that nobody decides.
Queued ==
  /\ \A w \in Workers : mem[w].user = None
  /\ \A r \in RequestIds :
       /\ Single(r)
       /\ Open(r) => requests[r].status = "PENDING"
       /\ HasRow(r) = Said(r, "PENDING") /\ marks[r] \subseteq {"unguarded"}
  /\ Used(r3) => Used(r2)

\* A decision that decides nothing: PENDING by the first validator, IN_PROGRESS by
\* the second.
PutsOff == [u \in {1, 2} |-> IF u = 1 THEN "PENDING" ELSE "IN_PROGRESS"]

\* Such a decision on r1 is being taken, or is the last thing that was done to it.
PutOff ==
  \/ \E w \in Workers : mem[w].choice \in Statuses \ Decisions
  \/ Said(r1, "IN_PROGRESS") # {}
  \/ Open(r1) /\ requests[r1].status # "PENDING" /\ HasRow(r1) = Undecided(r1)

\* Two unrelated requests.  The first is decided every way, with at most one
\* mark; the second, of one validator, through validate_all.  Their keys, which no
\* decision looks at, were not written (Redis did not answer).  A decision is put
\* off while the first has no mark and the second is not there.
Decided ==
  /\ ~ Used(r3) /\ ~ Used(r4) /\ Single(r2)
  /\ \A r \in RequestIds : keys[r] = None
  /\ requests[r2] # None => requests[r2].parent = None
  /\ \A w \in Workers :
       /\ mem[w].parent = None
       /\ mem[w].choice # None => mem[w].req = r1
       /\ mem[w].choice \in Statuses \ Decisions => mem[w].choice = PutsOff[mem[w].user]
  /\ Cardinality(marks[r1]) <= 1
  /\ PutOff => ~ Used(r2) /\ marks[r1] = {}

Bounded == (Used(r2) => Used(r1)) /\ (Queued \/ Decided)
=============================================================================
