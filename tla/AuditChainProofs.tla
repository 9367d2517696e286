-------------------------- MODULE AuditChainProofs --------------------------
(***************************************************************************)
(* The audit chain is single-fork, loses an event only to contention, and  *)
(* is the log AuditLog promises, whatever the number of emits and of       *)
(* retries, the answers of the lock service and the crashes.               *)
(***************************************************************************)
EXTENDS AuditRefinement, SequenceTheorems, TLAPS

(***************************************************************************)
(* The tail of a chain without gaps.                                       *)
(***************************************************************************)
\* The last sequence number of rows stored under D.
LEMMA LastOfChain ==
  ASSUME NEW n \in Nat \ {0}
  PROVE  Last(0..(n - 1)) = n - 1
<1> DEFINE IsLast(s) == \A t \in 0..(n - 1) : t <= s
           last == CHOOSE s \in 0..(n - 1) : IsLast(s)
<1>1. n - 1 \in 0..(n - 1) /\ IsLast(n - 1)
  OBVIOUS
<1>2. \E s \in 0..(n - 1) : IsLast(s)
  BY <1>1
<1> HIDE DEF IsLast
<1>3. last \in 0..(n - 1) /\ IsLast(last)
  BY <1>2
<1> HIDE DEF last
<1>4. last = n - 1
  BY <1>1, <1>3 DEF IsLast
<1> QED  BY <1>4 DEF last, IsLast, Last

LEMMA TailOfChain ==
  ASSUME NEW n \in Nat, DOMAIN rows = 0..(n - 1)
  PROVE  /\ NextSeq = n
         /\ n > 0 => LastSeq = n - 1
<1>1. CASE n = 0
  BY <1>1 DEF NextSeq
<1>2. CASE n > 0
  <2>1. Last(DOMAIN rows) = n - 1
    BY <1>2, LastOfChain
  <2> QED  BY <1>2, <2>1 DEF NextSeq, LastSeq
<1> QED  BY <1>1, <1>2

(***************************************************************************)
(* Types.                                                                  *)
(***************************************************************************)
Contiguous == \E n \in Nat : DOMAIN rows = 0..(n - 1)

\* An emit that still runs has a try left.
Counted ==
  \A e \in Events : pc[e] \in {"idle", "read", "insert"} => tries[e] < MaxRetries

TypeInv == TypeOK /\ Contiguous /\ Counted

LEMMA NextSeqType == TypeInv => NextSeq \in Nat /\ DOMAIN rows = 0..(NextSeq - 1)
  BY TailOfChain DEF TypeInv, Contiguous

LEMMA TailHashType == TypeInv => TailHash \in Hashes
<1> SUFFICES ASSUME TypeInv PROVE TailHash \in Hashes
  OBVIOUS
<1>1. PICK n \in Nat : DOMAIN rows = 0..(n - 1)
  BY DEF TypeInv, Contiguous
<1>2. CASE n = 0
  BY <1>1, <1>2 DEF TailHash, GENESIS_HASH, Hashes
<1>3. CASE n > 0
  <2>1. LastSeq \in DOMAIN rows
    BY <1>1, <1>3, TailOfChain
  <2>2. rows[LastSeq] \in Rows
    BY <2>1 DEF TypeInv, TypeOK
  <2> QED  BY <2>1, <2>2 DEF TailHash, Rows
<1> QED  BY <1>2, <1>3

LEMMA InitTypeInv == Init => TypeInv
<1> SUFFICES ASSUME Init PROVE TypeInv
  OBVIOUS
<1>1. DOMAIN rows = 0..(0 - 1)
  BY DEF Init
<1>2. Contiguous
  BY <1>1 DEF Contiguous
<1>3. TypeOK
  BY <1>1, MaxRetriesAssumption DEF Init, TypeOK, Drafts, GENESIS_HASH, Hashes, Running, Ended
<1>4. Counted
  BY MaxRetriesAssumption DEF Init, Counted
<1> QED  BY <1>2, <1>3, <1>4 DEF TypeInv

\* A row inserted at the tail.
LEMMA InsertAtTail ==
  ASSUME TypeInv, NEW e \in Events, EmitInsert(e), draft[e].seq <= NextSeq
  PROVE  /\ draft[e].seq = NextSeq
         /\ DOMAIN rows' = 0..NextSeq
         /\ NextSeq' = NextSeq + 1
         /\ rows'[NextSeq] = NewRow(e)
         /\ \A s \in DOMAIN rows : rows'[s] = rows[s]
<1>1. NextSeq \in Nat /\ DOMAIN rows = 0..(NextSeq - 1)
  BY NextSeqType
<1>2. draft[e].seq \in Nat
  BY DEF TypeInv, TypeOK, Drafts
<1>3. draft[e].seq = NextSeq
  BY <1>1, <1>2 DEF EmitInsert
<1>4. DOMAIN rows' = 0..NextSeq
  BY <1>1, <1>3 DEF EmitInsert
<1>5. NextSeq' = NextSeq + 1
  <2>1. Last(DOMAIN rows') = NextSeq
    BY <1>1, <1>4, LastOfChain
  <2> QED  BY <1>1, <1>4, <2>1 DEF NextSeq, LastSeq
<1>6. rows'[NextSeq] = NewRow(e) /\ \A s \in DOMAIN rows : rows'[s] = rows[s]
  BY <1>1, <1>3 DEF EmitInsert
<1> QED  BY <1>3, <1>4, <1>5, <1>6

(***************************************************************************)
(* The chain.  An emit drafts its row from a tail that is still in the     *)
(* chain, so the row it inserts is linked wherever it fits.                *)
(***************************************************************************)
PrevIn(R, s) == IF s = 0 THEN GENESIS_HASH ELSE R[s - 1].hash

LinkedIn(R, s) ==
  /\ R[s].prev = PrevIn(R, s)
  /\ R[s].hash = compute_event_hash(R[s].prev, Payload(s, R[s].event))

Drafted(e) == draft[e].seq <= NextSeq /\ draft[e].prev = PrevIn(rows, draft[e].seq)

ChainInv ==
  /\ \A s \in DOMAIN rows : LinkedIn(rows, s)
  /\ \A e \in Events : pc[e] = "insert" => Drafted(e)

LEMMA NextTypeInv == TypeInv /\ ChainInv /\ [Next]_vars => TypeInv'
<1> SUFFICES ASSUME TypeInv, ChainInv, [Next]_vars PROVE TypeInv'
  OBVIOUS
<1>1. NextSeq \in Nat /\ TailHash \in Hashes
  BY NextSeqType, TailHashType
<1> USE DEF TypeInv, TypeOK, Counted, Running, Ended
<1>2. ASSUME NEW e \in Events, NEW granted \in BOOLEAN, EmitLock(e, granted)
      PROVE  TypeInv'
  BY <1>1, <1>2 DEF EmitLock, Contiguous
<1>3. ASSUME NEW e \in Events, EmitRead(e)
      PROVE  TypeInv'
  BY <1>1, <1>3 DEF EmitRead, Contiguous, Drafts
<1>4. ASSUME NEW e \in Events, EmitInsert(e)
      PROVE  TypeInv'
  <2>1. DOMAIN rows' = 0..NextSeq /\ rows'[NextSeq] = NewRow(e)
        /\ \A s \in DOMAIN rows : rows'[s] = rows[s]
    BY <1>4, InsertAtTail DEF EmitInsert, ChainInv, Drafted
  <2>2. NewRow(e) \in Rows
    <3>1. draft[e].seq \in Nat /\ draft[e].prev \in Seq(Payloads)
      BY DEF Drafts, Hashes
    <3>2. Payload(draft[e].seq, e) \in Payloads
      BY <3>1 DEF Payload, Payloads
    <3>3. Append(draft[e].prev, Payload(draft[e].seq, e)) \in Seq(Payloads)
      BY <3>1, <3>2
    <3> QED  BY <3>1, <3>3 DEF NewRow, Rows, compute_event_hash, Hashes
  <2>3. \A s \in DOMAIN rows' : rows'[s] \in Rows
    <3>1. ASSUME NEW s \in 0..NextSeq PROVE s = NextSeq \/ s \in DOMAIN rows
      BY <1>1, NextSeqType
    <3> QED  BY <2>1, <2>2, <3>1
  <2>4. Contiguous'
    <3>1. NextSeq + 1 \in Nat /\ DOMAIN rows' = 0..((NextSeq + 1) - 1)
      BY <1>1, <2>1
    <3> QED  BY <3>1 DEF Contiguous
  <2>5. DOMAIN rows' \subseteq Nat
    BY <1>1, <2>1
  <2> QED  BY <1>4, <2>3, <2>4, <2>5 DEF EmitInsert
<1>5. ASSUME NEW e \in Events, EmitRefused(e)
      PROVE  TypeInv'
  BY <1>5, MaxRetriesAssumption DEF EmitRefused, Contiguous
<1>6. ASSUME NEW e \in Events, EmitUnlock(e)
      PROVE  TypeInv'
  BY <1>6 DEF EmitUnlock, Contiguous
<1>7. ASSUME NEW e \in Events, Crash(e)
      PROVE  TypeInv'
  BY <1>7 DEF Crash, Contiguous
<1>8. ASSUME UNCHANGED vars
      PROVE  TypeInv'
  BY <1>8 DEF vars, Contiguous
<1> QED
  BY <1>2, <1>3, <1>4, <1>5, <1>6, <1>7, <1>8 DEF Next, Emit

LEMMA NextChainInv == TypeInv /\ ChainInv /\ [Next]_vars => ChainInv'
<1> SUFFICES ASSUME TypeInv, ChainInv, [Next]_vars PROVE ChainInv'
  OBVIOUS
<1>1. NextSeq \in Nat /\ DOMAIN rows = 0..(NextSeq - 1)
  BY NextSeqType
<1>2. ASSUME UNCHANGED <<rows, draft>>, \A e \in Events : pc'[e] = "insert" => pc[e] = "insert"
      PROVE  ChainInv'
  BY <1>2 DEF ChainInv, LinkedIn, Drafted, PrevIn, NextSeq, LastSeq
<1>3. ASSUME NEW e \in Events, EmitRead(e)
      PROVE  ChainInv'
  <2>1. UNCHANGED rows /\ NextSeq' = NextSeq
    BY <1>3 DEF EmitRead, NextSeq, LastSeq
  <2>2. TailHash = PrevIn(rows, NextSeq)
    <3>1. CASE NextSeq = 0
      BY <1>1, <3>1 DEF TailHash, PrevIn
    <3>2. CASE NextSeq > 0
      BY <1>1, <3>2, TailOfChain DEF TailHash, PrevIn
    <3> QED  BY <1>1, <3>1, <3>2
  <2>3. draft'[e].seq = NextSeq /\ draft'[e].prev = PrevIn(rows, NextSeq)
    BY <1>3, <2>2 DEF EmitRead, TypeInv, TypeOK
  <2>4. Drafted(e)'
    BY <1>1, <2>1, <2>3 DEF Drafted
  <2>5. ASSUME NEW q \in Events, q # e, pc'[q] = "insert"
        PROVE  Drafted(q)'
    BY <1>3, <2>1, <2>5 DEF EmitRead, ChainInv, Drafted, TypeInv, TypeOK
  <2> QED  BY <2>1, <2>4, <2>5 DEF ChainInv
<1>4. ASSUME NEW e \in Events, EmitInsert(e)
      PROVE  ChainInv'
  <2>1. Drafted(e)
    BY <1>4 DEF EmitInsert, ChainInv
  <2>2. /\ draft[e].seq = NextSeq
        /\ DOMAIN rows' = 0..NextSeq
        /\ NextSeq' = NextSeq + 1
        /\ rows'[NextSeq] = NewRow(e)
        /\ \A s \in DOMAIN rows : rows'[s] = rows[s]
    BY <1>4, <2>1, InsertAtTail DEF Drafted
  <2>3. \A s \in 0..NextSeq : PrevIn(rows', s) = PrevIn(rows, s)
    BY <1>1, <2>2 DEF PrevIn
  <2>4. ASSUME NEW s \in DOMAIN rows PROVE LinkedIn(rows', s)
    <3>1. s \in 0..NextSeq /\ LinkedIn(rows, s)
      BY <1>1 DEF ChainInv
    <3> QED  BY <2>2, <2>3, <3>1 DEF LinkedIn
  <2>5. LinkedIn(rows', NextSeq)
    <3>1. /\ NewRow(e).prev = PrevIn(rows, NextSeq)
          /\ NewRow(e).event = e
          /\ NewRow(e).hash = compute_event_hash(NewRow(e).prev, Payload(NextSeq, e))
      BY <2>1, <2>2 DEF NewRow, Drafted
    <3>2. PrevIn(rows', NextSeq) = PrevIn(rows, NextSeq)
      BY <1>1, <2>3
    <3> QED  BY <2>2, <3>1, <3>2 DEF LinkedIn
  <2>6. \A s \in DOMAIN rows' : LinkedIn(rows', s)
    <3>1. \A s \in DOMAIN rows' : s = NextSeq \/ s \in DOMAIN rows
      BY <1>1, <2>2
    <3> QED  BY <2>4, <2>5, <3>1
  <2>7. ASSUME NEW q \in Events, pc'[q] = "insert"
        PROVE  Drafted(q)'
    <3>1. Drafted(q) /\ draft'[q] = draft[q]
      BY <1>4, <2>7 DEF EmitInsert, ChainInv, TypeInv, TypeOK
    <3>2. draft[q].seq \in 0..NextSeq
      BY <1>1, <3>1 DEF Drafted, TypeInv, TypeOK, Drafts
    <3> QED  BY <1>1, <2>2, <2>3, <3>1, <3>2 DEF Drafted
  <2> QED  BY <2>6, <2>7 DEF ChainInv
<1>5. ASSUME NEW e \in Events, NEW granted \in BOOLEAN, EmitLock(e, granted)
      PROVE  ChainInv'
  BY <1>2, <1>5 DEF EmitLock, TypeInv, TypeOK
<1>6. ASSUME NEW e \in Events, EmitRefused(e)
      PROVE  ChainInv'
  BY <1>2, <1>6 DEF EmitRefused, TypeInv, TypeOK
<1>7. ASSUME NEW e \in Events, EmitUnlock(e)
      PROVE  ChainInv'
  BY <1>2, <1>7 DEF EmitUnlock, TypeInv, TypeOK
<1>8. ASSUME NEW e \in Events, Crash(e)
      PROVE  ChainInv'
  BY <1>2, <1>8 DEF Crash, TypeInv, TypeOK
<1>9. ASSUME UNCHANGED vars
      PROVE  ChainInv'
  BY <1>2, <1>9 DEF vars
<1> QED
  BY <1>3, <1>4, <1>5, <1>6, <1>7, <1>8, <1>9 DEF Next, Emit

LEMMA InitChainInv == Init => ChainInv
  BY DEF Init, ChainInv

\* What a store holds stays a chain: types, contiguity and links together.
LEMMA ChainHolds == Spec => [](TypeInv /\ ChainInv)
<1>1. Init => TypeInv /\ ChainInv
  BY InitTypeInv, InitChainInv
<1>2. TypeInv /\ ChainInv /\ [Next]_vars => (TypeInv /\ ChainInv)'
  BY NextTypeInv, NextChainInv
<1> QED  BY <1>1, <1>2, PTL DEF Spec

\* Stored rows are rows of the model, and no emit tries more than MaxRetries times
\* (audit_chain_service.py:204).
THEOREM AuditTypeCorrect == Spec => []TypeOK
<1>1. TypeInv => TypeOK
  BY DEF TypeInv
<1> QED  BY <1>1, ChainHolds, PTL

\* "Either way the chain is single-fork" (audit_chain_service.py:28), with the lock
\* or without it: the unique index alone keeps the chain whole.
THEOREM SingleFork == Spec => []ChainIntact
<1>1. TypeInv /\ ChainInv => ChainIntact
  BY NextSeqType DEF ChainInv, LinkedIn, PrevIn, ChainIntact
<1> QED  BY <1>1, ChainHolds, PTL

\* verify_chain accepts every window of a chain that emits alone have written.
THEOREM VerifyAccepts == Spec => []NoFalseAlarm
<1>1. TypeInv /\ ChainInv => NoFalseAlarm
  <2> SUFFICES ASSUME TypeInv, ChainInv, NEW from \in DOMAIN rows, NEW to \in DOMAIN rows,
                      NEW s \in Breaks(from, to)
               PROVE  FALSE
    BY DEF NoFalseAlarm, verify_chain
  <2> DEFINE W == Window(from, to)
  <2>1. NextSeq \in Nat /\ DOMAIN rows = 0..(NextSeq - 1)
    BY NextSeqType
  <2>2. s \in DOMAIN rows /\ s \in W /\ LinkedIn(rows, s)
    BY DEF Breaks, Window, ChainInv
  <2>3. PICK t \in W : IsPredecessor(t, s, W) /\ rows[s].prev # rows[t].hash
    BY <2>2 DEF Breaks, LinkedIn
  <2>4. s - 1 \in W
    BY <2>1, <2>2, <2>3 DEF Window, IsPredecessor
  <2>5. t = s - 1
    BY <2>1, <2>2, <2>3, <2>4 DEF Window, IsPredecessor
  <2>6. s # 0
    BY <2>1, <2>4 DEF Window
  <2> QED  BY <2>2, <2>3, <2>5, <2>6 DEF LinkedIn, PrevIn
<1> QED  BY <1>1, ChainHolds, PTL

(***************************************************************************)
(* Contention.  Each refused insert means a row that was not there when    *)
(* the tail was read, so the tail moves at least as often as an emit is    *)
(* refused.                                                                *)
(***************************************************************************)
Progress(e) ==
  /\ pc[e] = "read" => since[e] + tries[e] <= NextSeq
  /\ pc[e] = "insert" => since[e] + tries[e] <= draft[e].seq
  /\ pc[e] \in {"giveup", "raised"} => since[e] + MaxRetries <= NextSeq

ContentionInv ==
  \A e \in Events : (pc[e] = "idle" => tries[e] = 0) /\ Progress(e)

LEMMA NextContentionInv ==
  TypeInv /\ ChainInv /\ ContentionInv /\ [Next]_vars => ContentionInv'
<1> SUFFICES ASSUME TypeInv, ChainInv, ContentionInv, [Next]_vars PROVE ContentionInv'
  OBVIOUS
<1>1. NextSeq \in Nat /\ DOMAIN rows = 0..(NextSeq - 1) /\ MaxRetries \in Nat
  BY NextSeqType, MaxRetriesAssumption
<1> USE DEF TypeInv, TypeOK, Drafts, ContentionInv, Progress
<1>2. ASSUME UNCHANGED rows PROVE NextSeq' = NextSeq
  BY <1>2 DEF NextSeq, LastSeq
<1>3. ASSUME NEW e \in Events, NEW granted \in BOOLEAN, EmitLock(e, granted)
      PROVE  ContentionInv'
  BY <1>1, <1>2, <1>3 DEF EmitLock
<1>4. ASSUME NEW e \in Events, EmitRead(e)
      PROVE  ContentionInv'
  BY <1>1, <1>2, <1>4 DEF EmitRead
<1>5. ASSUME NEW e \in Events, EmitInsert(e)
      PROVE  ContentionInv'
  <2>1. NextSeq' = NextSeq + 1
    BY <1>5, InsertAtTail DEF EmitInsert, ChainInv, Drafted
  <2> QED  BY <1>1, <1>5, <2>1 DEF EmitInsert
<1>6. ASSUME NEW e \in Events, EmitRefused(e)
      PROVE  ContentionInv'
  <2>1. draft[e].seq + 1 <= NextSeq
    BY <1>1, <1>6 DEF EmitRefused
  <2> QED  BY <1>1, <1>2, <1>6, <2>1 DEF EmitRefused
<1>7. ASSUME NEW e \in Events, EmitUnlock(e)
      PROVE  ContentionInv'
  BY <1>1, <1>2, <1>7 DEF EmitUnlock
<1>8. ASSUME NEW e \in Events, Crash(e)
      PROVE  ContentionInv'
  BY <1>1, <1>2, <1>8 DEF Crash, Running
<1>9. ASSUME UNCHANGED vars
      PROVE  ContentionInv'
  BY <1>2, <1>9 DEF vars
<1> QED
  BY <1>3, <1>4, <1>5, <1>6, <1>7, <1>8, <1>9 DEF Next, Emit

\* An emit raises only after MaxRetries other events entered the chain during it
\* (audit_chain_service.py:257-270): a lone emit is never lost.
THEOREM LossOnlyByContention == Spec => []LossNeedsContention
<1>1. Init => ContentionInv
  BY DEF Init, ContentionInv, Progress
<1>2. TypeInv /\ ChainInv /\ ContentionInv /\ [Next]_vars => ContentionInv'
  BY NextContentionInv
<1>3. TypeInv /\ ContentionInv => LossNeedsContention
  BY NextSeqType, MaxRetriesAssumption
  DEF ContentionInv, Progress, LossNeedsContention, TypeInv, TypeOK
<1> QED  BY <1>1, <1>2, <1>3, ChainHolds, PTL DEF Spec

(***************************************************************************)
(* An event enters the chain at most once.                                 *)
(***************************************************************************)
InChain(e) == \E s \in DOMAIN rows : rows[s].event = e

OnceInv ==
  /\ \A s, t \in DOMAIN rows : rows[s].event = rows[t].event => s = t
  /\ \A e \in Events :
       /\ pc[e] \in {"unlock", "returned"} => InChain(e)
       /\ pc[e] \in {"idle", "read", "insert", "giveup", "raised"} => ~ InChain(e)

LEMMA NextOnceInv == TypeInv /\ ChainInv /\ OnceInv /\ [Next]_vars => OnceInv'
<1> SUFFICES ASSUME TypeInv, ChainInv, OnceInv, [Next]_vars PROVE OnceInv'
  OBVIOUS
<1>1. ASSUME NEW e \in Events, EmitInsert(e)
      PROVE  OnceInv'
  <2>1. /\ DOMAIN rows' = DOMAIN rows \union {draft[e].seq}
        /\ draft[e].seq \notin DOMAIN rows
        /\ rows'[draft[e].seq].event = e
        /\ \A s \in DOMAIN rows : rows'[s] = rows[s]
    BY <1>1 DEF EmitInsert, NewRow
  <2>2. ~ InChain(e)
    BY <1>1 DEF EmitInsert, OnceInv
  <2>3. \A s, t \in DOMAIN rows' : rows'[s].event = rows'[t].event => s = t
    BY <2>1, <2>2 DEF InChain, OnceInv
  <2>4. InChain(e)' /\ \A q \in Events : q # e => (InChain(q)' <=> InChain(q))
    BY <2>1 DEF InChain
  <2>5. pc'[e] \in {"unlock", "returned"} /\ \A q \in Events : q # e => pc'[q] = pc[q]
    BY <1>1 DEF EmitInsert, TypeInv, TypeOK
  <2> QED  BY <2>3, <2>4, <2>5 DEF OnceInv
<1>2. ASSUME UNCHANGED rows,
             \A q \in Events :
               /\ pc'[q] \in {"unlock", "returned"} => pc[q] \in {"unlock", "returned"}
               /\ pc'[q] \in {"idle", "read", "insert", "giveup", "raised"} =>
                    pc[q] \in {"idle", "read", "insert", "giveup", "raised"}
      PROVE  OnceInv'
  BY <1>2 DEF OnceInv, InChain
<1> USE DEF TypeInv, TypeOK
<1>3. ASSUME NEW e \in Events, NEW granted \in BOOLEAN, EmitLock(e, granted)
      PROVE  OnceInv'
  BY <1>2, <1>3 DEF EmitLock
<1>4. ASSUME NEW e \in Events, EmitRead(e)
      PROVE  OnceInv'
  BY <1>2, <1>4 DEF EmitRead
<1>5. ASSUME NEW e \in Events, EmitRefused(e)
      PROVE  OnceInv'
  BY <1>2, <1>5, MaxRetriesAssumption DEF EmitRefused
<1>6. ASSUME NEW e \in Events, EmitUnlock(e)
      PROVE  OnceInv'
  BY <1>2, <1>6 DEF EmitUnlock
<1>7. ASSUME NEW e \in Events, Crash(e)
      PROVE  OnceInv'
  BY <1>2, <1>7 DEF Crash
<1>8. ASSUME UNCHANGED vars
      PROVE  OnceInv'
  BY <1>2, <1>8 DEF vars
<1> QED
  BY <1>1, <1>3, <1>4, <1>5, <1>6, <1>7, <1>8 DEF Next, Emit

\* An emit that answers is in the chain exactly once, one that raises is not
\* (audit_chain_service.py:248-270), though an insert is retried.
THEOREM EventsRecordedOnce == Spec => []RecordedOnce
<1>1. Init => OnceInv
  BY DEF Init, OnceInv, InChain
<1>2. TypeInv /\ ChainInv /\ OnceInv /\ [Next]_vars => OnceInv'
  BY NextOnceInv
<1>3. OnceInv => RecordedOnce
  BY DEF OnceInv, InChain, RecordedOnce
<1> QED  BY <1>1, <1>2, <1>3, ChainHolds, PTL DEF Spec

(***************************************************************************)
(* The refinement of AuditLog.                                             *)
(***************************************************************************)
Calls == [e \in Events |-> CallOf(e)]

\* The log has an event where the chain has its row.
LEMMA LogIsTheChain ==
  ASSUME TypeInv
  PROVE  /\ LogOf \in Seq(Events) /\ Len(LogOf) = NextSeq
         /\ \A i \in 1..NextSeq : LogOf[i] = rows[i - 1].event
         /\ \A e \in Events : Log!Contains(LogOf, e) <=> InChain(e)
<1>1. NextSeq \in Nat /\ DOMAIN rows = 0..(NextSeq - 1)
  BY NextSeqType
<1>2. \A i \in 1..NextSeq : i - 1 \in DOMAIN rows /\ rows[i - 1].event \in Events
  BY <1>1 DEF TypeInv, TypeOK, Rows
<1>3. LogOf \in [1..NextSeq -> Events]
  BY <1>2 DEF LogOf
<1>4. LogOf \in Seq(Events) /\ Len(LogOf) = NextSeq
  BY <1>1, <1>3
<1>5. \A i \in 1..NextSeq : LogOf[i] = rows[i - 1].event
  BY DEF LogOf
<1>6. ASSUME NEW e \in Events
      PROVE  Log!Contains(LogOf, e) <=> InChain(e)
  <2>1. ASSUME NEW s \in DOMAIN rows
        PROVE  s + 1 \in 1..NextSeq /\ LogOf[s + 1] = rows[s].event
    BY <1>1, <1>5
  <2> QED  BY <1>1, <1>2, <1>4, <1>5, <2>1 DEF Log!Contains, InChain
<1> QED  BY <1>4, <1>5, <1>6

\* A row at the tail appends its event.
LEMMA InsertAppends ==
  ASSUME TypeInv, ChainInv, NEW e \in Events, EmitInsert(e)
  PROVE  LogOf' = Append(LogOf, e)
<1>1. /\ DOMAIN rows' = 0..NextSeq /\ NextSeq' = NextSeq + 1
      /\ rows'[NextSeq] = NewRow(e)
      /\ \A s \in DOMAIN rows : rows'[s] = rows[s]
  BY InsertAtTail DEF EmitInsert, ChainInv, Drafted
<1>2. NextSeq \in Nat /\ DOMAIN rows = 0..(NextSeq - 1)
  BY NextSeqType
<1>3. /\ LogOf \in Seq(Events) /\ Len(LogOf) = NextSeq
      /\ \A i \in 1..NextSeq : LogOf[i] = rows[i - 1].event
  BY LogIsTheChain
<1>4. NewRow(e).event = e
  BY DEF NewRow
<1>5. LogOf' = [i \in 1..(NextSeq + 1) |-> rows'[i - 1].event]
  BY <1>1 DEF LogOf
<1>6. \A i \in 1..(NextSeq + 1) :
        LogOf'[i] = IF i = NextSeq + 1 THEN e ELSE LogOf[i]
  BY <1>1, <1>2, <1>3, <1>4, <1>5
<1>7. \A i \in 1..(NextSeq + 1) : LogOf'[i] \in Events
  <2>1. \A i \in 1..NextSeq : LogOf[i] \in Events
    BY <1>2, <1>3
  <2> QED  BY <1>2, <1>6, <2>1
<1>8. LogOf' \in Seq(Events) /\ Len(LogOf') = NextSeq + 1
  <2>1. LogOf' \in [1..(NextSeq + 1) -> Events]
    BY <1>5, <1>7
  <2> QED  BY <1>2, <2>1
<1>9. /\ Append(LogOf, e) \in Seq(Events) /\ Len(Append(LogOf, e)) = NextSeq + 1
      /\ \A i \in 1..NextSeq : Append(LogOf, e)[i] = LogOf[i]
      /\ Append(LogOf, e)[NextSeq + 1] = e
  BY <1>3, AppendProperties
<1>10. \A i \in 1..(NextSeq + 1) : LogOf'[i] = Append(LogOf, e)[i]
  BY <1>2, <1>6, <1>9
<1> QED  BY <1>8, <1>9, <1>10, SeqEqual

\* A step of one emit moves its own call only.
LEMMA CallMoves ==
  ASSUME TypeInv, NEW e \in Events, \A q \in Events : q # e => pc'[q] = pc[q]
  PROVE  Calls' = [Calls EXCEPT ![e] = CallOf(e)']
<1>1. \A q \in Events : q # e => CallOf(q)' = CallOf(q)
  BY DEF CallOf
<1>2. Calls' = [q \in Events |-> CallOf(q)']
  BY DEF Calls
<1> QED  BY <1>1, <1>2 DEF Calls

\* A step that neither stores a row nor answers is none of the log's.
LEMMA LogStutters ==
  ASSUME TypeInv, UNCHANGED rows, \A q \in Events : CallOf(q)' = CallOf(q)
  PROVE  UNCHANGED Log!lvars
<1>1. LogOf' = LogOf
  BY DEF LogOf, NextSeq, LastSeq
<1>2. [q \in Events |-> CallOf(q)]' = [q \in Events |-> CallOf(q)]
  OBVIOUS
<1> QED  BY <1>1, <1>2 DEF Log!lvars

\* An emit that answers without storing a row says whether its event is stored.
LEMMA AnswerSaysIt ==
  ASSUME TypeInv, OnceInv, NEW e \in Events, UNCHANGED rows,
         CallOf(e) = "pending",
         \A q \in Events : q # e => pc'[q] = pc[q],
         \/ pc'[e] = "returned" /\ InChain(e)
         \/ pc'[e] = "raised" /\ ~ InChain(e)
  PROVE  Log!LNext
<1>1. LogOf' = LogOf
  BY DEF LogOf, NextSeq, LastSeq
<1>2. Calls' = [Calls EXCEPT ![e] = CallOf(e)'] /\ Calls[e] = "pending"
  BY CallMoves DEF Calls
<1>3. CallOf(e)' = IF Log!Contains(LogOf, e) THEN "returned" ELSE "raised"
  BY LogIsTheChain DEF CallOf
<1>4. Log!Answer(e)
  BY <1>1, <1>2, <1>3 DEF Log!Answer, Calls
<1> QED  BY <1>4 DEF Log!LNext

LEMMA StepIsLogged ==
  ASSUME TypeInv, ChainInv, OnceInv, [Next]_vars
  PROVE  Log!LNext \/ UNCHANGED Log!lvars
<1> USE DEF TypeInv, TypeOK
<1>1. ASSUME NEW e \in Events, NEW granted \in BOOLEAN, EmitLock(e, granted)
      PROVE  Log!LNext
  <2>1. LogOf' = LogOf
    BY <1>1 DEF EmitLock, LogOf, NextSeq, LastSeq
  <2>2. Calls' = [Calls EXCEPT ![e] = CallOf(e)']
    BY <1>1, CallMoves DEF EmitLock
  <2>3. Calls[e] = "idle" /\ CallOf(e)' = "pending"
    BY <1>1 DEF EmitLock, Calls, CallOf
  <2>4. Log!Begin(e)
    BY <2>1, <2>2, <2>3 DEF Log!Begin, Calls
  <2> QED  BY <2>4 DEF Log!LNext
<1>2. ASSUME NEW e \in Events, EmitInsert(e)
      PROVE  Log!LNext
  <2>1. LogOf' = Append(LogOf, e)
    BY <1>2, InsertAppends
  <2>2. ~ Log!Contains(LogOf, e)
    BY <1>2, LogIsTheChain DEF EmitInsert, OnceInv
  <2>3. Calls' = [Calls EXCEPT ![e] = CallOf(e)']
    BY <1>2, CallMoves DEF EmitInsert
  <2>4. Calls[e] = "pending" /\ CallOf(e)' \in {"pending", "returned"}
    BY <1>2 DEF EmitInsert, Calls, CallOf
  <2>5. Calls' \in {Calls, [Calls EXCEPT ![e] = "returned"]}
    BY <2>3, <2>4 DEF Calls
  <2>6. Log!Record(e)
    BY <2>1, <2>2, <2>4, <2>5 DEF Log!Record, Calls
  <2> QED  BY <2>6 DEF Log!LNext
<1>3. ASSUME NEW e \in Events, EmitRefused(e)
      PROVE  Log!LNext \/ UNCHANGED Log!lvars
  <2>1. /\ UNCHANGED rows /\ pc[e] = "insert" /\ ~ InChain(e)
        /\ \A q \in Events : q # e => pc'[q] = pc[q]
        /\ pc'[e] \in {"read", "giveup", "raised"}
    BY <1>3, MaxRetriesAssumption DEF EmitRefused, OnceInv
  <2>2. CallOf(e) = "pending"
    BY <2>1 DEF CallOf
  <2>3. CASE pc'[e] = "raised"
    BY <2>1, <2>2, <2>3, AnswerSaysIt
  <2>4. CASE pc'[e] \in {"read", "giveup"}
    <3>1. \A q \in Events : CallOf(q)' = CallOf(q)
      BY <2>1, <2>2, <2>4 DEF CallOf
    <3> QED  BY <2>1, <3>1, LogStutters
  <2> QED  BY <2>1, <2>3, <2>4
<1>4. ASSUME NEW e \in Events, EmitUnlock(e)
      PROVE  Log!LNext
  <2>1. /\ UNCHANGED rows /\ pc[e] \in {"unlock", "giveup"}
        /\ \A q \in Events : q # e => pc'[q] = pc[q]
        /\ pc'[e] = IF pc[e] = "unlock" THEN "returned" ELSE "raised"
    BY <1>4 DEF EmitUnlock
  <2>2. CallOf(e) = "pending" /\ (pc[e] = "unlock" <=> InChain(e))
    BY <2>1 DEF CallOf, OnceInv
  <2> QED  BY <2>1, <2>2, AnswerSaysIt
<1>5. ASSUME NEW e \in Events, EmitRead(e) \/ Crash(e)
      PROVE  UNCHANGED Log!lvars
  <2>1. /\ UNCHANGED rows
        /\ pc[e] \in Running /\ pc'[e] \in {"insert", "crashed"}
        /\ \A q \in Events : q # e => pc'[q] = pc[q]
    BY <1>5 DEF EmitRead, Crash, Running
  <2>2. \A q \in Events : CallOf(q)' = CallOf(q)
    BY <2>1 DEF CallOf, Running
  <2> QED  BY <2>1, <2>2, LogStutters
<1>6. CASE UNCHANGED vars
  <2>1. \A q \in Events : CallOf(q)' = CallOf(q)
    BY <1>6 DEF vars, CallOf
  <2> QED  BY <1>6, <2>1, LogStutters DEF vars
<1> QED  BY <1>1, <1>2, <1>3, <1>4, <1>5, <1>6 DEF Next, Emit

\* Whatever the lock service answers and whoever dies, the chain behaves as a log
\* in which every emit takes effect at one instant of its call, or never
\* (audit_chain_service.py:196-270).
THEOREM ChainIsALog == Spec => IsALog
<1>1. Init => OnceInv /\ Log!LInit
  <2> SUFFICES ASSUME Init PROVE OnceInv /\ Log!LInit
    OBVIOUS
  <2>1. OnceInv
    BY DEF Init, OnceInv, InChain
  <2>2. LogOf = <<>>
    <3>1. NextSeq = 0
      BY DEF Init, NextSeq
    <3> QED  BY <3>1 DEF LogOf
  <2>3. [e \in Events |-> CallOf(e)] = [e \in Events |-> "idle"]
    BY DEF Init, CallOf
  <2> QED  BY <2>1, <2>2, <2>3 DEF Log!LInit
<1>2. TypeInv /\ ChainInv /\ OnceInv /\ [Next]_vars => OnceInv'
  BY NextOnceInv
<1>3. TypeInv /\ ChainInv /\ OnceInv /\ [Next]_vars => [Log!LNext]_(Log!lvars)
  BY StepIsLogged
<1>4. Spec => Log!LInit /\ [][Log!LNext]_(Log!lvars)
  BY <1>1, <1>2, <1>3, ChainHolds, PTL DEF Spec
<1> QED  BY <1>4 DEF IsALog, Log!LSpec

(***************************************************************************)
(* Every emit comes to its end: a variant.  What is left to the fairness   *)
(* of the event loop is that a running emit takes its next step.           *)
(***************************************************************************)
\* The most steps an emit may still take.
Rank(e) ==
  CASE pc[e] = "idle" -> 2 * MaxRetries + 2
    [] pc[e] = "read" -> 2 * (MaxRetries - tries[e]) + 1
    [] pc[e] = "insert" -> 2 * (MaxRetries - tries[e])
    [] pc[e] \in {"unlock", "giveup"} -> 1
    [] OTHER -> 0

\* Every step is a step of one emit, which it brings nearer its end, and costs
\* the others nothing.
StepRunsDown ==
  \E e \in Events :
    /\ Rank(e)' < Rank(e)
    /\ \A q \in Events : q # e => Rank(q)' = Rank(q)

LEMMA RankBounds ==
  ASSUME TypeInv, NEW e \in Events
  PROVE  Rank(e) \in 0..(2 * MaxRetries + 2)
<1>1. MaxRetries \in Nat \ {0} /\ tries[e] \in 0..MaxRetries
  BY MaxRetriesAssumption DEF TypeInv, TypeOK
<1>2. pc[e] \in {"idle", "read", "insert"} => tries[e] < MaxRetries
  BY DEF TypeInv, Counted
<1> QED  BY <1>1, <1>2 DEF Rank

LEMMA NextRunsDown ==
  ASSUME TypeInv, ContentionInv, Next
  PROVE  StepRunsDown
<1>1. PICK e \in Events : Emit(e) \/ Crash(e)
  BY DEF Next
<1> USE MaxRetriesAssumption DEF TypeInv, TypeOK
<1>2. \A q \in Events : q # e => pc'[q] = pc[q] /\ tries'[q] = tries[q]
  BY <1>1 DEF Emit, EmitLock, EmitRead, EmitInsert, EmitRefused, EmitUnlock, Crash
<1>3. \A q \in Events : q # e => Rank(q)' = Rank(q)
  BY <1>2 DEF Rank
<1>4. Rank(e)' < Rank(e)
  <2>1. CASE \E granted \in BOOLEAN : EmitLock(e, granted)
    BY <2>1 DEF EmitLock, Rank, ContentionInv
  <2>2. CASE EmitRead(e)
    BY <2>2 DEF EmitRead, Rank
  <2>3. CASE EmitInsert(e)
    BY <2>3 DEF EmitInsert, Rank, Counted
  <2>4. CASE EmitRefused(e)
    BY <2>4 DEF EmitRefused, Rank, Counted
  <2>5. CASE EmitUnlock(e)
    BY <2>5 DEF EmitUnlock, Rank
  <2>6. CASE Crash(e)
    BY <2>6 DEF Crash, Rank, Counted, Running
  <2> QED  BY <1>1, <2>1, <2>2, <2>3, <2>4, <2>5, <2>6 DEF Emit
<1> QED  BY <1>3, <1>4 DEF StepRunsDown

\* The retries are counted (audit_chain_service.py:204) and nobody waits for the
\* lock: an emit takes at most 2 * MaxRetries + 2 steps, whatever the others do.
THEOREM EmitsRunDown ==
  Spec => /\ [](\A e \in Events : Rank(e) \in 0..(2 * MaxRetries + 2))
          /\ [][StepRunsDown]_vars
<1>1. Init => ContentionInv
  BY DEF Init, ContentionInv, Progress
<1>2. TypeInv /\ ChainInv /\ ContentionInv /\ [Next]_vars => ContentionInv'
  BY NextContentionInv
<1>3. TypeInv /\ ContentionInv /\ [Next]_vars => [StepRunsDown]_vars
  BY NextRunsDown
<1>4. TypeInv => \A e \in Events : Rank(e) \in 0..(2 * MaxRetries + 2)
  BY RankBounds
<1> QED  BY <1>1, <1>2, <1>3, <1>4, ChainHolds, PTL DEF Spec
=============================================================================
