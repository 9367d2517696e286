----------------------------- MODULE AuditChain -----------------------------
(***************************************************************************)
(* The audit chain of one organisation: AuditChainService.emit, called by  *)
(* several workers at once, and verify_chain.                              *)
(*                                                                         *)
(* A hash is idealised as injective: the hash of a row is the sequence of  *)
(* payloads it covers, the GENESIS hash the empty one.  The lock around    *)
(* the critical section is best effort: acquire_lock answers at once, yes  *)
(* or no, and the emit goes on in both cases; what serialises the rows is  *)
(* the unique index on the sequence number.                                *)
(***************************************************************************)
EXTENDS Integers, Sequences

CONSTANTS
  Events,      \* the emits of a behaviour, each by its own task
  MaxRetries,  \* max_retries
  Crashes      \* workers may die between two awaits

ASSUME MaxRetriesAssumption == MaxRetries \in Nat \ {0}
ASSUME CrashesAssumption == Crashes \in BOOLEAN

VARIABLES
  rows,     \* the stored rows, by sequence number
  pc,       \* where each emit waits
  draft,    \* what it read: the next sequence number and the tail's hash
  tries,    \* how many of its inserts were refused
  holders,  \* the emits whose acquire_lock answered yes
  since     \* (history) the next sequence number when it began

vars == <<rows, pc, draft, tries, holders, since>>

Payload(seq, e) == [seq |-> seq, event |-> e]
Payloads == [seq: Nat, event: Events]
Hashes == Seq(Payloads)
GENESIS_HASH == <<>>

hash_of_event_only(prev, payload) == Append(prev, payload.event)   \* variant

compute_event_hash(prev, payload) == Append(prev, payload)

Rows == [event: Events, prev: Hashes, hash: Hashes]
Drafts == [seq: Nat, prev: Hashes]

Running == {"read", "insert", "unlock", "giveup"}
Ended == {"returned", "raised", "crashed"}

TypeOK ==
  /\ DOMAIN rows \subseteq Nat
  /\ \A s \in DOMAIN rows : rows[s] \in Rows
  /\ pc \in [Events -> Running \union Ended \union {"idle"}]
  /\ draft \in [Events -> Drafts]
  /\ tries \in [Events -> 0..MaxRetries]
  /\ holders \subseteq Events
  /\ since \in [Events -> Nat]

Init ==
  /\ rows = [s \in {} |-> {}]
  /\ pc = [e \in Events |-> "idle"]
  /\ draft = [e \in Events |-> [seq |-> 0, prev |-> GENESIS_HASH]]
  /\ tries = [e \in Events |-> 0]
  /\ holders = {}
  /\ since = [e \in Events |-> 0]

(***************************************************************************)
(* The tail.                                                               *)
(***************************************************************************)
Last(D) == CHOOSE s \in D : \A t \in D : t <= s

LastSeq == Last(DOMAIN rows)

NextSeq == IF DOMAIN rows = {} THEN 0 ELSE LastSeq + 1

TailHash == IF DOMAIN rows = {} THEN GENESIS_HASH ELSE rows[LastSeq].hash

(***************************************************************************)
(* emit.                                                                   *)
(***************************************************************************)
\* The lock is granted, or refused for whatever reason; no emit waits for it.
EmitLock(e, granted) ==
  /\ pc[e] = "idle"
  /\ holders' = IF granted THEN holders \union {e} ELSE holders
  /\ since' = [since EXCEPT ![e] = NextSeq]
  /\ pc' = [pc EXCEPT ![e] = "read"]
  /\ UNCHANGED <<rows, draft, tries>>

EmitReadStale(e) ==   \* variant: a retry keeps the first tail's hash
  /\ pc[e] = "read"
  /\ draft' = [draft EXCEPT ![e] =
                 [seq |-> NextSeq, prev |-> IF tries[e] = 0 THEN TailHash ELSE @.prev]]
  /\ pc' = [pc EXCEPT ![e] = "insert"]
  /\ UNCHANGED <<rows, tries, holders, since>>

EmitRead(e) ==
  /\ pc[e] = "read"
  /\ draft' = [draft EXCEPT ![e] = [seq |-> NextSeq, prev |-> TailHash]]
  /\ pc' = [pc EXCEPT ![e] = "insert"]
  /\ UNCHANGED <<rows, tries, holders, since>>

NewRow(e) ==
  [event |-> e, prev |-> draft[e].prev,
   hash |-> compute_event_hash(draft[e].prev, Payload(draft[e].seq, e))]

EmitOverwrite(e) ==   \* variant: no unique index on the sequence number
  /\ pc[e] = "insert"
  /\ rows' = [s \in DOMAIN rows \union {draft[e].seq} |->
                IF s = draft[e].seq THEN NewRow(e) ELSE rows[s]]
  /\ pc' = [pc EXCEPT ![e] = IF e \in holders THEN "unlock" ELSE "returned"]
  /\ UNCHANGED <<draft, tries, holders, since>>

EmitInsert(e) ==
  /\ pc[e] = "insert"
  /\ draft[e].seq \notin DOMAIN rows
  /\ rows' = [s \in DOMAIN rows \union {draft[e].seq} |->
                IF s = draft[e].seq THEN NewRow(e) ELSE rows[s]]
  /\ pc' = [pc EXCEPT ![e] = IF e \in holders THEN "unlock" ELSE "returned"]
  /\ UNCHANGED <<draft, tries, holders, since>>

EmitRefusedSilently(e) ==   \* variant: the last refusal is not raised
  /\ pc[e] = "insert"
  /\ draft[e].seq \in DOMAIN rows
  /\ tries' = [tries EXCEPT ![e] = @ + 1]
  /\ pc' = [pc EXCEPT ![e] = IF tries[e] + 1 < MaxRetries THEN "read" ELSE "returned"]
  /\ UNCHANGED <<rows, draft, holders, since>>

EmitRefusedSameSeq(e) ==   \* variant: the retry does not read the tail again
  /\ pc[e] = "insert"
  /\ draft[e].seq \in DOMAIN rows
  /\ tries' = [tries EXCEPT ![e] = @ + 1]
  /\ pc' = [pc EXCEPT ![e] = IF tries[e] + 1 < MaxRetries THEN @ ELSE "raised"]
  /\ UNCHANGED <<rows, draft, holders, since>>

EmitRefusedForever(e) ==   \* variant: the same insert again, uncounted
  /\ pc[e] = "insert"
  /\ draft[e].seq \in DOMAIN rows
  /\ UNCHANGED vars

\* DuplicateKeyError: again from the new tail, MaxRetries times in all.
EmitRefused(e) ==
  /\ pc[e] = "insert"
  /\ draft[e].seq \in DOMAIN rows
  /\ tries' = [tries EXCEPT ![e] = @ + 1]
  /\ pc' = [pc EXCEPT ![e] = CASE tries[e] + 1 < MaxRetries -> "read"
                               [] tries[e] + 1 >= MaxRetries ->
                                    IF e \in holders THEN "giveup" ELSE "raised"]
  /\ UNCHANGED <<rows, draft, holders, since>>

EmitUnlock(e) ==
  /\ pc[e] \in {"unlock", "giveup"}
  /\ pc' = [pc EXCEPT ![e] = IF @ = "unlock" THEN "returned" ELSE "raised"]
  /\ UNCHANGED <<rows, draft, tries, holders, since>>

Crash(e) ==
  /\ Crashes
  /\ pc[e] \in Running
  /\ pc' = [pc EXCEPT ![e] = "crashed"]
  /\ UNCHANGED <<rows, draft, tries, holders, since>>

Emit(e) ==
  \/ \E granted \in BOOLEAN : EmitLock(e, granted)
  \/ EmitRead(e)
  \/ EmitInsert(e)
  \/ EmitRefused(e)
  \/ EmitUnlock(e)

Next == \E e \in Events : Emit(e) \/ Crash(e)

Spec == Init /\ [][Next]_vars

\* A task the event loop runs is resumed when its database call answers.
FairSpec == Spec /\ \A e \in Events : WF_vars(Emit(e))

(***************************************************************************)
(* verify_chain, on the rows of a window in sequence order.  The walk      *)
(* compares each row with the one before it, so it stops at the first of:  *)
(***************************************************************************)
Window(from, to) == {s \in DOMAIN rows : from <= s /\ s <= to}

IsPredecessor(t, s, W) == t < s /\ \A u \in W : u < s => u <= t

Breaks(from, to) ==
  {s \in Window(from, to) :
     \/ \E t \in Window(from, to) :
          IsPredecessor(t, s, Window(from, to)) /\ rows[s].prev # rows[t].hash
     \/ compute_event_hash(rows[s].prev, Payload(s, rows[s].event)) # rows[s].hash}

verify_chain(from, to) ==
  [is_valid |-> Breaks(from, to) = {},
   first_break |-> {s \in Breaks(from, to) : \A t \in Breaks(from, to) : s <= t}]

(***************************************************************************)
(* Properties.                                                             *)
(***************************************************************************)
\* "Either way the chain is single-fork" (audit_chain_service.py:28): without a
\* gap from 0 on, each row carrying the hash of the row before it, the first
\* GENESIS, and its own hash over that and its payload.
ChainIntact ==
  /\ DOMAIN rows = 0..(NextSeq - 1)
  /\ \A s \in DOMAIN rows :
       /\ rows[s].prev = IF s = 0 THEN GENESIS_HASH ELSE rows[s - 1].hash
       /\ rows[s].hash = compute_event_hash(rows[s].prev, Payload(s, rows[s].event))

\* verify_chain never cries wolf: whatever window it walks while emits run, it
\* finds no break (audit_chain_service.py:300-324).
NoFalseAlarm ==
  \A from, to \in DOMAIN rows : verify_chain(from, to).is_valid

\* An emit that answers is in the chain once, one that raises is not
\* (audit_chain_service.py:248-270); no event is ever in it twice.
RecordedOnce ==
  /\ \A s, t \in DOMAIN rows : rows[s].event = rows[t].event => s = t
  /\ \A e \in Events :
       /\ pc[e] \in {"unlock", "returned"} => \E s \in DOMAIN rows : rows[s].event = e
       /\ pc[e] \in {"giveup", "raised"} => \A s \in DOMAIN rows : rows[s].event # e

\* An event is given up (audit_chain_service.py:268) only when MaxRetries other
\* events entered the chain while it was being emitted: never for a lone emit.
LossNeedsContention ==
  \A e \in Events : pc[e] \in {"giveup", "raised"} => NextSeq >= since[e] + MaxRetries

\* Every emit ends, in success or failure: no emit waits for the lock, and the
\* retries are counted (audit_chain_service.py:204).
EmitEnds == \A e \in Events : pc[e] = "read" ~> pc[e] \in Ended

(***************************************************************************)
(* What the comments say, and the code does not do (see the README).       *)
(***************************************************************************)
\* "Audit failures must NOT block the FSM. Detected by /verify/audit_chain."
\* (vote_service.py:231): an emit that failed leaves a break in the chain.
FailureDetected ==
  \A e \in Events : pc[e] = "raised" =>
    \E from, to \in DOMAIN rows : ~ verify_chain(from, to).is_valid
=============================================================================
