------------------------------ MODULE AuditLog ------------------------------
(***************************************************************************)
(* What the audit chain promises its callers: a log that only grows, in    *)
(* which an emit takes effect once, at one instant between its call and    *)
(* its answer.  An emit that answers is in the log, one that raises is     *)
(* not; one whose worker died may be either.                               *)
(***************************************************************************)
EXTENDS Sequences, SequencesExt

CONSTANT Events

VARIABLES log, call

lvars == <<log, call>>

LInit ==
  /\ log = <<>>
  /\ call = [e \in Events |-> "idle"]

Begin(e) ==
  /\ call[e] = "idle"
  /\ call' = [call EXCEPT ![e] = "pending"]
  /\ UNCHANGED log

Record(e) ==
  /\ call[e] = "pending"
  /\ ~ Contains(log, e)
  /\ log' = Append(log, e)
  /\ call' \in {call, [call EXCEPT ![e] = "returned"]}

Answer(e) ==
  /\ call[e] = "pending"
  /\ call' = [call EXCEPT ![e] = IF Contains(log, e) THEN "returned" ELSE "raised"]
  /\ UNCHANGED log

LNext == \E e \in Events : Begin(e) \/ Record(e) \/ Answer(e)

LSpec == LInit /\ [][LNext]_lvars
=============================================================================
