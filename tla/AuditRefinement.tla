-------------------------- MODULE AuditRefinement --------------------------
(***************************************************************************)
(* AuditChain implements AuditLog: an emit takes effect at its insert.     *)
(***************************************************************************)
EXTENDS AuditChain

LogOf == [i \in 1..NextSeq |-> rows[i - 1].event]

CallOf(e) ==
  CASE pc[e] = "idle" -> "idle"
    [] pc[e] = "returned" -> "returned"
    [] pc[e] = "raised" -> "raised"
    [] OTHER -> "pending"

Log == INSTANCE AuditLog WITH
  log  <- LogOf,
  call <- [e \in Events |-> CallOf(e)]

\* Under any interleaving, lock behaviour and crash, the chain behaves as a log
\* in which every emit takes effect at one instant of its call, or never.
IsALog == Log!LSpec
=============================================================================
