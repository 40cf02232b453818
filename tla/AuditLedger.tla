---------------------------- MODULE AuditLedger ----------------------------
(***************************************************************************)
(* What GuardMeshAudit promises its readers: one log of decisions that     *)
(* only grows, at its end, by decisions with roots not seen before.        *)
(***************************************************************************)
EXTENDS Naturals, Sequences

CONSTANT Entry  \* what may be recorded, each with the field root

VARIABLE log

Init == log = <<>>

Record(e) ==
  /\ \A i \in DOMAIN log : log[i].root # e.root
  /\ log' = Append(log, e)

Next == \E e \in Entry : Record(e)

Spec == Init /\ [][Next]_log
=============================================================================
