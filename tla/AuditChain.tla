------------------------------ MODULE AuditChain ------------------------------
(***************************************************************************)
(* What the audit trail promises (core/audit.rs, AuditPort): one hash      *)
(* chain.  Each append links to the tip and becomes the tip.               *)
(***************************************************************************)
EXTENDS Sequences

CONSTANTS Entry, Genesis

VARIABLE log      \* linked entries, oldest first

\* SHA-256 over the link and the fields, taken to be injective.
Linked(e, prev) == [entry |-> e, prev |-> prev, hash |-> <<e, prev>>]

TipHash == IF log = <<>> THEN Genesis ELSE log[Len(log)].hash

Init == log = <<>>

Extend(e) == log' = Append(log, Linked(e, TipHash))

Next == \E e \in Entry : Extend(e)

Spec == Init /\ [][Next]_log

=============================================================================
