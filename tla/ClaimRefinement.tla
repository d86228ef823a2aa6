--------------------------- MODULE ClaimRefinement ---------------------------
(***************************************************************************)
(* The dedup_store of the consumer implements ClaimLedger, provided no     *)
(* handler outlives its claim (Timely).                                    *)
(***************************************************************************)
EXTENDS NatsConsumer

\* The handlers of replica r that are signing for key k.
Signers(r, k) ==
  {w \in Worker : /\ Home[w] = r /\ Signing(w) /\ Keyed(worker[w].msg)
                  /\ DedupKeyOf(worker[w].msg) = k}

LedgerOf ==
  [r \in Replica |-> [k \in DedupKey |->
     LET by == Signers(r, k) IN
     [state |-> IF by # {} THEN "held"
                ELSE IF dedup[r][k].state = "Done" /\ dedup[r][k].ttl > 0 THEN "done"
                ELSE "free",
      by |-> by]]]

Ledger == INSTANCE ClaimLedger WITH ledger <- LedgerOf

\* Every step of the consumer is a step of the claim ledger: claim_or_replay
\* claims only a free key, and only the attempt that holds a claim turns it
\* into Done or releases it.
ImplementsLedger == Ledger!Spec

=============================================================================
