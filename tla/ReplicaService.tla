--------------------------- MODULE ReplicaService ---------------------------
(***************************************************************************)
(* What a replica offers to the messages of its consumers: each lane runs  *)
(* at most its number of handlers, handlers end on their own, and a        *)
(* reconnect ends those of all lanes together.  NatsConsumer relies on     *)
(* this: its Reconnect empties every slot of a replica in one step.        *)
(***************************************************************************)
EXTENDS Naturals

CONSTANTS Lanes, Concurrency

VARIABLE running  \* handlers of each lane

Init == running = [l \in Lanes |-> 0]

Take(l) ==
    /\ running[l] < Concurrency[l]
    /\ running' = [running EXCEPT ![l] = @ + 1]

End(l) ==
    /\ running[l] > 0
    /\ running' = [running EXCEPT ![l] = @ - 1]

Reconnect == running' = [l \in Lanes |-> 0]

Next == (\E l \in Lanes : Take(l) \/ End(l)) \/ Reconnect

Spec == Init /\ [][Next]_running
=============================================================================
