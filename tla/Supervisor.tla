----------------------------- MODULE Supervisor -----------------------------
(***************************************************************************)
(* The NATS side of main.rs and the loops around the handlers: a task that *)
(* connects, runs a NatsConsumer until it gives up, sleeps and connects    *)
(* again, with a DLQ monitor beside each consumer; and the two pull loops  *)
(* (lanes) of NatsConsumer::start, joined by try_join.  A lane opens its   *)
(* pull stream, runs a handler per message, waits for its handlers when    *)
(* the stream ends, and opens the next one; five failures in a row end the *)
(* consumer and with it the other lane.                                    *)
(*                                                                         *)
(* Handlers are only counted here; NatsConsumer says what they do.  The    *)
(* cleanup task that start spawns is in NatsConsumer too.                  *)
(***************************************************************************)
EXTENDS Integers, Sequences

CONSTANTS
    Lanes,          \* "chain-bridge-worker" and "chain-bridge-mint-worker"
    Concurrency,    \* handlers per lane (32 and 8)
    BaseBackoff,    \* 500 ms
    MaxBackoff,     \* 30000 ms
    LaneBackoff,    \* 100 ms
    MaxLaneBackoff, \* 5000 ms
    MaxFailures,    \* 5
    MaxSleeps       \* bound for the history variable sleeps

ASSUME SupervisorAssumption ==
    /\ Concurrency \in [Lanes -> Nat \ {0}]
    /\ BaseBackoff \in Nat \ {0} /\ LaneBackoff \in Nat \ {0}
    /\ MaxBackoff \in Nat /\ MaxBackoff >= BaseBackoff
    /\ MaxLaneBackoff \in Nat /\ MaxLaneBackoff >= LaneBackoff
    /\ MaxFailures \in Nat \ {0} /\ MaxSleeps \in Nat

VARIABLES
    reachable,  \* external: the NATS server answers
    client,     \* "none", "ok", or "broken": a client that will not recover
    supervisor, \* "connecting", "starting", "joined" (in try_join), "sleeping"
    backoff_ms,
    lane,       \* state of each run_consumer
    dlq,        \* "none", "setup", "watching", "ended"
    sleeps      \* history: sleeps since the last successful connect

vars == <<reachable, client, supervisor, backoff_ms, lane, dlq, sleeps>>

Lesser(a, b) == IF a < b THEN a ELSE b

\* Requests to the server are answered.
Served == reachable /\ client = "ok"

\* pc: "none", "setup", "opening", "sleeping" (after a failed open), "serving",
\* "draining" (the stream ended, handlers still run), "pausing" (200 ms).
NoLane == [pc |-> "none", create_failures |-> 0, backoff_ms |-> LaneBackoff, running |-> 0]

Goto(l, pc) == lane' = [lane EXCEPT ![l].pc = pc]

(***************************************************************************)
(* main.rs.                                                                *)
(***************************************************************************)
\* Mutant of Connect: the backoff is not reset.
ConnectKeepingBackoff ==
    /\ supervisor = "connecting" /\ reachable
    /\ client' = "ok"
    /\ supervisor' = "starting"
    /\ sleeps' = 0
    /\ dlq' = "setup"
    /\ UNCHANGED <<reachable, backoff_ms, lane>>

Connect ==
    /\ supervisor = "connecting" /\ reachable
    /\ client' = "ok"
    /\ supervisor' = "starting"
    /\ backoff_ms' = BaseBackoff
    /\ sleeps' = 0
    /\ dlq' = "setup"
    /\ UNCHANGED <<reachable, lane>>

ConnectFails ==
    /\ supervisor = "connecting" /\ ~reachable
    /\ supervisor' = "sleeping"
    /\ UNCHANGED <<reachable, client, backoff_ms, lane, dlq, sleeps>>

\* Mutant of Stop: the monitor is not aborted.
StopKeepingMonitor ==
    /\ supervisor' = "sleeping"
    /\ client' = "none"
    /\ lane' = [l \in Lanes |-> NoLane]
    /\ UNCHANGED dlq

\* What remains when start returns: the monitor is aborted, the handlers of
\* both lanes are dropped with their futures.
Stop ==
    /\ supervisor' = "sleeping"
    /\ client' = "none"
    /\ dlq' = "none"
    /\ lane' = [l \in Lanes |-> NoLane]

\* Mutant of Wake: without the cap.
WakeUncapped ==
    /\ supervisor = "sleeping"
    /\ supervisor' = "connecting"
    /\ backoff_ms' = backoff_ms * 2
    /\ sleeps' = Lesser(sleeps + 1, MaxSleeps)
    /\ UNCHANGED <<reachable, client, lane, dlq>>

\* The sleep ends; the next one is twice as long.
Wake ==
    /\ supervisor = "sleeping"
    /\ supervisor' = "connecting"
    /\ backoff_ms' = Lesser(backoff_ms * 2, MaxBackoff)
    /\ sleeps' = Lesser(sleeps + 1, MaxSleeps)
    /\ UNCHANGED <<reachable, client, lane, dlq>>

(***************************************************************************)
(* NatsConsumer::start: the stream, then both lanes.                       *)
(***************************************************************************)
Start ==
    /\ supervisor = "starting" /\ Served
    /\ supervisor' = "joined"
    /\ lane' = [l \in Lanes |-> [NoLane EXCEPT !.pc = "setup"]]
    /\ UNCHANGED <<reachable, client, backoff_ms, dlq, sleeps>>

StartFails ==
    /\ supervisor = "starting" /\ ~Served
    /\ Stop
    /\ UNCHANGED <<reachable, backoff_ms, sleeps>>

(***************************************************************************)
(* run_consumer.                                                           *)
(***************************************************************************)
OnlyLane == UNCHANGED <<reachable, client, supervisor, backoff_ms, dlq, sleeps>>

SetUp(l) == lane[l].pc = "setup" /\ Served /\ Goto(l, "opening") /\ OnlyLane

SetUpFails(l) ==
    /\ lane[l].pc = "setup" /\ ~Served
    /\ Stop
    /\ UNCHANGED <<reachable, backoff_ms, sleeps>>

Open(l) ==
    /\ lane[l].pc = "opening" /\ Served
    /\ lane' = [lane EXCEPT ![l].pc = "serving", ![l].create_failures = 0,
                            ![l].backoff_ms = LaneBackoff]
    /\ OnlyLane

OpenFails(l) ==
    /\ lane[l].pc = "opening" /\ ~Served
    /\ lane[l].create_failures + 1 < MaxFailures
    /\ lane' = [lane EXCEPT ![l].pc = "sleeping", ![l].create_failures = @ + 1]
    /\ OnlyLane

\* Mutant of GiveUp: the lane goes on trying with the client it has.
GiveUpNever(l) ==
    /\ lane[l].pc = "opening" /\ ~Served
    /\ lane[l].create_failures + 1 >= MaxFailures
    /\ Goto(l, "sleeping")
    /\ OnlyLane

\* The last failure ends run_consumer, and try_join the other lane.
GiveUp(l) ==
    /\ lane[l].pc = "opening" /\ ~Served
    /\ lane[l].create_failures + 1 >= MaxFailures
    /\ Stop
    /\ UNCHANGED <<reachable, backoff_ms, sleeps>>

Retry(l) ==
    /\ lane[l].pc = "sleeping"
    /\ lane' = [lane EXCEPT ![l].pc = "opening",
                            ![l].backoff_ms = Lesser(@ * 2, MaxLaneBackoff)]
    /\ OnlyLane

\* for_each_concurrent: a message is taken while a slot is free.
Take(l) ==
    /\ lane[l].pc = "serving" /\ Served
    /\ lane[l].running < Concurrency[l]
    /\ lane' = [lane EXCEPT ![l].running = @ + 1]
    /\ OnlyLane

HandlerEnds(l) ==
    /\ lane[l].running > 0
    /\ lane' = [lane EXCEPT ![l].running = @ - 1]
    /\ OnlyLane

\* The stream ends: on an outage or a broken client, or for no reason.
StreamEnds(l) == lane[l].pc = "serving" /\ Goto(l, "draining") /\ OnlyLane

\* Mutant of Drained: the handlers are dropped with their stream.
DrainedAborting(l) ==
    /\ lane[l].pc = "draining"
    /\ lane' = [lane EXCEPT ![l].pc = "pausing", ![l].running = 0]
    /\ OnlyLane

\* for_each_concurrent returns only after the last handler.
Drained(l) ==
    /\ lane[l].pc = "draining" /\ lane[l].running = 0
    /\ Goto(l, "pausing")
    /\ OnlyLane

Reopen(l) == lane[l].pc = "pausing" /\ Goto(l, "opening") /\ OnlyLane

(***************************************************************************)
(* run_dlq_monitor: it ends with its stream and is not started again       *)
(* before the next connect.                                                *)
(***************************************************************************)
DlqWatch ==
    /\ dlq = "setup" /\ Served
    /\ dlq' = "watching"
    /\ UNCHANGED <<reachable, client, supervisor, backoff_ms, lane, sleeps>>

DlqEnds ==
    /\ \/ dlq = "setup" /\ ~Served
       \/ dlq = "watching"
    /\ dlq' = "ended"
    /\ UNCHANGED <<reachable, client, supervisor, backoff_ms, lane, sleeps>>

(***************************************************************************)
(* External: the server goes and comes; during an outage the client may    *)
(* get into a state from which it does not recover.                        *)
(***************************************************************************)
Outage ==
    /\ reachable' = ~reachable
    /\ UNCHANGED <<client, supervisor, backoff_ms, lane, dlq, sleeps>>

ClientBreaks ==
    /\ client = "ok" /\ ~reachable
    /\ client' = "broken"
    /\ UNCHANGED <<reachable, supervisor, backoff_ms, lane, dlq, sleeps>>

Init ==
    /\ reachable \in BOOLEAN
    /\ client = "none" /\ supervisor = "connecting" /\ backoff_ms = BaseBackoff
    /\ lane = [l \in Lanes |-> NoLane]
    /\ dlq = "none" /\ sleeps = 0

SupervisorStep == Connect \/ ConnectFails \/ Wake \/ Start \/ StartFails

\* Steps of a lane that wait for the server or a timer only.
LaneStep(l) ==
    \/ SetUp(l) \/ SetUpFails(l) \/ Open(l) \/ OpenFails(l) \/ GiveUp(l)
    \/ Retry(l) \/ Drained(l) \/ Reopen(l)

Next ==
    \/ SupervisorStep
    \/ \E l \in Lanes : LaneStep(l) \/ Take(l) \/ HandlerEnds(l) \/ StreamEnds(l)
    \/ DlqWatch \/ DlqEnds
    \/ Outage \/ ClientBreaks

Spec == Init /\ [][Next]_vars

\* Timers fire and requests are answered or fail; a stream without server or
\* with a broken client ends by its missed heartbeat.  Handlers may hang.
FairSpec ==
    /\ Spec
    /\ WF_vars(SupervisorStep)
    /\ \A l \in Lanes : WF_vars(LaneStep(l)) /\ WF_vars(~Served /\ StreamEnds(l))

(***************************************************************************)
(* Properties.                                                             *)
(***************************************************************************)
\* Every variable keeps its type; lanes exist exactly while start is in its
\* try_join, and no lane that lives has failed MaxFailures times.
TypeOK ==
    /\ reachable \in BOOLEAN /\ client \in {"none", "ok", "broken"}
    /\ supervisor \in {"connecting", "starting", "joined", "sleeping"}
    /\ dlq \in {"none", "setup", "watching", "ended"} /\ sleeps \in 0..MaxSleeps
    /\ backoff_ms \in BaseBackoff..MaxBackoff
    /\ lane \in [Lanes -> [pc : {"none", "setup", "opening", "sleeping", "serving",
                                 "draining", "pausing"},
                           create_failures : 0..(MaxFailures - 1),
                           backoff_ms : LaneBackoff..MaxLaneBackoff, running : Nat]]
    /\ \A l \in Lanes : (lane[l].pc = "none") <=> (supervisor # "joined")
    /\ (client = "none") <=> (supervisor \in {"connecting", "sleeping"})

\* BaseBackoff doubled n times, cut at MaxBackoff.
Doubled[n \in Nat] ==
    IF n = 0 THEN BaseBackoff ELSE Lesser(Doubled[n - 1] * 2, MaxBackoff)

\* The wait before the next connect depends only on the attempts since the
\* last successful one, however long an earlier outage was: an interruption
\* after normal service always starts again at BaseBackoff.
BackoffTracksOutage ==
    /\ sleeps < MaxSleeps => backoff_ms = Doubled[sleeps]
    /\ supervisor \in {"starting", "joined"} => backoff_ms = BaseBackoff
    /\ \A l \in Lanes : lane[l].create_failures = 0 => lane[l].backoff_ms = LaneBackoff

\* A DLQ monitor lives only beside a consumer: none outlives the connection
\* it was started with, so monitors do not pile up over reconnects.
DlqPaired == dlq # "none" <=> supervisor \in {"starting", "joined"}

Replica == INSTANCE ReplicaService WITH running <- [l \in Lanes |-> lane[l].running]

\* The supervisor implements ReplicaService: no lane runs more handlers than
\* its concurrency, also while a stream is drained and opened again, and
\* handlers are cut off only by a reconnect, which takes those of all lanes.
ImplementsReplica == Replica!Spec

\* Once the server stays reachable, each lane is open for messages again and
\* again: whatever failed before, broken clients included, and whatever the
\* other lane's handlers do.  The one exception: the lane's stream ended and
\* one of its own handlers never returns.
LaneResumes ==
    \A l \in Lanes :
        <>[]reachable =>
            \/ []<>(lane[l].pc = "serving")
            \/ <>[](lane[l].pc = "draining" /\ lane[l].running > 0)
=============================================================================
