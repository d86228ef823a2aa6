-------------------------- MODULE SupervisorProofs --------------------------
(***************************************************************************)
(* The supervisor implements ReplicaService, for any lanes, concurrency,   *)
(* durations and number of failures, its monitors do not pile up, and its  *)
(* waits follow the outage.                                                *)
(***************************************************************************)
EXTENDS Supervisor, TLAPS, WellFoundedInduction

LanePc == {"none", "setup", "opening", "sleeping", "serving", "draining", "pausing"}
LaneState == [pc : LanePc, create_failures : 0..(MaxFailures - 1),
              backoff_ms : LaneBackoff..MaxLaneBackoff, running : Nat]

\* A lane that is not there has the type of a lane.
LEMMA NoLaneState == NoLane \in LaneState
  BY SupervisorAssumption DEF NoLane, LaneState, LanePc

\* The records of the lanes have their type.
LEMMA LaneTypes == TypeOK => lane \in [Lanes -> LaneState]
  BY DEF TypeOK, LaneState, LanePc

\* The state of one lane is replaced; it is there as before.
LEMMA LaneStepType ==
    ASSUME TypeOK, NEW l \in Lanes, NEW r \in LaneState,
           (r.pc = "none") <=> (lane[l].pc = "none"),
           lane' = [lane EXCEPT ![l] = r], OnlyLane
    PROVE  TypeOK'
<1>1. lane' \in [Lanes -> LaneState]
  BY LaneTypes
<1>2. \A k \in Lanes : (lane'[k].pc = "none") <=> (supervisor # "joined")
  BY LaneTypes DEF TypeOK
<1> QED
  BY <1>1, <1>2 DEF TypeOK, OnlyLane, LaneState, LanePc

\* Ending a consumer takes all lanes away and keeps the types.
LEMMA StopType ==
    ASSUME TypeOK, Stop, UNCHANGED <<reachable, backoff_ms, sleeps>>
    PROVE  TypeOK'
<1>1. lane' \in [Lanes -> LaneState] /\ \A k \in Lanes : lane'[k].pc = "none"
  BY NoLaneState DEF Stop, NoLane
<1> QED
  BY <1>1 DEF TypeOK, Stop, LaneState, LanePc

\* The types hold at the start.
LEMMA TypeInit == Init => TypeOK
<1> SUFFICES ASSUME Init PROVE TypeOK
  OBVIOUS
<1>1. lane \in [Lanes -> LaneState] /\ \A k \in Lanes : lane[k].pc = "none"
  BY NoLaneState DEF Init, NoLane
<1>2. backoff_ms \in BaseBackoff..MaxBackoff /\ sleeps \in 0..MaxSleeps
  BY SupervisorAssumption DEF Init
<1> QED
  BY <1>1, <1>2 DEF TypeOK, Init, LaneState, LanePc

\* Every step of a lane that leaves the pair joined writes one lane.
LEMMA LaneType ==
    ASSUME TypeOK, NEW l \in Lanes,
           LaneStep(l) \/ Take(l) \/ HandlerEnds(l) \/ StreamEnds(l)
    PROVE  TypeOK'
<1> DEFINE s == lane[l]
<1>0. lane \in [Lanes -> LaneState] /\ s \in LaneState
  BY LaneTypes
<1>1. /\ s.pc \in LanePc /\ s.create_failures \in 0..(MaxFailures - 1) /\ s.running \in Nat
      /\ s.backoff_ms \in LaneBackoff..MaxLaneBackoff
  BY <1>0 DEF LaneState
<1>2. ASSUME NEW p \in LanePc \ {"none"}, s.pc # "none", Goto(l, p), OnlyLane PROVE TypeOK'
  <2> DEFINE r == [s EXCEPT !.pc = p]
  <2>1. r \in LaneState /\ r.pc # "none"
    BY <1>0, <1>2 DEF LaneState
  <2>2. lane' = [lane EXCEPT ![l] = r]
    BY <1>0, <1>2 DEF Goto
  <2> QED
    BY Zenon, <1>2, <2>1, <2>2, LaneStepType
<1>3. CASE SetUp(l) \/ StreamEnds(l) \/ Drained(l) \/ Reopen(l)
  BY <1>2, <1>3 DEF SetUp, StreamEnds, Drained, Reopen, LanePc
<1>4. CASE SetUpFails(l) \/ GiveUp(l)
  BY <1>4, StopType DEF SetUpFails, GiveUp
<1>5. CASE Open(l)
  <2> DEFINE r == [s EXCEPT !.pc = "serving", !.create_failures = 0, !.backoff_ms = LaneBackoff]
  <2>1. r \in LaneState /\ r.pc # "none"
    <3>1. 0 \in 0..(MaxFailures - 1) /\ LaneBackoff \in LaneBackoff..MaxLaneBackoff
      BY SupervisorAssumption
    <3> QED
      BY Zenon, <1>0, <3>1 DEF LaneState, LanePc
  <2>2. lane' = [lane EXCEPT ![l] = r] /\ s.pc # "none" /\ OnlyLane
    BY Zenon, <1>0, <1>5 DEF Open
  <2> QED
    BY Zenon, <2>1, <2>2, LaneStepType
<1>6. CASE OpenFails(l)
  <2> DEFINE r == [s EXCEPT !.pc = "sleeping", !.create_failures = @ + 1]
  <2>1. s.create_failures + 1 \in 0..(MaxFailures - 1)
    BY <1>1, <1>6, SupervisorAssumption DEF OpenFails
  <2>2. r \in LaneState /\ r.pc # "none"
    BY Zenon, <1>0, <2>1 DEF LaneState, LanePc
  <2>3. lane' = [lane EXCEPT ![l] = r] /\ s.pc # "none" /\ OnlyLane
    BY Zenon, <1>0, <1>6 DEF OpenFails
  <2> QED
    BY Zenon, <2>2, <2>3, LaneStepType
<1>7. CASE Retry(l)
  <2> DEFINE r == [s EXCEPT !.pc = "opening", !.backoff_ms = Lesser(@ * 2, MaxLaneBackoff)]
  <2>1. Lesser(s.backoff_ms * 2, MaxLaneBackoff) \in LaneBackoff..MaxLaneBackoff
    BY <1>1, SupervisorAssumption DEF Lesser
  <2>2. r \in LaneState /\ r.pc # "none"
    BY Zenon, <1>0, <2>1 DEF LaneState, LanePc
  <2>3. lane' = [lane EXCEPT ![l] = r] /\ s.pc # "none" /\ OnlyLane
    BY Zenon, <1>0, <1>7 DEF Retry
  <2> QED
    BY Zenon, <2>2, <2>3, LaneStepType
<1>8. ASSUME NEW n \in Nat, lane' = [lane EXCEPT ![l].running = n], OnlyLane PROVE TypeOK'
  <2> DEFINE r == [s EXCEPT !.running = n]
  <2>1. r \in LaneState /\ r.pc = s.pc
    BY <1>0 DEF LaneState
  <2>2. lane' = [lane EXCEPT ![l] = r]
    BY <1>0, <1>8
  <2> QED
    BY Zenon, <1>8, <2>1, <2>2, LaneStepType
<1>9. CASE Take(l) \/ HandlerEnds(l)
  <2>1. CASE Take(l)
    <3>1. lane' = [lane EXCEPT ![l].running = s.running + 1] /\ s.running + 1 \in Nat
      BY <1>1, <2>1 DEF Take
    <3> QED
      BY Zenon, <1>8, <2>1, <3>1 DEF Take
  <2>2. CASE HandlerEnds(l)
    <3>1. lane' = [lane EXCEPT ![l].running = s.running - 1] /\ s.running - 1 \in Nat
      BY <1>1, <2>2 DEF HandlerEnds
    <3> QED
      BY Zenon, <1>8, <2>2, <3>1 DEF HandlerEnds
  <2> QED
    BY <1>9, <2>1, <2>2
<1> QED
  BY <1>3, <1>4, <1>5, <1>6, <1>7, <1>9 DEF LaneStep

\* TypeOK is inductive.
LEMMA TypeNext == TypeOK /\ [Next]_vars => TypeOK'
<1> SUFFICES ASSUME TypeOK, [Next]_vars PROVE TypeOK'
  OBVIOUS
<1> USE SupervisorAssumption
<1>1. CASE Connect
  BY <1>1 DEF TypeOK, Connect
<1>2. CASE ConnectFails
  BY <1>2 DEF TypeOK, ConnectFails
<1>3. CASE Wake
  <2>1. backoff_ms' \in BaseBackoff..MaxBackoff /\ sleeps' \in 0..MaxSleeps
    BY <1>3 DEF TypeOK, Wake, Lesser
  <2> QED
    BY <1>3, <2>1 DEF TypeOK, Wake
<1>4. CASE Start
  <2>1. lane' \in [Lanes -> LaneState] /\ \A k \in Lanes : lane'[k].pc = "setup"
    <3>1. [NoLane EXCEPT !.pc = "setup"] \in LaneState
      BY NoLaneState DEF LaneState, LanePc
    <3>2. [NoLane EXCEPT !.pc = "setup"].pc = "setup"
      BY DEF NoLane
    <3> QED
      BY Zenon, <1>4, <3>1, <3>2 DEF Start
  <2> QED
    BY <1>4, <2>1 DEF TypeOK, Start, LaneState, LanePc
<1>5. CASE StartFails
  BY <1>5, StopType DEF StartFails
<1>6. CASE DlqWatch \/ DlqEnds \/ Outage \/ ClientBreaks \/ UNCHANGED vars
  BY Zenon, <1>6 DEF TypeOK, DlqWatch, DlqEnds, Outage, ClientBreaks, vars
<1> QED
  BY <1>1, <1>2, <1>3, <1>4, <1>5, <1>6, LaneType DEF Next, SupervisorStep

\* Every variable keeps its type: both backoffs stay between their base and
\* their cap, and no lane that lives has failed MaxFailures times.
THEOREM SupervisorTypeCorrect == Spec => []TypeOK
  BY TypeInit, TypeNext, PTL DEF Spec

-----------------------------------------------------------------------------
\* A DLQ monitor lives only beside a consumer.
THEOREM MonitorPaired == Spec => []DlqPaired
<1> DEFINE I == TypeOK /\ DlqPaired
<1>1. Init => I
  BY TypeInit DEF Init, DlqPaired
<1>2. I /\ [Next]_vars => I'
  <2> SUFFICES ASSUME TypeOK, DlqPaired, [Next]_vars PROVE DlqPaired'
    BY TypeNext
  <2> USE DEF DlqPaired
  <2>1. CASE Connect \/ ConnectFails \/ Wake \/ Start \/ UNCHANGED vars
    BY <2>1 DEF Connect, ConnectFails, Wake, Start, vars
  <2>2. CASE Stop
    BY <2>2 DEF Stop
  <2>3. ASSUME NEW l \in Lanes, OnlyLane PROVE DlqPaired'
    BY <2>3 DEF OnlyLane
  <2>4. CASE DlqWatch \/ DlqEnds \/ Outage \/ ClientBreaks
    BY <2>4 DEF DlqWatch, DlqEnds, Outage, ClientBreaks
  <2> QED
    BY Zenon, <2>1, <2>2, <2>3, <2>4 DEF Next, SupervisorStep, StartFails, LaneStep, SetUp, SetUpFails, Open,
         OpenFails, GiveUp, Retry, Take, HandlerEnds, StreamEnds, Drained, Reopen
<1> QED
  BY <1>1, <1>2, PTL DEF Spec

-----------------------------------------------------------------------------
\* The handlers of each lane, as ReplicaService sees them.
Running == [l \in Lanes |-> lane[l].running]

\* At the start no handler runs.
LEMMA ReplicaInit == Init => Replica!Init
  BY DEF Init, Replica!Init, NoLane

\* A step of the supervisor is a step of ReplicaService or a stutter.
LEMMA ReplicaStep == TypeOK /\ [Next]_vars => [Replica!Next]_Running
<1> SUFFICES ASSUME TypeOK, [Next]_vars PROVE Replica!Next \/ Running' = Running
  BY DEF Running
<1>0. lane \in [Lanes -> LaneState] /\ \A l \in Lanes : lane[l].running \in Nat
  BY LaneTypes DEF LaneState
<1>1. CASE \A l \in Lanes : lane'[l].running = lane[l].running
  BY <1>1 DEF Running
<1>2. CASE \A l \in Lanes : lane'[l].running = 0
  BY <1>2 DEF Replica!Next, Replica!Reconnect
<1>3. CASE Stop \/ Start
  BY <1>2, <1>3 DEF Stop, Start, NoLane
<1>4. CASE lane' = lane
  BY <1>1, <1>4
<1>5. ASSUME NEW l \in Lanes, Take(l) PROVE Replica!Next
  <2>1. Running' = [Running EXCEPT ![l] = @ + 1]
    BY Zenon, <1>0, <1>5 DEF Take, Running, LaneState
  <2>2. Running[l] < Concurrency[l]
    BY <1>5 DEF Take, Running
  <2> QED
    BY Zenon, <2>1, <2>2 DEF Replica!Next, Replica!Take, Running
<1>6. ASSUME NEW l \in Lanes, HandlerEnds(l) PROVE Replica!Next
  <2>1. Running' = [Running EXCEPT ![l] = @ - 1]
    BY Zenon, <1>0, <1>6 DEF HandlerEnds, Running, LaneState
  <2>2. Running[l] > 0
    BY <1>6 DEF HandlerEnds, Running
  <2> QED
    BY Zenon, <2>1, <2>2 DEF Replica!Next, Replica!End, Running
<1>7. ASSUME NEW l \in Lanes, LaneStep(l) \/ StreamEnds(l)
      PROVE  Stop \/ \A k \in Lanes : lane'[k].running = lane[k].running
  <2>1. CASE SetUpFails(l) \/ GiveUp(l)
    BY <2>1 DEF SetUpFails, GiveUp
  <2>2. CASE SetUp(l) \/ Drained(l) \/ Reopen(l) \/ StreamEnds(l)
    BY <1>0, <2>2 DEF SetUp, Drained, Reopen, StreamEnds, Goto, LaneState
  <2>3. CASE Open(l) \/ OpenFails(l) \/ Retry(l)
    BY <1>0, <2>3 DEF Open, OpenFails, Retry, LaneState
  <2> QED
    BY <1>7, <2>1, <2>2, <2>3 DEF LaneStep
<1>8. CASE SupervisorStep
  BY <1>3, <1>4, <1>8 DEF SupervisorStep, Connect, ConnectFails, Wake, StartFails
<1>9. CASE DlqWatch \/ DlqEnds \/ Outage \/ ClientBreaks \/ UNCHANGED vars
  BY <1>4, <1>9 DEF DlqWatch, DlqEnds, Outage, ClientBreaks, vars
<1> QED
  BY <1>1, <1>3, <1>5, <1>6, <1>7, <1>8, <1>9 DEF Next

\* The supervisor implements ReplicaService.
THEOREM RefinesReplica == Spec => ImplementsReplica
<1>1. TypeOK /\ [Next]_vars => [Replica!Next]_([l \in Lanes |-> lane[l].running])
  BY ReplicaStep DEF Running
<1> QED
  BY <1>1, ReplicaInit, SupervisorTypeCorrect, PTL DEF Spec, ImplementsReplica, Replica!Spec

-----------------------------------------------------------------------------
(* Doubled is a recursive function: that it satisfies its equation has to  *)
(* be proved, by induction.  The induction is on a set of naturals: if one *)
(* were missing, a least one would be.                                     *)

\* Induction on the naturals in a set.
LEMMA SetInduction ==
    ASSUME NEW S, 0 \in S, \A n \in Nat : n \in S => n + 1 \in S
    PROVE  Nat \subseteq S
<1> DEFINE T == Nat \ S
           R == OpToRel(<, Nat)
<1>1. SUFFICES ASSUME T # {} PROVE FALSE
  OBVIOUS
<1>2. IsWellFoundedOn(R, Nat)
  BY NatLessThanWellFounded
<1>3. \A x, y \in Nat : y < x => <<y, x>> \in R
  BY DEF OpToRel
<1>4. T \subseteq Nat
  OBVIOUS
<1> HIDE DEF R
<1>5. PICK x \in T : \A y \in T : ~(<<y, x>> \in R)
  BY Zenon, <1>1, <1>2, <1>4, WFMin
<1>6. x \in Nat /\ x # 0 /\ x - 1 \in Nat
  BY <1>4
<1>7. x - 1 \in S
  <2>1. x - 1 < x /\ <<x - 1, x>> \in R
    BY <1>3, <1>6
  <2>2. x - 1 \notin T
    BY <1>5, <2>1
  <2> QED BY <1>6, <2>2
<1>8. (x - 1) + 1 \in S
  BY <1>6, <1>7
<1> QED
  BY <1>6, <1>8

\* Iterating a function on V from b gives a function on Nat.
LEMMA Iteration ==
    ASSUME NEW V, NEW b \in V, NEW step \in [V -> V]
    PROVE  \E f \in [Nat -> V] : f[0] = b /\ \A n \in Nat : f[n + 1] = step[f[n]]
<1> DEFINE Prefix(n, g) == /\ g \in [0..n -> V] /\ g[0] = b
                           /\ \A i \in 0..n : i # n => g[i + 1] = step[g[i]]
           S == {n \in Nat : \E g : Prefix(n, g)}
<1>1. Nat \subseteq S
  <2>1. 0 \in S
    <3> DEFINE g == [i \in 0..0 |-> b]
    <3>1. Prefix(0, g)
      OBVIOUS
    <3> QED BY Zenon, <3>1
  <2>2. ASSUME NEW n \in Nat, n \in S PROVE n + 1 \in S
    <3>1. PICK g : Prefix(n, g)
      BY <2>2
    <3> DEFINE h == [i \in 0..(n + 1) |-> IF i = n + 1 THEN step[g[n]] ELSE g[i]]
    <3>2. h \in [0..(n + 1) -> V]
      BY <3>1
    <3>3. h[0] = b
      BY <3>1
    <3>4. ASSUME NEW i \in 0..(n + 1), i # n + 1 PROVE h[i + 1] = step[h[i]]
      <4>1. CASE i = n
        BY <3>4, <4>1
      <4>2. CASE i # n
        BY <3>1, <3>4, <4>2
      <4> QED BY <4>1, <4>2
    <3>5. Prefix(n + 1, h)
      BY <3>2, <3>3, <3>4
    <3> HIDE DEF h, Prefix
    <3> QED BY <3>5
  <2> HIDE DEF S
  <2> QED BY <2>1, <2>2, SetInduction
<1>2. ASSUME NEW m \in Nat, NEW n \in Nat, m <= n, NEW g, NEW h, Prefix(m, g), Prefix(n, h)
      PROVE  \A i \in 0..m : g[i] = h[i]
  <2> DEFINE E == {i \in Nat : i <= m => g[i] = h[i]}
  <2>1. 0 \in E
    BY <1>2
  <2>2. ASSUME NEW i \in Nat, i \in E PROVE i + 1 \in E
    <3>1. CASE i + 1 <= m
      <4>1. i \in 0..m /\ i # m /\ i \in 0..n /\ i # n /\ g[i] = h[i]
        BY <1>2, <2>2, <3>1
      <4>2. g[i + 1] = step[g[i]] /\ h[i + 1] = step[h[i]]
        BY <1>2, <4>1
      <4> QED BY <4>1, <4>2
    <3>2. CASE ~(i + 1 <= m)
      BY <3>2
    <3> QED BY <3>1, <3>2
  <2>3. Nat \subseteq E
    <3> HIDE DEF E
    <3> QED BY <2>1, <2>2, SetInduction
  <2>4. \A i \in 0..m : i \in Nat /\ i <= m
    OBVIOUS
  <2> QED BY <2>3, <2>4
<1> DEFINE G(n) == CHOOSE g : Prefix(n, g)
           f == [n \in Nat |-> G(n)[n]]
<1>3. \A n \in Nat : Prefix(n, G(n))
  BY Zenon, <1>1
<1>4. f \in [Nat -> V]
  BY <1>3
<1>5. f[0] = b
  BY Zenon, <1>3
<1>6. ASSUME NEW n \in Nat PROVE f[n + 1] = step[f[n]]
  <2>1. Prefix(n, G(n)) /\ Prefix(n + 1, G(n + 1))
    <3> HIDE DEF Prefix, G
    <3>1. n + 1 \in Nat
      OBVIOUS
    <3> QED BY <1>3, <3>1
  <2>2. G(n + 1)[n + 1] = step[G(n + 1)[n]]
    <3> DEFINE g == G(n + 1)
    <3>1. \A i \in 0..(n + 1) : i # n + 1 => g[i + 1] = step[g[i]]
      BY Zenon, <2>1
    <3>2. n \in 0..(n + 1) /\ n # n + 1
      OBVIOUS
    <3> HIDE DEF g
    <3>3. g[n + 1] = step[g[n]]
      BY <3>1, <3>2
    <3> QED BY <3>3 DEF g
  <2>3. G(n)[n] = G(n + 1)[n]
    <3> HIDE DEF G, Prefix
    <3>1. n <= n + 1 /\ n + 1 \in Nat /\ n \in 0..n
      OBVIOUS
    <3> QED BY <1>2, <2>1, <3>1
  <2>4. f[n] = G(n)[n] /\ f[n + 1] = G(n + 1)[n + 1]
    <3> HIDE DEF G
    <3> QED OBVIOUS
  <2> HIDE DEF f, G
  <2> QED BY <2>2, <2>3, <2>4
<1> QED
  <2> HIDE DEF f
  <2> QED BY <1>4, <1>5, <1>6

\* The equation of Doubled.
LEMMA DoubledEquation ==
    /\ Doubled[0] = BaseBackoff
    /\ \A n \in Nat : Doubled[n + 1] = Lesser(Doubled[n] * 2, MaxBackoff)
<1> DEFINE step == [x \in Nat |-> Lesser(x * 2, MaxBackoff)]
           Eq(g) == g = [n \in Nat |-> IF n = 0 THEN BaseBackoff
                                       ELSE Lesser(g[n - 1] * 2, MaxBackoff)]
<1>1. step \in [Nat -> Nat] /\ BaseBackoff \in Nat
  BY SupervisorAssumption DEF Lesser
<1>2. PICK f \in [Nat -> Nat] : f[0] = BaseBackoff /\ \A n \in Nat : f[n + 1] = step[f[n]]
  <2> DEFINE V == Nat
  <2>1. step \in [V -> V] /\ BaseBackoff \in V
    BY <1>1
  <2> HIDE DEF step, V
  <2>2. \E f \in [Nat -> V] : f[0] = BaseBackoff /\ \A n \in Nat : f[n + 1] = step[f[n]]
    BY <2>1, Iteration
  <2> QED BY <2>2 DEF V
<1>3. Eq(f)
  <2>1. ASSUME NEW n \in Nat
        PROVE  f[n] = IF n = 0 THEN BaseBackoff ELSE Lesser(f[n - 1] * 2, MaxBackoff)
    <3>1. CASE n = 0
      BY <1>2, <3>1
    <3>2. CASE n # 0
      <4>1. n - 1 \in Nat /\ (n - 1) + 1 = n
        BY <3>2
      <4>2. f[(n - 1) + 1] = step[f[n - 1]] /\ f[n - 1] \in Nat
        BY Zenon, <1>2, <4>1
      <4> QED BY <3>2, <4>1, <4>2
    <3> QED BY <3>1, <3>2
  <2> QED BY <1>2, <2>1
<1>4. Doubled = CHOOSE g : Eq(g)
  BY DEF Doubled
<1>5. Eq(Doubled)
  <2> HIDE DEF Eq
  <2> QED BY <1>3, <1>4
<1>6. Doubled[0] = BaseBackoff
  BY <1>5
<1>7. ASSUME NEW n \in Nat PROVE Doubled[n + 1] = Lesser(Doubled[n] * 2, MaxBackoff)
  <2>1. n + 1 \in Nat /\ n + 1 # 0 /\ (n + 1) - 1 = n
    OBVIOUS
  <2> QED BY <1>5, <2>1
<1> QED
  BY <1>6, <1>7

\* A lane sleeps only after a failure.
FailedBeforeSleep == \A l \in Lanes : lane[l].pc = "sleeping" => lane[l].create_failures > 0

\* The backoffs of a lane follow its failures.
LaneBackoffs ==
    /\ FailedBeforeSleep
    /\ \A l \in Lanes : lane[l].create_failures = 0 => lane[l].backoff_ms = LaneBackoff

\* Every step keeps the backoffs of the lanes.
LEMMA LaneBackoffsNext == TypeOK /\ LaneBackoffs /\ [Next]_vars => LaneBackoffs'
<1> SUFFICES ASSUME TypeOK, LaneBackoffs, [Next]_vars PROVE LaneBackoffs'
  OBVIOUS
<1>0. lane \in [Lanes -> LaneState]
  BY LaneTypes
<1>1. CASE lane' = lane
  BY <1>1 DEF LaneBackoffs, FailedBeforeSleep
<1>2. CASE Stop \/ Start
  BY <1>2 DEF Stop, Start, NoLane, LaneBackoffs, FailedBeforeSleep
<1>3. ASSUME NEW l \in Lanes, LaneStep(l) \/ Take(l) \/ HandlerEnds(l) \/ StreamEnds(l)
      PROVE  LaneBackoffs'
  <2>1. ASSUME \A k \in Lanes \ {l} : lane'[k] = lane[k],
               lane'[l].pc = "sleeping" => lane'[l].create_failures > 0,
               lane'[l].create_failures = 0 => lane'[l].backoff_ms = LaneBackoff
        PROVE  LaneBackoffs'
    BY <2>1 DEF LaneBackoffs, FailedBeforeSleep
  <2>2. lane[l] \in LaneState /\ lane[l].create_failures \in Nat
    BY <1>0, SupervisorAssumption DEF LaneState
  <2>3. ASSUME NEW pc \in LanePc \ {"sleeping"}, Goto(l, pc) PROVE LaneBackoffs'
    BY <1>0, <2>1, <2>2, <2>3 DEF Goto, LaneState, LaneBackoffs
  <2>4. CASE SetUp(l) \/ StreamEnds(l) \/ Drained(l) \/ Reopen(l)
    BY <2>3, <2>4 DEF SetUp, StreamEnds, Drained, Reopen, LanePc
  <2>5. CASE SetUpFails(l) \/ GiveUp(l)
    BY <1>2, <2>5 DEF SetUpFails, GiveUp
  <2>6. CASE Open(l)
    BY <1>0, <2>1, <2>6 DEF Open, LaneState
  <2>7. CASE OpenFails(l)
    BY <1>0, <2>1, <2>2, <2>7 DEF OpenFails, LaneState
  <2>8. CASE Retry(l)
    <3>1. lane[l].create_failures > 0
      BY <2>8 DEF Retry, LaneBackoffs, FailedBeforeSleep
    <3> QED BY <1>0, <2>1, <2>2, <2>8, <3>1 DEF Retry, LaneState
  <2>9. CASE Take(l) \/ HandlerEnds(l)
    BY <1>0, <2>1, <2>9 DEF Take, HandlerEnds, LaneState, LaneBackoffs, FailedBeforeSleep
  <2> QED BY <1>3, <2>4, <2>5, <2>6, <2>7, <2>8, <2>9 DEF LaneStep
<1>4. CASE Connect \/ ConnectFails \/ Wake \/ DlqWatch \/ DlqEnds \/ Outage \/ ClientBreaks
           \/ UNCHANGED vars
  BY <1>1, <1>4 DEF Connect, ConnectFails, Wake, DlqWatch, DlqEnds, Outage, ClientBreaks, vars
<1> QED
  BY <1>2, <1>3, <1>4 DEF Next, SupervisorStep, StartFails

\* The wait before the next connect.
ConnectBackoff ==
    /\ sleeps < MaxSleeps => backoff_ms = Doubled[sleeps]
    /\ supervisor \in {"starting", "joined"} => backoff_ms = BaseBackoff

\* Every step keeps the backoff of the connection.
LEMMA ConnectBackoffNext == TypeOK /\ ConnectBackoff /\ [Next]_vars => ConnectBackoff'
<1> SUFFICES ASSUME TypeOK, ConnectBackoff, [Next]_vars PROVE ConnectBackoff'
  OBVIOUS
<1>1. ASSUME UNCHANGED <<backoff_ms, sleeps>>,
             \/ supervisor' = supervisor \/ supervisor' = "sleeping"
             \/ supervisor = "starting"
      PROVE  ConnectBackoff'
  BY <1>1 DEF ConnectBackoff
<1>2. CASE Connect
  BY <1>2, DoubledEquation DEF Connect, ConnectBackoff
<1>3. CASE Wake
  <2>1. sleeps \in Nat /\ MaxSleeps \in Nat
    BY SupervisorAssumption DEF TypeOK
  <2>2. CASE sleeps + 1 < MaxSleeps
    <3>1. sleeps' = sleeps + 1 /\ sleeps < MaxSleeps /\ backoff_ms = Doubled[sleeps]
      BY <1>3, <2>1, <2>2 DEF Wake, Lesser, ConnectBackoff
    <3>2. backoff_ms' = Doubled[sleeps + 1]
      BY <1>3, <2>1, <3>1, DoubledEquation DEF Wake
    <3> QED BY <1>3, <3>1, <3>2 DEF Wake, ConnectBackoff
  <2>3. CASE ~(sleeps + 1 < MaxSleeps)
    <3>1. sleeps' = MaxSleeps
      BY <1>3, <2>3 DEF Wake, Lesser
    <3> QED BY <1>3, <2>1, <3>1 DEF Wake, ConnectBackoff
  <2> QED BY <2>2, <2>3
<1>4. ASSUME NEW l \in Lanes, LaneStep(l) \/ Take(l) \/ HandlerEnds(l) \/ StreamEnds(l)
      PROVE  ConnectBackoff'
  BY <1>1, <1>4 DEF LaneStep, SetUp, SetUpFails, Open, OpenFails, GiveUp, Retry, Take,
                    HandlerEnds, StreamEnds, Drained, Reopen, OnlyLane, Stop
<1>5. CASE ConnectFails \/ Start \/ StartFails \/ DlqWatch \/ DlqEnds \/ Outage
           \/ ClientBreaks \/ UNCHANGED vars
  BY <1>1, <1>5 DEF ConnectFails, Start, StartFails, Stop, DlqWatch, DlqEnds, Outage,
                    ClientBreaks, vars
<1> QED
  BY <1>2, <1>3, <1>4, <1>5 DEF Next, SupervisorStep

\* The wait before a connect is the base doubled once per attempt since the
\* last success, cut at the cap, whatever happened before.
THEOREM BackoffFollowsOutage == Spec => []BackoffTracksOutage
<1>1. Init => LaneBackoffs /\ ConnectBackoff
  BY DoubledEquation DEF Init, NoLane, LaneBackoffs, FailedBeforeSleep, ConnectBackoff
<1>2. LaneBackoffs /\ ConnectBackoff => BackoffTracksOutage
  BY DEF LaneBackoffs, ConnectBackoff, BackoffTracksOutage
<1> QED
  BY <1>1, <1>2, SupervisorTypeCorrect, LaneBackoffsNext, ConnectBackoffNext, PTL DEF Spec

=============================================================================
