------------------------------- MODULE Metrics ------------------------------
(***************************************************************************)
(* Metrics of instances: the poller of the worker samples libvirt into a   *)
(* store in its memory (the Prometheus exporter reads it) and into Redis   *)
(* under an expiry (the API reads it)                                      *)
(* (internal/worker/metrics_poll.go, internal/instancemetrics,             *)
(* internal/libvirt/stats.go, repository/instances_metrics.go,             *)
(* InstanceService.GetInstanceStats).                                      *)
(*                                                                         *)
(* Time goes in ticks.  A pass takes at most MaxPass of them and begins    *)
(* when its interval is over; what is kept of a time is its age, which     *)
(* stops counting where nothing depends on it any more.                    *)
(***************************************************************************)
EXTENDS Integers

CONSTANTS
  Instances,
  Interval,  \* ticks between two passes (12 s)
  MaxPass,   \* bound on the ticks a pass takes
  MaxAge,    \* maxStatsPayloadAge, and the expiry of a key (45 s)
  MaxFaults, \* bound on failed calls of libvirt, Redis or Postgres, and deaths
  Nothing

ASSUME ConstantsAssumption ==
  Interval \in Nat \ {0} /\ MaxPass \in Nat /\ MaxAge \in Nat /\ MaxFaults \in Nat
ASSUME NothingAssumption ==
  Nothing \notin {"same boot", "booted since"} \cup [pct : BOOLEAN]

VARIABLES
  state,  \* state[i]: "running", or any other or no instances row
  active, \* the instances whose domain is active
  data,   \* data[i]: MemoryStore.data, and whether it has a CPU percentage
  prev,   \* prev[i]: MemoryStore.prev, and whether the domain has booted since
  redis,  \* redis[i]: the payload under the key of i, and how long it lives
  poll,   \* the pass of the poller
  up,     \* the worker is there
  faults

guests == <<state, active>>
store  == <<data, prev>>
vars   == <<guests, store, redis, poll, up, faults>>

Ages   == (0 .. MaxAge + 1) \cup (0 .. MaxPass)
Older(a) == IF a > MaxAge THEN a ELSE a + 1
Sample(pct) == [pct |-> pct]
Stored   == [age : Ages, ttl : 0..MaxAge]
NoPass   == [step |-> "idle", left |-> {}, alive |-> {}, cur |-> Nothing,
             age |-> 0, wait |-> Interval]

TypeOK ==
  /\ state \in [Instances -> {"running", "other"}]
  /\ active \subseteq Instances
  /\ data \in [Instances -> [pct : BOOLEAN] \cup {Nothing}]
  /\ prev \in [Instances -> {Nothing, "same boot", "booted since"}]
  /\ redis \in [Instances -> Stored \cup {Nothing}]
  /\ poll \in [step : {"idle", "rows", "set", "del", "sweep"}, left : SUBSET Instances,
       alive : SUBSET Instances, cur : Instances \cup {Nothing},
       age : 0..MaxPass, wait : 0..Interval]
  /\ up \in BOOLEAN /\ faults \in 0..MaxFaults

Init ==
  /\ state = [i \in Instances |-> "running"]
  /\ active = Instances
  /\ data = [i \in Instances |-> Nothing] /\ prev = [i \in Instances |-> Nothing]
  /\ redis = [i \in Instances |-> Nothing]
  /\ poll = NoPass /\ up = TRUE /\ faults = 0

\* A call may fail as long as the bound is not reached.
Fault == faults < MaxFaults /\ faults' = faults + 1

------------------------------------------------------------------------------
\* Time

Aged(p) == IF p = Nothing THEN p ELSE [p EXCEPT !.age = Older(@)]
\* Mutant: the key is set without an expiry.
MutExpired(p) == Aged(p)
\* Mutant: the key lives on at the end of its time.
MutExpiredLate(p) == IF p = Nothing THEN p ELSE [Aged(p) EXCEPT !.ttl = @ - 1]

Expired(p) ==
  IF p = Nothing \/ p.ttl = 0 THEN Nothing ELSE [Aged(p) EXCEPT !.ttl = @ - 1]

\* A ticker that is due fires before time goes on.
Tick ==
  /\ up => IF poll.step = "idle" THEN poll.wait > 0 ELSE poll.age < MaxPass
  /\ redis' = [i \in Instances |-> Expired(redis[i])]
  /\ poll' = [poll EXCEPT !.wait = IF @ = 0 THEN 0 ELSE @ - 1,
                          !.age = IF poll.step = "idle" THEN 0 ELSE @ + 1]
  /\ UNCHANGED <<guests, store, up, faults>>

------------------------------------------------------------------------------
\* pollOnce

ListRunning ==
  /\ up /\ poll.step = "idle" /\ poll.wait = 0
  /\ \/ /\ LET alive == {i \in Instances : state[i] = "running"}
           IN  poll' = [NoPass EXCEPT !.step = "rows", !.left = alive, !.alive = alive]
        /\ UNCHANGED faults
     \/ Fault /\ poll' = [poll EXCEPT !.wait = Interval]
  /\ UNCHANGED <<guests, store, redis, up>>

\* The percentage needs an earlier sample, and a counter that has not gone back
\* (of a domain that has booted since it may have passed the old value already).
Percentages(i) ==
  CASE prev[i] = Nothing        -> {FALSE}
    [] prev[i] = "same boot"    -> {TRUE}
    [] prev[i] = "booted since" -> BOOLEAN

Put(i) ==
  /\ \E pct \in Percentages(i) : data' = [data EXCEPT ![i] = Sample(pct)]
  /\ prev' = [prev EXCEPT ![i] = "same boot"]

\* Mutant: the sample to compare with is kept.
MutDelete(i) == data' = [data EXCEPT ![i] = Nothing] /\ UNCHANGED prev
Delete(i) ==
  /\ data' = [data EXCEPT ![i] = Nothing] /\ prev' = [prev EXCEPT ![i] = Nothing]

GetInstanceStats(i) ==
  /\ up /\ poll.step = "rows" /\ i \in poll.left
  /\ \/ i \in active /\ Put(i) /\ UNCHANGED faults
        /\ poll' = [poll EXCEPT !.step = "set", !.cur = i, !.left = @ \ {i}]
     \/ /\ IF i \in active THEN Fault ELSE UNCHANGED faults
        /\ Delete(i)
        /\ poll' = [poll EXCEPT !.step = "del", !.cur = i, !.left = @ \ {i}]
  /\ UNCHANGED <<guests, redis, up>>

RowDone == poll' = [poll EXCEPT !.step = "rows", !.cur = Nothing]

\* Mutant: a key lives from one pass to the next.
MutLifetime == Interval
Lifetime == MaxAge

\* The payload that is marshalled is the caller's, which has no percentage: Put
\* has set it in its own copy.
RedisSet ==
  /\ up /\ poll.step = "set"
  /\ \/ /\ redis' = [redis EXCEPT ![poll.cur] = [age |-> poll.age, ttl |-> Lifetime]]
        /\ UNCHANGED faults
     \/ Fault /\ UNCHANGED redis
  /\ RowDone
  /\ UNCHANGED <<guests, store, up>>

RedisDel(i) ==
  \/ redis' = [redis EXCEPT ![i] = Nothing] /\ UNCHANGED faults
  \/ Fault /\ UNCHANGED redis

DropFailed ==
  /\ up /\ poll.step = "del"
  /\ RedisDel(poll.cur)
  /\ RowDone
  /\ UNCHANGED <<guests, store, up>>

Known == {i \in Instances : data[i] # Nothing}

\* Mutant: what is not running any more is looked for among the rows.
MutStale == poll.alive \cap {i \in Instances : data[i] = Nothing}
Stale == Known \ poll.alive

BeginSweep ==
  /\ up /\ poll.step = "rows" /\ poll.left = {}
  /\ poll' = [poll EXCEPT !.step = "sweep", !.left = Stale]
  /\ UNCHANGED <<guests, store, redis, up, faults>>

Sweep(i) ==
  /\ up /\ poll.step = "sweep" /\ i \in poll.left
  /\ Delete(i) /\ RedisDel(i)
  /\ poll' = [poll EXCEPT !.left = @ \ {i}]
  /\ UNCHANGED <<guests, up>>

\* The ticker has counted on; what it missed it drops.
EndPass ==
  /\ up /\ poll.step = "sweep" /\ poll.left = {}
  /\ poll' = [poll EXCEPT !.step = "idle", !.age = 0]
  /\ UNCHANGED <<guests, store, redis, up, faults>>

------------------------------------------------------------------------------
\* The rest of the system, and faults

\* Rows and domains change hands elsewhere, in either order.
SetState(i) ==
  /\ state' = [state EXCEPT ![i] = IF @ = "running" THEN "other" ELSE "running"]
  /\ UNCHANGED <<active, store, redis, poll, up, faults>>

PowerOff(i) ==
  /\ i \in active /\ active' = active \ {i}
  /\ UNCHANGED <<state, store, redis, poll, up, faults>>

Boot(i) ==
  /\ i \notin active
  /\ active' = active \cup {i}
  /\ prev' = [prev EXCEPT ![i] = IF @ = Nothing THEN @ ELSE "booted since"]
  /\ UNCHANGED <<state, data, redis, poll, up, faults>>

Die ==
  /\ up /\ Fault /\ up' = FALSE
  /\ data' = [i \in Instances |-> Nothing] /\ prev' = [i \in Instances |-> Nothing]
  /\ poll' = NoPass
  /\ UNCHANGED <<guests, redis>>

Restart ==
  /\ ~up /\ up' = TRUE
  /\ poll' = NoPass
  /\ UNCHANGED <<guests, store, redis, faults>>

------------------------------------------------------------------------------
Poll ==
  \/ ListRunning \/ RedisSet \/ DropFailed \/ BeginSweep \/ EndPass
  \/ \E i \in Instances : GetInstanceStats(i) \/ Sweep(i)

Next ==
  \/ Tick \/ Poll \/ Die \/ Restart
  \/ \E i \in Instances :
       SetState(i) \/ PowerOff(i) \/ Boot(i)

\* Time goes on, and a poller that is there polls.
Spec == Init /\ [][Next]_vars /\ WF_vars(Tick) /\ WF_vars(Poll)

\* GET .../stats of an instance that has a row has something to answer.
Served(i) == redis[i] # Nothing /\ redis[i].age <= MaxAge

------------------------------------------------------------------------------
(***************************************************************************)
(* Between two passes the exporter shows no instance that the last list of *)
(* running instances did not have: a series of an instance that stopped    *)
(* ends with the next pass, however stops, failures of libvirt and deaths  *)
(* of the worker fall between the steps of a pass.                         *)
(***************************************************************************)
GaugesWerePolled ==
  up /\ poll.step = "idle" => Known \subseteq poll.alive

(***************************************************************************)
(* An instance that is no longer running is forgotten: the API stops to    *)
(* answer with its last payload.  A worker that dies forgets what it has   *)
(* to delete (the sweep goes through memory), a delete may fail: then the  *)
(* expiry does it.                                                         *)
(***************************************************************************)
StoppedIsForgotten ==
  \A i \in Instances : (state[i] # "running") ~> (redis[i] = Nothing \/ state[i] = "running")

(***************************************************************************)
(* An instance that keeps running, with a worker that stays up, is served  *)
(* for good: its payload is replaced before it is too old or expires,      *)
(* although a pass dates it when it begins and stores it when it comes to  *)
(* it.                                                                     *)
(***************************************************************************)
RunningIsServed ==
  \A i \in Instances :
    <>[](state[i] = "running" /\ i \in active /\ up) => <>[]Served(i)

(***************************************************************************)
(* A percentage is a difference between two passes in a row: an instance   *)
(* that was dropped (stopped, unreachable, the worker restarted) and comes *)
(* back has none at first, so no average over the gap is shown as its load *)
(* (payload.go:23, "since the previous poll").                             *)
(***************************************************************************)
NoPercentageAcrossAGap ==
  [][\A i \in Instances :
       data[i] = Nothing /\ data'[i] # Nothing => ~data'[i].pct]_vars
==============================================================================
