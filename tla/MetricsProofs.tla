---------------------------- MODULE MetricsProofs ----------------------------
(***************************************************************************)
(* Proofs about Metrics, for any instances, intervals, ages and numbers of *)
(* faults: its types, what the exporter shows between two passes, and when *)
(* a percentage is shown.                                                  *)
(***************************************************************************)
EXTENDS Metrics, TLAPS

PollRec == [step : {"idle", "rows", "set", "del", "sweep"}, left : SUBSET Instances,
            alive : SUBSET Instances, cur : Instances \cup {Nothing},
            age : 0..MaxPass, wait : 0..Interval]
Samples == [pct : BOOLEAN]
Boots   == {Nothing, "same boot", "booted since"}

\* There is a sample to compare with as long as there is one to show.
SampleInv == \A i \in Instances : data[i] = Nothing => prev[i] = Nothing

\* A worker that is not there has nothing; one that is idle shows what it has
\* listed; a sweep has left what else it shows; a pass goes through its list.
PassInv ==
  /\ ~up => poll.step = "idle" /\ Known = {}
  /\ poll.step = "idle" => Known \subseteq poll.alive
  /\ poll.step = "sweep" => Known \subseteq poll.alive \cup poll.left
  /\ poll.step \in {"rows", "set", "del"} => poll.left \subseteq poll.alive
  /\ poll.step \in {"set", "del"} => poll.cur \in Instances

IInv == TypeOK /\ SampleInv /\ PassInv

LEMMA Types ==
  ASSUME IInv
  PROVE  /\ poll \in PollRec /\ data \in [Instances -> Samples \cup {Nothing}]
         /\ prev \in [Instances -> Boots] /\ redis \in [Instances -> Stored \cup {Nothing}]
         /\ faults \in 0..MaxFaults /\ up \in BOOLEAN /\ active \subseteq Instances
         /\ state \in [Instances -> {"running", "other"}]
         /\ Interval \in Nat \ {0} /\ MaxPass \in Nat /\ MaxAge \in Nat /\ MaxFaults \in Nat
BY ConstantsAssumption DEF IInv, TypeOK, PollRec, Boots, Samples

LEMMA NothingElse ==
  Nothing \notin Samples /\ Nothing # "same boot" /\ Nothing # "booted since"
BY NothingAssumption DEF Samples

LEMMA NoPassRec ==
  /\ NoPass \in PollRec /\ NoPass.step = "idle" /\ NoPass.alive = {} /\ NoPass.left = {}
<1>1. Interval \in 0..Interval /\ 0 \in 0..MaxPass
  BY ConstantsAssumption
<1> QED BY <1>1 DEF NoPass, PollRec

LEMMA FaultEffect == ASSUME IInv, Fault \/ UNCHANGED faults PROVE faults' \in 0..MaxFaults
BY Types DEF Fault

\* A step that leaves the samples alone.
LEMMA PollOnly ==
  ASSUME IInv, poll' \in PollRec, redis' \in [Instances -> Stored \cup {Nothing}],
         faults' \in 0..MaxFaults, UNCHANGED <<guests, store, up>>, PassInv'
  PROVE  IInv'
<1>1. TypeOK'
  BY DEF IInv, TypeOK, PollRec, guests, store
<1>2. SampleInv'
  BY DEF IInv, SampleInv, store
<1> QED BY <1>1, <1>2 DEF IInv

LEMMA KnownKept == ASSUME UNCHANGED store PROVE Known' = Known
BY DEF store, Known

LEMMA InitInv == Init => IInv
<1> SUFFICES ASSUME Init PROVE IInv
  OBVIOUS
<1>1. TypeOK
  <2>1. faults \in 0..MaxFaults
    BY ConstantsAssumption DEF Init
  <2>2. poll \in PollRec
    BY NoPassRec DEF Init
  <2> QED BY <2>1, <2>2 DEF Init, TypeOK, PollRec
<1>2. SampleInv
  BY DEF Init, SampleInv
<1>3. PassInv
  BY NoPassRec DEF Init, PassInv, Known
<1> QED BY <1>1, <1>2, <1>3 DEF IInv

LEMMA AgedPayload ==
  ASSUME IInv, NEW p \in Stored \cup {Nothing}
  PROVE  Expired(p) \in Stored \cup {Nothing}
<1>1. CASE p = Nothing \/ p.ttl = 0
  BY <1>1 DEF Expired
<1>2. CASE ~(p = Nothing \/ p.ttl = 0)
  <2>1. p \in Stored /\ p.age \in Ages /\ p.ttl \in 0..MaxAge /\ p.ttl # 0
    BY <1>2 DEF Stored
  <2>2. Older(p.age) \in Ages /\ p.ttl - 1 \in 0..MaxAge
    BY <2>1, Types DEF Older, Ages
  <2> DEFINE q == [p EXCEPT !.age = Older(p.age)]
             r == [q EXCEPT !.ttl = q.ttl - 1]
  <2>3. q \in Stored /\ q.ttl = p.ttl
    BY <2>1, <2>2 DEF Stored
  <2>4. r \in Stored
    BY <2>2, <2>3 DEF Stored
  <2>5. Expired(p) = r
    BY <1>2 DEF Expired, Aged
  <2> QED BY <2>4, <2>5
<1> QED BY <1>1, <1>2

LEMMA TickInv == ASSUME IInv, Tick PROVE IInv'
<1>1. redis' \in [Instances -> Stored \cup {Nothing}]
  BY Types, AgedPayload DEF Tick
<1>2. /\ poll' \in PollRec /\ poll'.step = poll.step /\ poll'.alive = poll.alive
      /\ poll'.left = poll.left /\ poll'.cur = poll.cur
  <2> DEFINE wait == IF poll.wait = 0 THEN 0 ELSE poll.wait - 1
             age == IF poll.step = "idle" THEN 0 ELSE poll.age + 1
  <2>1. wait \in 0..Interval /\ age \in 0..MaxPass
    BY Types DEF Tick, PollRec, IInv, PassInv
  <2>2. poll' = [poll EXCEPT !.wait = wait, !.age = age]
    BY DEF Tick
  <2> HIDE DEF wait, age
  <2> QED BY <2>1, <2>2, Types DEF PollRec
<1>3. PassInv'
  BY <1>2, KnownKept DEF Tick, IInv, PassInv
<1> QED BY <1>1, <1>2, <1>3, Types, PollOnly DEF Tick

LEMMA ListInv == ASSUME IInv, ListRunning PROVE IInv'
<1>1. /\ up /\ poll.step = "idle" /\ UNCHANGED <<guests, store, redis, up>>
      /\ faults' \in 0..MaxFaults /\ Known' = Known
  BY FaultEffect, KnownKept DEF ListRunning
<1>2. CASE \E S \in SUBSET Instances :
             poll' = [NoPass EXCEPT !.step = "rows", !.left = S, !.alive = S]
  <2>1. PICK S \in SUBSET Instances :
          poll' = [NoPass EXCEPT !.step = "rows", !.left = S, !.alive = S]
    BY <1>2
  <2>2. poll' \in PollRec /\ poll'.step = "rows" /\ poll'.left = S /\ poll'.alive = S
    BY <2>1, NoPassRec DEF PollRec
  <2>3. PassInv'
    BY <1>1, <2>2 DEF PassInv
  <2> QED BY <1>1, <2>2, <2>3, Types, PollOnly
<1>3. CASE poll' = [poll EXCEPT !.wait = Interval]
  <2>1. Interval \in 0..Interval
    BY Types
  <2>2. /\ poll' \in PollRec /\ poll'.step = poll.step /\ poll'.left = poll.left
        /\ poll'.alive = poll.alive /\ poll'.cur = poll.cur
    BY <1>3, <2>1, Types DEF PollRec
  <2>3. PassInv'
    BY <1>1, <2>2 DEF IInv, PassInv
  <2> QED BY <1>1, <2>2, <2>3, Types, PollOnly
<1> QED BY <1>2, <1>3 DEF ListRunning

LEMMA PutEffect ==
  ASSUME IInv, NEW i \in Instances, Put(i)
  PROVE  /\ data' \in [Instances -> Samples \cup {Nothing}] /\ prev' \in [Instances -> Boots]
         /\ SampleInv' /\ Known' \subseteq Known \cup {i}
<1>1. PICK pct \in BOOLEAN : data' = [data EXCEPT ![i] = Sample(pct)]
  <2>1. prev[i] \in Boots
    BY Types
  <2>2. Percentages(i) \subseteq BOOLEAN
    BY <2>1 DEF Percentages, Boots
  <2> QED BY <2>2 DEF Put
<1>2. Sample(pct) \in Samples /\ Sample(pct) # Nothing
  <2>1. Sample(pct) \in Samples
    BY DEF Sample, Samples
  <2> QED BY <2>1, NothingElse
<1>3. prev' = [prev EXCEPT ![i] = "same boot"]
  BY DEF Put
<1>4. data' \in [Instances -> Samples \cup {Nothing}] /\ prev' \in [Instances -> Boots]
  BY <1>1, <1>2, <1>3, Types DEF Boots
<1>5. \A j \in Instances : j # i => data'[j] = data[j] /\ prev'[j] = prev[j]
  BY <1>1, <1>3, Types
<1>6. data'[i] # Nothing
  BY <1>1, <1>2, Types
<1> QED BY <1>4, <1>5, <1>6 DEF IInv, SampleInv, Known

LEMMA DeleteEffect ==
  ASSUME IInv, NEW i \in Instances, Delete(i)
  PROVE  /\ data' \in [Instances -> Samples \cup {Nothing}] /\ prev' \in [Instances -> Boots]
         /\ SampleInv' /\ Known' = Known \ {i}
<1>1. /\ data' = [data EXCEPT ![i] = Nothing] /\ prev' = [prev EXCEPT ![i] = Nothing]
  BY DEF Delete
<1>2. data' \in [Instances -> Samples \cup {Nothing}] /\ prev' \in [Instances -> Boots]
  BY <1>1, Types DEF Boots
<1>3. \A j \in Instances : IF j = i THEN data'[j] = Nothing /\ prev'[j] = Nothing
                           ELSE data'[j] = data[j] /\ prev'[j] = prev[j]
  BY <1>1, Types
<1> QED BY <1>2, <1>3 DEF IInv, SampleInv, Known

\* A step of the poller that touches the samples.
LEMMA StoreStep ==
  ASSUME IInv, data' \in [Instances -> Samples \cup {Nothing}], prev' \in [Instances -> Boots],
         SampleInv', poll' \in PollRec, redis' \in [Instances -> Stored \cup {Nothing}],
         faults' \in 0..MaxFaults, UNCHANGED <<guests, up>>, PassInv'
  PROVE  IInv'
<1>1. TypeOK'
  BY DEF IInv, TypeOK, PollRec, Samples, Boots, guests
<1> QED BY <1>1 DEF IInv

LEMMA StatsInv == ASSUME IInv, NEW i \in Instances, GetInstanceStats(i) PROVE IInv'
<1>1. /\ up /\ poll.step = "rows" /\ i \in poll.left /\ UNCHANGED <<guests, redis, up>>
      /\ faults' \in 0..MaxFaults
  BY FaultEffect DEF GetInstanceStats
<1>2. PICK step \in {"set", "del"} :
        poll' = [poll EXCEPT !.step = step, !.cur = i, !.left = poll.left \ {i}]
  BY DEF GetInstanceStats
<1>3. /\ poll' \in PollRec /\ poll'.step = step /\ poll'.cur = i
      /\ poll'.left = poll.left \ {i} /\ poll'.alive = poll.alive
  BY <1>2, Types DEF PollRec
<1>4. PassInv'
  BY <1>1, <1>3 DEF IInv, PassInv
<1> QED BY <1>1, <1>3, <1>4, Types, PutEffect, DeleteEffect, StoreStep DEF GetInstanceStats

LEMMA DeletedKey ==
  ASSUME IInv, NEW i \in Instances, RedisDel(i)
  PROVE  redis' \in [Instances -> Stored \cup {Nothing}] /\ faults' \in 0..MaxFaults
<1>1. redis' = [redis EXCEPT ![i] = Nothing] \/ redis' = redis
  BY DEF RedisDel
<1>2. redis' \in [Instances -> Stored \cup {Nothing}]
  BY <1>1, Types
<1> QED BY <1>2, FaultEffect DEF RedisDel

LEMMA KeyInv == ASSUME IInv, RedisSet \/ DropFailed PROVE IInv'
<1>1. /\ poll.step \in {"set", "del"} /\ UNCHANGED <<guests, store, up>> /\ Known' = Known
      /\ poll.cur \in Instances
      /\ poll' = [poll EXCEPT !.step = "rows", !.cur = Nothing]
  BY KnownKept DEF RedisSet, DropFailed, RowDone, IInv, PassInv
<1>2. /\ poll' \in PollRec /\ poll'.step = "rows" /\ poll'.left = poll.left
      /\ poll'.alive = poll.alive
  BY <1>1, Types DEF PollRec
<1>3. PassInv'
  BY <1>1, <1>2 DEF IInv, PassInv
<1>4. redis' \in [Instances -> Stored \cup {Nothing}] /\ faults' \in 0..MaxFaults
  <2>1. CASE RedisSet
    <3>1. poll.age \in Ages /\ Lifetime \in 0..MaxAge
      BY Types DEF PollRec, Ages, Lifetime
    <3>2. [age |-> poll.age, ttl |-> Lifetime] \in Stored
      BY <3>1 DEF Stored
    <3>3. redis' = [redis EXCEPT ![poll.cur] = [age |-> poll.age, ttl |-> Lifetime]] \/ redis' = redis
      BY <2>1 DEF RedisSet
    <3>4. redis' \in [Instances -> Stored \cup {Nothing}]
      BY <1>1, <3>2, <3>3, Types
    <3> QED BY <2>1, <3>4, FaultEffect DEF RedisSet
  <2>2. CASE DropFailed
    BY <1>1, <2>2, DeletedKey DEF DropFailed
  <2> QED BY <2>1, <2>2
<1> QED BY <1>1, <1>2, <1>3, <1>4, PollOnly

LEMMA SweepInv ==
  ASSUME IInv, BeginSweep \/ EndPass \/ \E i \in Instances : Sweep(i)
  PROVE  IInv'
<1>1. CASE BeginSweep
  <2>1. /\ poll' = [poll EXCEPT !.step = "sweep", !.left = Stale]
        /\ UNCHANGED <<guests, store, redis, up, faults>> /\ up /\ Known' = Known
        /\ Stale \in SUBSET Instances /\ Stale = Known \ poll.alive
    BY <1>1, KnownKept DEF BeginSweep, Stale, Known
  <2>2. /\ poll' \in PollRec /\ poll'.step = "sweep" /\ poll'.left = Stale
        /\ poll'.alive = poll.alive
    BY <2>1, Types DEF PollRec
  <2>3. PassInv'
    BY <2>1, <2>2 DEF PassInv
  <2> QED BY <2>1, <2>2, <2>3, Types, PollOnly
<1>2. CASE EndPass
  <2>1. /\ poll' = [poll EXCEPT !.step = "idle", !.age = 0] /\ poll.step = "sweep"
        /\ UNCHANGED <<guests, store, redis, up, faults>> /\ up /\ Known' = Known
        /\ 0 \in 0..MaxPass /\ poll.left = {}
    BY <1>2, KnownKept, Types DEF EndPass
  <2>2. poll' \in PollRec /\ poll'.step = "idle" /\ poll'.alive = poll.alive
    BY <2>1, Types DEF PollRec
  <2>3. PassInv'
    BY <2>1, <2>2 DEF IInv, PassInv
  <2> QED BY <2>1, <2>2, <2>3, Types, PollOnly
<1>3. ASSUME NEW i \in Instances, Sweep(i) PROVE IInv'
  <2>1. /\ poll' = [poll EXCEPT !.left = poll.left \ {i}] /\ poll.step = "sweep" /\ up
        /\ Delete(i) /\ RedisDel(i) /\ UNCHANGED <<guests, up>>
    BY <1>3 DEF Sweep
  <2>2. /\ poll' \in PollRec /\ poll'.step = "sweep" /\ poll'.left = poll.left \ {i}
        /\ poll'.alive = poll.alive
    BY <2>1, Types DEF PollRec
  <2>3. Known' = Known \ {i}
    BY <2>1, DeleteEffect
  <2>4. PassInv'
    BY <2>1, <2>2, <2>3 DEF IInv, PassInv
  <2> QED BY <2>1, <2>2, <2>4, DeleteEffect, DeletedKey, StoreStep
<1> QED BY <1>1, <1>2, <1>3

LEMMA RestInv ==
  ASSUME IInv, Die \/ Restart \/ \E i \in Instances : SetState(i) \/ PowerOff(i) \/ Boot(i)
  PROVE  IInv'
<1>1. CASE Die
  <2>1. /\ up' = FALSE /\ poll' = NoPass /\ UNCHANGED <<guests, redis>>
        /\ data' = [i \in Instances |-> Nothing] /\ prev' = [i \in Instances |-> Nothing]
        /\ faults' \in 0..MaxFaults
    BY <1>1, FaultEffect DEF Die
  <2>2. TypeOK'
    BY <2>1, Types, NoPassRec DEF IInv, TypeOK, PollRec, guests
  <2>3. SampleInv' /\ Known' = {}
    BY <2>1 DEF SampleInv, Known
  <2>4. PassInv'
    BY <2>1, <2>3, NoPassRec DEF PassInv
  <2> QED BY <2>2, <2>3, <2>4 DEF IInv
<1>2. CASE Restart
  <2>1. /\ up' = TRUE /\ ~up /\ poll' = NoPass /\ UNCHANGED <<guests, store, redis, faults>>
        /\ Known' = Known
    BY <1>2, KnownKept DEF Restart
  <2>2. TypeOK'
    BY <2>1, Types, NoPassRec DEF IInv, TypeOK, PollRec, guests, store
  <2>3. SampleInv'
    BY <2>1 DEF IInv, SampleInv, store
  <2>4. PassInv'
    BY <2>1, NoPassRec DEF IInv, PassInv
  <2> QED BY <2>2, <2>3, <2>4 DEF IInv
<1>3. ASSUME NEW i \in Instances, SetState(i) \/ PowerOff(i) PROVE IInv'
  <2>1. UNCHANGED <<store, redis, poll, up, faults>> /\ Known' = Known
    BY <1>3, KnownKept DEF SetState, PowerOff
  <2>2. state' \in [Instances -> {"running", "other"}] /\ active' \subseteq Instances
    BY <1>3, Types DEF SetState, PowerOff
  <2>3. TypeOK'
    BY <2>1, <2>2 DEF IInv, TypeOK, store
  <2>4. SampleInv' /\ PassInv'
    BY <2>1 DEF IInv, SampleInv, PassInv, store
  <2> QED BY <2>3, <2>4 DEF IInv
<1>4. ASSUME NEW i \in Instances, Boot(i) PROVE IInv'
  <2>1. /\ UNCHANGED <<state, data, redis, poll, up, faults>> /\ active' \subseteq Instances
        /\ prev' = [prev EXCEPT ![i] = IF prev[i] = Nothing THEN prev[i] ELSE "booted since"]
    BY <1>4, Types DEF Boot
  <2>2. /\ prev' \in [Instances -> Boots]
        /\ \A j \in Instances : prev[j] = Nothing => prev'[j] = Nothing
    BY <2>1, Types DEF Boots
  <2>3. TypeOK'
    BY <2>1, <2>2 DEF IInv, TypeOK, Boots
  <2>4. SampleInv' /\ Known' = Known
    BY <2>1, <2>2 DEF IInv, SampleInv, Known
  <2>5. PassInv'
    BY <2>1, <2>4 DEF IInv, PassInv
  <2> QED BY <2>3, <2>4, <2>5 DEF IInv
<1> QED BY <1>1, <1>2, <1>3, <1>4

LEMMA NextInv == IInv /\ [Next]_vars => IInv'
<1> SUFFICES ASSUME IInv, [Next]_vars PROVE IInv'
  OBVIOUS
<1>1. CASE UNCHANGED vars
  BY <1>1 DEF vars, guests, store, IInv, TypeOK, SampleInv, PassInv, Known
<1> QED BY <1>1, TickInv, ListInv, StatsInv, KeyInv, SweepInv, RestInv DEF Next, Poll

\* Where a pass of the poller stands, and the samples it has taken: an
\* inductive invariant.
THEOREM Invariance == Spec => []IInv
<1> QED BY InitInv, NextInv, PTL DEF Spec

\* Every variable keeps its type: the ages and lifetimes of payloads stay in
\* their ranges, and each call of a pass is about an instance.
THEOREM TypeCorrect == Spec => []TypeOK
<1>1. IInv => TypeOK
  BY DEF IInv
<1> QED BY <1>1, Invariance, PTL

\* Between two passes the exporter shows only instances of the last list: what
\* a pass adds is of its list, and its sweep takes out everything else before
\* it ends, whatever failed.
THEOREM ExporterShowsTheList == Spec => []GaugesWerePolled
<1>1. IInv => GaugesWerePolled
  BY DEF IInv, PassInv, GaugesWerePolled
<1> QED BY <1>1, Invariance, PTL

\* An instance that was not shown is shown without a percentage at first: the
\* sample to compare with never outlives the one that is shown.
THEOREM FirstSampleHasNoLoad == Spec => NoPercentageAcrossAGap
<1>1. IInv /\ [Next]_vars =>
        [\A i \in Instances : data[i] = Nothing /\ data'[i] # Nothing => ~data'[i].pct]_vars
  <2> SUFFICES ASSUME IInv, Next, NEW i \in Instances, data[i] = Nothing, data'[i] # Nothing
               PROVE  ~data'[i].pct
    OBVIOUS
  <2>1. data' # data
    OBVIOUS
  <2>2. ASSUME NEW j \in Instances, Put(j) PROVE ~data'[i].pct
    <3>1. PICK pct \in Percentages(j) : data' = [data EXCEPT ![j] = Sample(pct)]
      BY <2>2 DEF Put
    <3>2. i = j /\ data'[i] = Sample(pct)
      BY <3>1, Types
    <3>3. prev[j] = Nothing
      BY <3>2 DEF IInv, SampleInv
    <3>4. Percentages(j) = {FALSE}
      BY <3>3, NothingElse DEF Percentages
    <3> QED BY <3>1, <3>2, <3>4 DEF Sample
  <2>3. ASSUME NEW j \in Instances, Delete(j) PROVE FALSE
    BY <2>3, Types DEF Delete
  <2>4. ~Die
    BY DEF Die
  <2> QED BY <2>1, <2>2, <2>3, <2>4
          DEF Next, Poll, Tick, ListRunning, GetInstanceStats, RedisSet, DropFailed, BeginSweep,
              Sweep, EndPass, SetState, PowerOff, Boot, Restart, store
<1> QED BY <1>1, Invariance, PTL DEF Spec, NoPercentageAcrossAGap
==============================================================================
