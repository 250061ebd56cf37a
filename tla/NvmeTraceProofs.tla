-------------------------- MODULE NvmeTraceProofs --------------------------
(***************************************************************************)
(* The zone probes, for any number of CPUs, queues, tags and commands.     *)
(***************************************************************************)
EXTENDS NvmeTrace, FiniteSetTheorems, TLAPS

(* The counter a probe increases.                                          *)
Key(c) == CounterOf(RequestOn(c))

Counting(c) == cpu[c].step = "counter"

CPUType == {Idle} \cup [step : {"counter", "data"}, slot : Slots, seen : Nat]

EntryType == [zlbas : ZoneStarts, number : Nat, latency : Nat]

ProbeTypes ==
  /\ inflight \in [Slots -> Requests \cup {None}]
  /\ cpu \in [CPUs -> CPUType]
  /\ \A c \in CPUs : Busy(c) => RequestOn(c) # None
  /\ \A c \in CPUs : cpu[c].step = "data" => RequestOn(c).op \in RwOps

MapTypes ==
  /\ clock \in 1 .. MaxClock
  /\ commands \in 0 .. MaxCommands
  /\ ctr \in [Counters -> Nat]
  /\ z_data_map \in [Counters -> Nat]
  /\ reset_z_track_map \in [Tags -> ZoneStarts]
  /\ reset_lat_track_map \in [Tags -> 0 .. clock]
  /\ z_reset_lat_map \subseteq EntryType
  /\ IsFiniteSet(z_reset_lat_map) /\ Cardinality(z_reset_lat_map) <= MapKeys

HistoryTypes ==
  /\ setups \in [Counters -> 0 .. commands]
  /\ raced \subseteq Counters
  /\ started \in [Slots -> 0 .. clock]
  /\ disturbed \subseteq Slots
  /\ completed \in Nat
  /\ calm \in BOOLEAN

Types == ProbeTypes /\ MapTypes /\ HistoryTypes

LEMMA RequestFacts ==
  ASSUME TraceAssumption
  PROVE  /\ \A r \in Requests : /\ r.op \in Ops /\ r.zlbas \in ZoneStarts /\ r.size \in Nat
                               /\ r # None /\ CounterOf(r) \in Counters
                               /\ CounterOf(r) = <<r.zlbas, r.op>>
         /\ None.op \notin Ops
         /\ {"reset", "reset_all", "read", "write"} = Ops /\ RwOps = {"read", "write"}
         /\ \A s \in Slots : TagOf(s) \in Tags
         /\ \A z \in ZoneStarts : z \in Nat /\ <<z, "reset">> \in Counters
         /\ \A z \in ZoneStarts : ResetOf(z) \in Requests
<1>1. Ops = {"reset", "reset_all", "read", "write"} /\ RwOps = {"read", "write"}
  BY DEF Ops, RwOps
<1>2. None.op = "none"
  BY DEF None
<1>3. \A r \in Requests : r.op \in Ops /\ r.zlbas \in ZoneStarts /\ r.size \in Nat
  <2>1. Sizes \subseteq Nat /\ 0 \in ZoneStarts
    BY DEF TraceAssumption
  <2>2. \A r \in [op : RwOps, zlbas : ZoneStarts, size : Sizes] :
          r.op \in Ops /\ r.zlbas \in ZoneStarts /\ r.size \in Nat
    BY <1>1, <2>1
  <2>3. \A zlbas \in ZoneStarts :
          /\ ResetOf(zlbas).op \in Ops /\ ResetOf(zlbas).zlbas \in ZoneStarts
          /\ ResetOf(zlbas).size \in Nat
    BY <1>1 DEF ResetOf
  <2>4. QED
    BY <1>1, <2>1, <2>2, <2>3 DEF Requests
<1>4. \A r \in Requests : r # None
  BY <1>1, <1>2, <1>3
<1>5. \A r \in Requests : CounterOf(r) \in Counters /\ CounterOf(r) = <<r.zlbas, r.op>>
  BY <1>3 DEF CounterOf, Counters
<1>6. \A s \in Slots : TagOf(s) \in Tags
  BY DEF TraceAssumption, TagOf
<1>7. \A z \in ZoneStarts : z \in Nat /\ <<z, "reset">> \in Counters
  BY <1>1 DEF TraceAssumption, Counters
<1>8. \A z \in ZoneStarts : ResetOf(z) \in Requests
  BY DEF Requests
<1>9. QED
  BY <1>1, <1>2, <1>3, <1>4, <1>5, <1>6, <1>7, <1>8

LEMMA ProbeFacts ==
  ASSUME TraceAssumption, Types
  PROVE  /\ \A c \in CPUs : Busy(c) <=> cpu[c].step \in {"counter", "data"}
         /\ \A c \in CPUs :
              Busy(c) => /\ cpu[c].slot \in Slots /\ cpu[c].seen \in Nat
                         /\ RequestOn(c) = inflight[cpu[c].slot]
                         /\ RequestOn(c) \in Requests
                         /\ Key(c) \in Counters
                         /\ Key(c) = <<RequestOn(c).zlbas, RequestOn(c).op>>
<1>1. \A c \in CPUs : Busy(c) <=> cpu[c].step \in {"counter", "data"}
  BY DEF Types, ProbeTypes, CPUType, Busy, Idle
<1>2. \A c \in CPUs : Busy(c) => cpu[c].slot \in Slots /\ cpu[c].seen \in Nat
  BY DEF Types, ProbeTypes, CPUType, Busy, Idle
<1>3. \A c \in CPUs : Busy(c) => RequestOn(c) \in Requests
  BY <1>2 DEF Types, ProbeTypes, RequestOn
<1>4. QED
  BY <1>1, <1>2, <1>3, RequestFacts DEF Key, RequestOn

-----------------------------------------------------------------------------
(* What the probes do to each other.                                       *)

Begins(c, s, r) ==
  /\ c \in CPUs /\ s \in Slots /\ r \in Requests
  /\ ~Busy(c) /\ inflight[s] = None
  /\ inflight' = [inflight EXCEPT ![s] = r]
  /\ cpu' = [cpu EXCEPT ![c] = [step |-> "counter", slot |-> s, seen |-> ctr[CounterOf(r)]]]
  /\ Busy(c)' /\ Counting(c)' /\ cpu'[c].slot = s /\ cpu'[c].seen = ctr[CounterOf(r)]
  /\ RequestOn(c)' = r /\ Key(c)' = CounterOf(r)
  /\ \A d \in CPUs : Busy(d) => cpu[d].slot # s
  /\ \A d \in CPUs \ {c} : cpu'[d] = cpu[d]

Counted(c) ==
  /\ c \in CPUs /\ Busy(c) /\ Counting(c)
  /\ UNCHANGED inflight
  /\ \/ /\ HasRoom(ctr, Key(c)) /\ UNCHANGED full
        /\ ctr' = [ctr EXCEPT ![Key(c)] = cpu[c].seen + 1]
     \/ ~HasRoom(ctr, Key(c)) /\ UNCHANGED ctr /\ full' = full \cup {Key(c)}
  /\ \A d \in CPUs \ {c} : cpu'[d] = cpu[d]
  /\ \/ ~Busy(c)' /\ cpu'[c] = Idle
     \/ /\ cpu'[c].step = "data" /\ cpu'[c].slot = cpu[c].slot
        /\ RequestOn(c).op \in RwOps

LEMMA SetupEffect ==
  ASSUME TraceAssumption, Types, NEW c \in CPUs, SetupProbe(c)
  PROVE  \E s \in Slots, r \in Requests :
           /\ Begins(c, s, r)
           /\ setups' = [setups EXCEPT ![CounterOf(r)] = @ + 1]
           /\ LET rivals == {d \in CPUs : Busy(d) /\ CounterOf(RequestOn(d)) = CounterOf(r)}
                  others == {q \in ResetSlots : TagOf(q) = TagOf(s) \/ inflight[q].zlbas = r.zlbas}
              IN  /\ raced' = IF rivals = {} THEN raced ELSE raced \cup {CounterOf(r)}
                  /\ disturbed' = IF r.op = "reset" /\ others # {}
                                  THEN disturbed \cup others \cup {s} ELSE disturbed
                  /\ calm' = (calm /\ (r.op = "reset" => rivals = {} /\ others = {}))
<1>1. PICK s \in Slots, r \in Requests :
        /\ inflight[s] = None
        /\ inflight' = [inflight EXCEPT ![s] = r]
        /\ cpu' = [cpu EXCEPT ![c] = [step |-> "counter", slot |-> s,
                                      seen |-> ctr[CounterOf(r)]]]
        /\ setups' = [setups EXCEPT ![CounterOf(r)] = @ + 1]
        /\ LET rivals == {d \in CPUs : Busy(d) /\ CounterOf(RequestOn(d)) = CounterOf(r)}
               others == {q \in ResetSlots : \/ TagOf(q) = TagOf(s)
                                             \/ inflight[q].zlbas = r.zlbas}
           IN  /\ raced' = IF rivals = {} THEN raced ELSE raced \cup {CounterOf(r)}
               /\ disturbed' = IF r.op = "reset" /\ others # {}
                               THEN disturbed \cup others \cup {s} ELSE disturbed
               /\ calm' = (calm /\ (r.op = "reset" => rivals = {} /\ others = {}))
  BY Zenon DEF SetupProbe
<1>2. ~Busy(c)
  BY DEF SetupProbe
<1>3. cpu'[c] = [step |-> "counter", slot |-> s, seen |-> ctr[CounterOf(r)]]
  BY <1>1 DEF Types, ProbeTypes
<1>4. inflight'[s] = r
  BY <1>1 DEF Types, ProbeTypes
<1>5. Busy(c)' /\ Counting(c)' /\ RequestOn(c)' = r /\ Key(c)' = CounterOf(r)
  BY <1>3, <1>4 DEF Busy, Counting, RequestOn, Key
<1>6. \A d \in CPUs \ {c} : cpu'[d] = cpu[d]
  BY <1>1 DEF Types, ProbeTypes
<1>7. \A d \in CPUs : Busy(d) => cpu[d].slot # s
  BY <1>1 DEF Types, ProbeTypes, RequestOn
<1>8. Begins(c, s, r)
  BY <1>1, <1>2, <1>3, <1>5, <1>6, <1>7 DEF Begins
<1>9. QED
  BY <1>1, <1>8, Zenon

LEMMA CountEffect ==
  ASSUME TraceAssumption, Types, NEW c \in CPUs,
         CountReadOrWrite(c) \/ CountReset(c) \/ CountResetAll(c)
  PROVE  Counted(c) /\ UNCHANGED z_data_map
<1>1. Busy(c) /\ Counting(c)
  BY DEF CountReadOrWrite, CountReset, CountResetAll, Busy, Counting
<1>2. /\ UNCHANGED <<inflight, z_data_map>>
      /\ \/ /\ HasRoom(ctr, Key(c)) /\ UNCHANGED full
            /\ ctr' = [ctr EXCEPT ![Key(c)] = cpu[c].seen + 1]
         \/ ~HasRoom(ctr, Key(c)) /\ UNCHANGED ctr /\ full' = full \cup {Key(c)}
  BY DEF CountReadOrWrite, CountReset, CountResetAll, UpdateCounter, Key
<1>3. \A d \in CPUs \ {c} : cpu'[d] = cpu[d]
  BY DEF CountReadOrWrite, CountReset, CountResetAll, Types, ProbeTypes
<1>4. \/ ~Busy(c)' /\ cpu'[c] = Idle
      \/ /\ cpu'[c].step = "data" /\ cpu'[c].slot = cpu[c].slot
         /\ RequestOn(c).op \in RwOps
  <2>1. CASE CountReadOrWrite(c)
    <3>1. cpu[c] \in [step : {"counter", "data"}, slot : Slots, seen : Nat]
      BY <1>1 DEF Types, ProbeTypes, CPUType, Busy, Idle
    <3>2. PICK n : cpu' = [cpu EXCEPT ![c].step = "data", ![c].seen = n]
      BY <2>1 DEF CountReadOrWrite
    <3>3. cpu'[c].step = "data" /\ cpu'[c].slot = cpu[c].slot
      BY <3>1, <3>2 DEF Types, ProbeTypes
    <3>4. QED
      BY <2>1, <3>3 DEF CountReadOrWrite
  <2>2. CASE CountReset(c) \/ CountResetAll(c)
    BY <2>2 DEF CountReset, CountResetAll, Types, ProbeTypes, Busy, Idle
  <2>3. QED
    BY <2>1, <2>2
<1>5. QED
  BY <1>1, <1>2, <1>3, <1>4 DEF Counted

(* The request of a probe stays in its slot until the probe is done.       *)
LEMMA RequestsKept ==
  ASSUME TraceAssumption, Types, [Next]_vars
  PROVE  \A c \in CPUs : Busy(c) /\ Busy(c)' =>
           /\ cpu'[c].slot = cpu[c].slot
           /\ RequestOn(c)' = RequestOn(c) /\ Key(c)' = Key(c)
<1> SUFFICES ASSUME NEW c \in CPUs, Busy(c), Busy(c)'
             PROVE  /\ cpu'[c].slot = cpu[c].slot
                    /\ inflight'[cpu[c].slot] = inflight[cpu[c].slot]
  BY DEF RequestOn, Key
<1>1. ASSUME NEW d \in CPUs, SetupProbe(d)
      PROVE  /\ cpu'[c].slot = cpu[c].slot
             /\ inflight'[cpu[c].slot] = inflight[cpu[c].slot]
  <2>1. PICK s \in Slots, r \in Requests : Begins(d, s, r)
    BY <1>1, SetupEffect
  <2>2. c # d /\ cpu[c].slot # s /\ cpu[c].slot \in Slots
    BY <2>1, ProbeFacts DEF Begins
  <2>3. QED
    BY <2>1, <2>2 DEF Begins, Types, ProbeTypes
<1>2. ASSUME NEW d \in CPUs, CountReadOrWrite(d) \/ CountReset(d) \/ CountResetAll(d)
      PROVE  /\ cpu'[c].slot = cpu[c].slot
             /\ inflight'[cpu[c].slot] = inflight[cpu[c].slot]
  BY <1>2, CountEffect DEF Counted
<1>3. ASSUME NEW d \in CPUs, AddData(d)
      PROVE  /\ cpu'[c].slot = cpu[c].slot
             /\ inflight'[cpu[c].slot] = inflight[cpu[c].slot]
  BY <1>3 DEF AddData, Types, ProbeTypes, Busy, Idle
<1>4. ASSUME NEW s \in Slots, CompleteReset(s) \/ CompleteOther(s)
      PROVE  /\ cpu'[c].slot = cpu[c].slot
             /\ inflight'[cpu[c].slot] = inflight[cpu[c].slot]
  <2>1. cpu' = cpu /\ inflight' = [inflight EXCEPT ![s] = None] /\ ~BeingSetUp(s)
    BY <1>4 DEF CompleteReset, CompleteOther
  <2>2. cpu[c].slot # s
    BY <2>1 DEF BeingSetUp
  <2>3. QED
    BY <2>1, <2>2, ProbeFacts DEF Types, ProbeTypes
<1>5. CASE Tick \/ UNCHANGED vars
  BY <1>5 DEF Tick, vars
<1>6. QED
  BY <1>1, <1>2, <1>3, <1>4, <1>5 DEF Next

-----------------------------------------------------------------------------
(* Types are kept.                                                         *)

LEMMA InitTypes ==
  ASSUME TraceAssumption, Init
  PROVE  Types
<1>1. PICK early \in SUBSET Slots, z \in ZoneStarts :
        /\ inflight = [s \in Slots |-> IF s \in early
                                       THEN ResetOf(z)
                                       ELSE None]
        /\ disturbed = early
        /\ calm = (early = {})
  BY DEF Init
<1>2. \A c \in CPUs : cpu[c] = Idle /\ ~Busy(c) /\ cpu[c].step # "data"
  BY DEF Init, Busy, Idle
<1>3. ProbeTypes
  <2>1. inflight \in [Slots -> Requests \cup {None}]
    BY <1>1, RequestFacts
  <2>2. cpu \in [CPUs -> CPUType]
    BY DEF Init, CPUType
  <2>3. QED
    BY <1>2, <2>1, <2>2 DEF ProbeTypes
<1>4. MapTypes
  BY FS_EmptySet DEF Init, MapTypes, TraceAssumption
<1>5. HistoryTypes
  BY <1>1 DEF Init, HistoryTypes
<1>6. QED
  BY <1>3, <1>4, <1>5 DEF Types

(* A probe begins by SetupProbe, and goes on with data for reads and       *)
(* writes only.                                                            *)
LEMMA ProbeChanges ==
  ASSUME TraceAssumption, Types, [Next]_vars, NEW c \in CPUs
  PROVE  /\ Busy(c)' => Busy(c) \/ \E s \in Slots, r \in Requests : Begins(c, s, r)
         /\ Counting(c)' => \/ Counting(c) /\ cpu'[c] = cpu[c]
                            \/ \E s \in Slots, r \in Requests : Begins(c, s, r)
         /\ cpu'[c].step = "data" =>
              cpu[c].step = "data" \/ (Busy(c) /\ RequestOn(c).op \in RwOps)
<1> DEFINE Goal ==
      /\ Busy(c)' => Busy(c) \/ \E s \in Slots, r \in Requests : Begins(c, s, r)
      /\ Counting(c)' => \/ Counting(c) /\ cpu'[c] = cpu[c]
                         \/ \E s \in Slots, r \in Requests : Begins(c, s, r)
      /\ cpu'[c].step = "data" =>
           cpu[c].step = "data" \/ (Busy(c) /\ RequestOn(c).op \in RwOps)
<1>0. ASSUME cpu'[c] = cpu[c]
      PROVE  Goal
  BY <1>0 DEF Busy, Counting
<1>1. ASSUME NEW d \in CPUs, SetupProbe(d)
      PROVE  Goal
  <2>1. PICK s \in Slots, r \in Requests : Begins(d, s, r)
    BY <1>1, SetupEffect
  <2>2. CASE c = d
    <3>1. cpu'[c].step # "data"
      BY <2>1, <2>2 DEF Begins, Counting
    <3>2. QED
      BY <2>1, <2>2, <3>1
  <2>3. CASE c # d
    <3>1. cpu'[c] = cpu[c]
      BY <2>1, <2>3 DEF Begins
    <3>2. QED
      BY <1>0, <3>1
  <2>4. QED
    BY <2>2, <2>3
<1>2. ASSUME NEW d \in CPUs, CountReadOrWrite(d) \/ CountReset(d) \/ CountResetAll(d)
      PROVE  Goal
  <2>1. Counted(d)
    BY <1>2, CountEffect
  <2>2. CASE c = d
    <3>1. ~Counting(c)' /\ Busy(c)
      BY <2>1, <2>2 DEF Counted, Counting, Idle
    <3>2. cpu'[c].step = "data" => RequestOn(c).op \in RwOps
      BY <2>1, <2>2 DEF Counted, Idle
    <3>3. QED
      BY <3>1, <3>2
  <2>3. CASE c # d
    BY <1>0, <2>1, <2>3 DEF Counted
  <2>4. QED
    BY <2>2, <2>3
<1>3. ASSUME NEW d \in CPUs, AddData(d)
      PROVE  Goal
  <2>1. CASE c = d
    <3>1. cpu'[c] = Idle
      BY <1>3, <2>1 DEF AddData, Types, ProbeTypes
    <3>2. QED
      BY <3>1 DEF Idle, Busy, Counting
  <2>2. CASE c # d
    BY <1>0, <1>3, <2>2 DEF AddData, Types, ProbeTypes
  <2>3. QED
    BY <2>1, <2>2
<1>4. CASE UNCHANGED cpu
  BY <1>0, <1>4
<1>5. QED
  BY <1>1, <1>2, <1>3, <1>4 DEF Next, CompleteReset, CompleteOther, Tick, vars

LEMMA StepProbeTypes ==
  ASSUME TraceAssumption, Types, [Next]_vars
  PROVE  ProbeTypes'
<1>1. inflight' \in [Slots -> Requests \cup {None}]
  <2>1. ASSUME NEW s \in Slots, NEW r \in Requests \cup {None}, inflight' = [inflight EXCEPT ![s] = r]
        PROVE  inflight' \in [Slots -> Requests \cup {None}]
    BY <2>1 DEF Types, ProbeTypes
  <2>2. CASE UNCHANGED inflight
    BY <2>2 DEF Types, ProbeTypes
  <2>3. ASSUME NEW c \in CPUs, SetupProbe(c)
        PROVE  inflight' \in [Slots -> Requests \cup {None}]
    BY <2>1, <2>3, SetupEffect DEF Begins
  <2>4. ASSUME NEW s \in Slots, CompleteReset(s) \/ CompleteOther(s)
        PROVE  inflight' \in [Slots -> Requests \cup {None}]
    BY <2>1, <2>4 DEF CompleteReset, CompleteOther
  <2>5. QED
    BY <2>2, <2>3, <2>4 DEF Next, CountReadOrWrite, AddData, CountReset, CountResetAll, Tick, vars
<1>2. cpu' \in [CPUs -> CPUType]
  <2>1. ASSUME NEW c \in CPUs, NEW new \in CPUType, cpu' = [cpu EXCEPT ![c] = new]
        PROVE  cpu' \in [CPUs -> CPUType]
    BY <2>1 DEF Types, ProbeTypes
  <2>2. CASE UNCHANGED cpu
    BY <2>2 DEF Types, ProbeTypes
  <2>3. ASSUME NEW c \in CPUs, SetupProbe(c)
        PROVE  cpu' \in [CPUs -> CPUType]
    <3>1. PICK s \in Slots, r \in Requests : Begins(c, s, r)
      BY <2>3, SetupEffect
    <3>2. ctr[CounterOf(r)] \in Nat
      BY RequestFacts DEF Types, MapTypes
    <3>3. [step |-> "counter", slot |-> s, seen |-> ctr[CounterOf(r)]] \in CPUType
      BY <3>2 DEF CPUType
    <3>4. QED
      BY <2>1, <3>1, <3>3 DEF Begins
  <2>4. ASSUME NEW c \in CPUs, CountReadOrWrite(c)
        PROVE  cpu' \in [CPUs -> CPUType]
    <3>1. Busy(c)
      BY <2>4 DEF CountReadOrWrite, Busy
    <3>2. z_data_map[Key(c)] \in Nat
      BY <3>1, ProbeFacts DEF Types, MapTypes
    <3>3. PICK n \in Nat : cpu' = [cpu EXCEPT ![c].step = "data", ![c].seen = n]
      BY <2>4, <3>2 DEF CountReadOrWrite, Key
    <3>4. cpu[c] \in [step : {"counter", "data"}, slot : Slots, seen : Nat]
      BY <3>1 DEF Types, ProbeTypes, CPUType, Busy, Idle
    <3>5. PICK new \in CPUType : cpu' = [cpu EXCEPT ![c] = new]
      <4>1. [cpu[c] EXCEPT !.step = "data", !.seen = n] \in CPUType
        BY <3>4 DEF CPUType
      <4>2. cpu' = [cpu EXCEPT ![c] = [cpu[c] EXCEPT !.step = "data", !.seen = n]]
        BY <3>3 DEF Types, ProbeTypes
      <4>3. QED
        BY <4>1, <4>2
    <3>6. QED
      BY <2>1, <3>5
  <2>5. ASSUME NEW c \in CPUs, AddData(c) \/ CountReset(c) \/ CountResetAll(c)
        PROVE  cpu' \in [CPUs -> CPUType]
    <3>1. cpu' = [cpu EXCEPT ![c] = Idle] /\ Idle \in CPUType
      BY <2>5 DEF AddData, CountReset, CountResetAll, CPUType
    <3>2. QED
      BY <2>1, <3>1
  <2>6. QED
    BY <2>2, <2>3, <2>4, <2>5 DEF Next, CompleteReset, CompleteOther, Tick, vars
<1>3. \A c \in CPUs : Busy(c)' => RequestOn(c)' # None
  BY ProbeChanges, RequestsKept, RequestFacts DEF Begins, Types, ProbeTypes
<1>4. \A c \in CPUs : cpu'[c].step = "data" => RequestOn(c)'.op \in RwOps
  <2> SUFFICES ASSUME NEW c \in CPUs, cpu'[c].step = "data"
               PROVE  RequestOn(c)'.op \in RwOps
    OBVIOUS
  <2>1. Busy(c) /\ Busy(c)' /\ RequestOn(c).op \in RwOps
    BY ProbeChanges DEF Busy, Types, ProbeTypes
  <2>2. QED
    BY <2>1, RequestsKept
<1>5. QED
  BY <1>1, <1>2, <1>3, <1>4 DEF ProbeTypes

LEMMA CtrTypes ==
  ASSUME TraceAssumption, Types, NEW c, Counted(c)
  PROVE  /\ ctr' \in [Counters -> Nat] /\ Key(c) \in Counters
         /\ full \subseteq full' /\ full' \subseteq full \cup {Key(c)}
         /\ \/ ctr'[Key(c)] = cpu[c].seen + 1 /\ HasRoom(ctr, Key(c)) /\ UNCHANGED full
            \/ ctr'[Key(c)] = ctr[Key(c)] /\ Key(c) \in full'
         /\ \A k \in Counters \ {Key(c)} : ctr'[k] = ctr[k]
<1>1. Key(c) \in Counters /\ cpu[c].seen \in Nat
  BY ProbeFacts DEF Counted
<1>2. QED
  BY <1>1 DEF Counted, Types, MapTypes

(* The map of latencies never outgrows its limit.                          *)
LEMMA StoreBounded ==
  ASSUME TraceAssumption, IsFiniteSet(z_reset_lat_map),
         Cardinality(z_reset_lat_map) <= MapKeys, NEW entry
  PROVE  IsFiniteSet(Store(entry)) /\ Cardinality(Store(entry)) <= MapKeys
<1> DEFINE others == {e \in z_reset_lat_map : ~SameKey(e, entry)}
<1>1. PICK size \in Nat : size = Cardinality(z_reset_lat_map)
  BY FS_CardinalityType
<1>2. MapKeys \in Nat
  BY DEF TraceAssumption
<1>3. /\ IsFiniteSet(others) /\ Cardinality(others) <= size
      /\ Cardinality(others) = size => others = z_reset_lat_map
      /\ Cardinality(others) \in Nat
  BY <1>1, FS_Subset, FS_CardinalityType
<1>4. Store(entry) = IF (\E e \in z_reset_lat_map : SameKey(e, entry)) \/ size < MapKeys
                     THEN others \cup {entry} ELSE z_reset_lat_map
  BY <1>1 DEF Store
<1>5. (\E e \in z_reset_lat_map : SameKey(e, entry)) => others # z_reset_lat_map
  OBVIOUS
<1> HIDE DEF others
<1>6. /\ IsFiniteSet(others \cup {entry})
      /\ Cardinality(others \cup {entry}) \in Nat
      /\ Cardinality(others \cup {entry}) <= Cardinality(others) + 1
  <2>1. Cardinality(others \cup {entry}) = IF entry \in others THEN Cardinality(others)
                                           ELSE Cardinality(others) + 1
    BY <1>3, FS_AddElement
  <2>2. IsFiniteSet(others \cup {entry})
    BY <1>3, FS_AddElement
  <2>3. QED
    BY <1>3, <2>1, <2>2
<1>7. CASE (\E e \in z_reset_lat_map : SameKey(e, entry)) \/ size < MapKeys
  <2>1. Cardinality(others) + 1 <= MapKeys
    BY <1>1, <1>2, <1>3, <1>5, <1>7
  <2>2. QED
    BY <1>2, <1>3, <1>4, <1>6, <1>7, <2>1
<1>8. QED
  BY <1>4, <1>7

(* A probe only ever raises its counter above 0.                           *)
LEMMA GrowingCounter ==
  ASSUME TraceAssumption, Types, NEW c \in CPUs,
         CountReadOrWrite(c) \/ CountReset(c) \/ CountResetAll(c), ctr[Key(c)] > 0
  PROVE  ctr'[Key(c)] > 0
<1>1. Counted(c)
  BY CountEffect
<1>2. cpu[c].seen \in Nat
  BY <1>1, ProbeFacts DEF Counted
<1>3. QED
  BY <1>1, <1>2, CtrTypes

LEMMA StepMapTypes ==
  ASSUME TraceAssumption, Types, [Next]_vars
  PROVE  MapTypes'
<1>1. clock \in Nat /\ MaxClock \in Nat /\ MaxCommands \in Nat /\ commands \in Nat
  BY DEF Types, MapTypes, TraceAssumption
<1>2. ASSUME NEW c \in CPUs, SetupProbe(c)
      PROVE  MapTypes'
  BY <1>1, <1>2 DEF SetupProbe, maps, Types, MapTypes
<1>3. ASSUME NEW c \in CPUs, CountReadOrWrite(c) \/ CountResetAll(c)
      PROVE  MapTypes'
  <2>1. ctr' \in [Counters -> Nat]
    BY <1>3, CountEffect, CtrTypes
  <2>2. QED
    BY <1>3, <2>1 DEF CountReadOrWrite, CountResetAll, Types, MapTypes
<1>4. ASSUME NEW c \in CPUs, AddData(c)
      PROVE  MapTypes'
  <2>1. Busy(c)
    BY <1>4 DEF AddData, Busy
  <2>2. cpu[c].seen + RequestOn(c).size \in Nat
    BY <2>1, ProbeFacts, RequestFacts
  <2>3. z_data_map' \in [Counters -> Nat]
    <3>1. PICK k, n : k = CounterOf(RequestOn(c)) /\ n = cpu[c].seen + RequestOn(c).size
      OBVIOUS
    <3>2. z_data_map' = [z_data_map EXCEPT ![k] = n] \/ UNCHANGED z_data_map
      BY <1>4, <3>1 DEF AddData
    <3>3. QED
      BY <2>2, <3>1, <3>2 DEF Types, MapTypes
  <2>4. QED
    BY <1>4, <2>3 DEF AddData, Types, MapTypes
<1>5. ASSUME NEW c \in CPUs, CountReset(c)
      PROVE  MapTypes'
  <2>1. ctr' \in [Counters -> Nat] /\ Counted(c)
    BY <1>5, CountEffect, CtrTypes
  <2>2. RequestOn(c).zlbas \in ZoneStarts
    BY <2>1, ProbeFacts, RequestFacts DEF Counted
  <2>3. /\ reset_z_track_map' \in [Tags -> ZoneStarts]
        /\ reset_lat_track_map' \in [Tags -> 0 .. clock]
    <3>1. clock \in 0 .. clock
      BY <1>1
    <3>2. reset_z_track_map' \in [Tags -> ZoneStarts]
      BY <1>5, <2>2 DEF CountReset, Types, MapTypes
    <3>3. reset_lat_track_map' \in [Tags -> 0 .. clock]
      BY <1>5, <3>1 DEF CountReset, Types, MapTypes
    <3>4. QED
      BY <3>2, <3>3
  <2>4. QED
    BY <1>5, <2>1, <2>3 DEF CountReset, Types, MapTypes
<1>6. ASSUME NEW s \in Slots, CompleteReset(s)
      PROVE  MapTypes'
  <2>1. TagOf(s) \in Tags
    BY RequestFacts
  <2>2. /\ reset_z_track_map[TagOf(s)] \in ZoneStarts
        /\ clock - reset_lat_track_map[TagOf(s)] \in Nat
    BY <1>1, <2>1 DEF Types, MapTypes
  <2>3. ctr[<<reset_z_track_map[TagOf(s)], "reset">>] \in Nat
    BY <2>2, RequestFacts DEF Types, MapTypes
  <2>4. LatencyEntry(s) \in EntryType
    BY <2>2, <2>3 DEF LatencyEntry, EntryType
  <2>5. z_reset_lat_map' \subseteq EntryType
    BY <1>6, <2>4 DEF CompleteReset, Store, Types, MapTypes
  <2>6. IsFiniteSet(z_reset_lat_map') /\ Cardinality(z_reset_lat_map') <= MapKeys
    BY <1>6, StoreBounded DEF CompleteReset, Types, MapTypes
  <2>7. QED
    BY <1>6, <2>5, <2>6 DEF CompleteReset, Types, MapTypes
<1>7. ASSUME NEW s \in Slots, CompleteOther(s)
      PROVE  MapTypes'
  BY <1>7 DEF CompleteOther, maps, Types, MapTypes
<1>8. CASE Tick
  BY <1>1, <1>8 DEF Tick, maps, Types, MapTypes
<1>9. CASE UNCHANGED vars
  BY <1>9 DEF vars, maps, Types, MapTypes
<1>10. QED
  BY <1>2, <1>3, <1>4, <1>5, <1>6, <1>7, <1>8, <1>9 DEF Next

LEMMA StepHistoryTypes ==
  ASSUME TraceAssumption, Types, [Next]_vars
  PROVE  HistoryTypes'
<1>1. clock \in Nat /\ commands \in Nat
  BY DEF Types, MapTypes, TraceAssumption
<1>2. ASSUME NEW c \in CPUs, SetupProbe(c)
      PROVE  HistoryTypes'
  <2>1. PICK s \in Slots, r \in Requests :
          /\ setups' = [setups EXCEPT ![CounterOf(r)] = @ + 1]
          /\ LET rivals == {d \in CPUs : Busy(d) /\ CounterOf(RequestOn(d)) = CounterOf(r)}
                 others == {q \in ResetSlots : TagOf(q) = TagOf(s) \/ inflight[q].zlbas = r.zlbas}
             IN  /\ raced' = IF rivals = {} THEN raced ELSE raced \cup {CounterOf(r)}
                 /\ disturbed' = IF r.op = "reset" /\ others # {}
                                 THEN disturbed \cup others \cup {s} ELSE disturbed
                 /\ calm' = (calm /\ (r.op = "reset" => rivals = {} /\ others = {}))
    BY <1>2, SetupEffect
  <2>2. CounterOf(r) \in Counters
    BY RequestFacts
  <2>3. UNCHANGED <<clock, started, completed>> /\ commands' = commands + 1
    BY <1>2 DEF SetupProbe
  <2>4. setups' \in [Counters -> 0 .. commands']
    BY <1>1, <2>1, <2>2, <2>3 DEF Types, HistoryTypes
  <2>5. ResetSlots \subseteq Slots
    BY DEF ResetSlots
  <2>6. raced' \subseteq Counters /\ disturbed' \subseteq Slots /\ calm' \in BOOLEAN
    BY <2>1, <2>2, <2>5 DEF Types, HistoryTypes
  <2>7. QED
    BY <2>3, <2>4, <2>6 DEF Types, HistoryTypes
<1>3. ASSUME NEW c \in CPUs, CountReset(c)
      PROVE  HistoryTypes'
  <2>1. started' \in [Slots -> 0 .. clock]
    <3>1. clock \in 0 .. clock
      BY <1>1
    <3>2. QED
      BY <1>3, <3>1 DEF CountReset, Types, HistoryTypes
  <2>2. QED
    BY <1>3, <2>1 DEF CountReset, Types, HistoryTypes
<1>4. ASSUME NEW s \in Slots, CompleteReset(s)
      PROVE  HistoryTypes'
  BY <1>4 DEF CompleteReset, Types, HistoryTypes
<1>5. CASE Tick
  BY <1>1, <1>5 DEF Tick, history, Types, HistoryTypes
<1>6. CASE UNCHANGED <<history, clock, commands>>
  BY <1>6 DEF history, Types, HistoryTypes
<1>7. QED
  BY <1>2, <1>3, <1>4, <1>5, <1>6 DEF Next, CountReadOrWrite, AddData, CountResetAll, CompleteOther, vars

LEMMA StepTypes ==
  ASSUME TraceAssumption, Types, [Next]_vars
  PROVE  Types'
  BY StepProbeTypes, StepMapTypes, StepHistoryTypes DEF Types

-----------------------------------------------------------------------------
(* The counters.                                                           *)

(* Nobody else increases the counter of a probe, or it is in raced.        *)
Exact(k) ==
  /\ \A c, d \in Pending(k) : c = d
  /\ \A c \in Pending(k) : cpu[c].seen = ctr[k] /\ ctr[k] + 1 = setups[k]
  /\ Pending(k) = {} => ctr[k] = setups[k]

CountInv ==
  /\ \A k \in Counters : ctr[k] <= setups[k]
  /\ \A c \in CPUs : Counting(c) => cpu[c].seen < setups[Key(c)]
  /\ \A c \in CPUs : cpu[c].step = "data" => ctr[Key(c)] > 0 \/ Key(c) \in full
  /\ \A k \in Counters \ full : z_data_map[k] > 0 => ctr[k] > 0
  /\ \A k \in Counters \ (raced \cup full) : Exact(k)

LEMMA InitCountInv ==
  ASSUME TraceAssumption, Init
  PROVE  CountInv
<1>1. /\ \A c \in CPUs : ~Counting(c) /\ cpu[c].step # "data"
      /\ \A k \in Counters : ctr[k] = 0 /\ setups[k] = 0 /\ z_data_map[k] = 0
  BY DEF Init, Counting, Idle
<1>2. \A k : Pending(k) = {}
  BY <1>1 DEF Pending, Counting
<1>3. QED
  BY <1>1, <1>2 DEF CountInv, Exact

(* A probe that has looked its counter up has still to write it.           *)
LEMMA SetupCountInv ==
  ASSUME TraceAssumption, Types, CountInv, [Next]_vars, NEW c \in CPUs, SetupProbe(c)
  PROVE  CountInv'
<1>1. PICK s \in Slots, r \in Requests :
        /\ Begins(c, s, r)
        /\ setups' = [setups EXCEPT ![CounterOf(r)] = @ + 1]
        /\ LET rivals == {d \in CPUs : Busy(d) /\ CounterOf(RequestOn(d)) = CounterOf(r)}
           IN  raced' = IF rivals = {} THEN raced ELSE raced \cup {CounterOf(r)}
  BY SetupEffect
<1>2. UNCHANGED <<ctr, z_data_map, full>>
  BY DEF SetupProbe, maps
<1> DEFINE key == CounterOf(r)
<1>3. key \in Counters /\ Key(c)' = key /\ cpu'[c].seen = ctr[key] /\ Counting(c)'
  BY <1>1, RequestFacts DEF Begins
<1>4. /\ setups'[key] = setups[key] + 1
      /\ \A k \in Counters \ {key} : setups'[k] = setups[k]
      /\ \A k \in Counters : ctr[k] \in Nat /\ setups[k] \in Nat
  BY <1>1, <1>3 DEF Types, MapTypes, HistoryTypes
<1>5. \A d \in CPUs \ {c} :
        /\ cpu'[d] = cpu[d]
        /\ Counting(d)' <=> Counting(d)
        /\ Busy(d) => Key(d)' = Key(d) /\ Key(d) \in Counters
  <2>1. \A d \in CPUs \ {c} : cpu'[d] = cpu[d]
    BY <1>1 DEF Begins
  <2>2. QED
    BY <2>1, RequestsKept, ProbeFacts DEF Counting, Busy
<1> HIDE DEF key
<1>6. \A k \in Counters : ctr'[k] <= setups'[k]
  BY <1>2, <1>3, <1>4 DEF CountInv
<1>7. \A d \in CPUs : Counting(d)' => cpu'[d].seen < setups'[Key(d)']
  <2> SUFFICES ASSUME NEW d \in CPUs, Counting(d)'
               PROVE  cpu'[d].seen < setups'[Key(d)']
    OBVIOUS
  <2>1. CASE d = c
    BY <1>3, <1>4, <2>1 DEF CountInv
  <2>2. CASE d # c
    <3>1. Busy(d) /\ Counting(d) /\ cpu[d].seen \in Nat
      BY <1>5, <2>2, ProbeFacts DEF Counting
    <3>2. QED
      BY <1>4, <1>5, <2>2, <3>1 DEF CountInv
  <2>3. QED
    BY <2>1, <2>2
<1>8. \A d \in CPUs : cpu'[d].step = "data" => ctr'[Key(d)'] > 0 \/ Key(d)' \in full'
  BY <1>2, <1>3, <1>5, ProbeFacts DEF CountInv, Counting
<1>9. \A k \in Counters \ full' : z_data_map'[k] > 0 => ctr'[k] > 0
  BY <1>2 DEF CountInv
<1>10. \A k \in Counters \ (raced' \cup full') : Exact(k)'
  <2> SUFFICES ASSUME NEW k \in Counters, k \notin raced' \cup full'
               PROVE  Exact(k)'
    OBVIOUS
  <2>1. k \notin raced \cup full
    BY <1>1, <1>2
  <2>2. CASE k # key
    <3>1. Pending(k)' = Pending(k)
      BY <1>3, <1>5, <2>2, ProbeFacts, <1>1 DEF Pending, Counting, Key, Begins
    <3>2. \A d \in Pending(k) : cpu'[d] = cpu[d]
      BY <1>1, <1>5 DEF Pending, Begins, Busy
    <3>3. QED
      BY <1>2, <1>4, <2>1, <2>2, <3>1, <3>2 DEF CountInv, Exact
  <2>3. CASE k = key
    <3>1. Pending(k) = {}
      BY <1>1, <2>1, <2>3 DEF Pending, key, Busy
    <3>2. Pending(k)' = {c}
      BY <1>3, <1>5, <2>3, <3>1, ProbeFacts DEF Pending, Counting, Key
    <3>3. QED
      BY <1>2, <1>3, <1>4, <2>1, <2>3, <3>1, <3>2 DEF CountInv, Exact
  <2>4. QED
    BY <2>2, <2>3
<1>11. QED
  BY <1>6, <1>7, <1>8, <1>9, <1>10 DEF CountInv

(* The update writes what was looked up, plus one: without a race that is  *)
(* the number of set up commands, otherwise at most that.                  *)
LEMMA CountCountInv ==
  ASSUME TraceAssumption, Types, CountInv, [Next]_vars, NEW c, Counted(c),
         UNCHANGED <<setups, raced, z_data_map>>
  PROVE  CountInv'
<1> DEFINE key == Key(c)
<1>1. /\ key \in Counters /\ full \subseteq full'
      /\ ctr'[key] = cpu[c].seen + 1 \/ (ctr'[key] = ctr[key] /\ key \in full')
      /\ \A k \in Counters \ {key} : ctr'[k] = ctr[k]
      /\ cpu[c].seen \in Nat /\ c \in CPUs /\ Counting(c)
  BY CtrTypes, ProbeFacts DEF Counted
<1>2. \A k \in Counters : ctr[k] \in Nat /\ setups[k] \in Nat /\ z_data_map[k] \in Nat
  BY DEF Types, MapTypes, HistoryTypes
<1>3. \A d \in CPUs \ {c} :
        /\ cpu'[d] = cpu[d]
        /\ Counting(d)' <=> Counting(d)
        /\ Busy(d) => Key(d)' = Key(d) /\ Key(d) \in Counters
  <2>1. \A d \in CPUs \ {c} : cpu'[d] = cpu[d]
    BY DEF Counted
  <2>2. QED
    BY <2>1, RequestsKept, ProbeFacts DEF Counting, Busy
<1>4. ~Counting(c)' /\ (cpu'[c].step = "data" => Key(c)' = key)
  <2>1. ~Counting(c)'
    BY DEF Counted, Counting, Idle
  <2>2. cpu'[c].step = "data" => Busy(c) /\ Busy(c)'
    BY DEF Counted, Busy
  <2>3. QED
    BY <1>1, <2>1, <2>2, RequestsKept
<1>5. \A d \in CPUs : Counting(d) \/ cpu[d].step = "data" => Busy(d)
  BY ProbeFacts DEF Counting
<1> HIDE DEF key
<1>6. \A k \in Counters : ctr'[k] <= setups'[k] /\ (ctr[k] > 0 => ctr'[k] > 0)
  <2> SUFFICES ASSUME NEW k \in Counters
               PROVE  ctr'[k] <= setups[k] /\ (ctr[k] > 0 => ctr'[k] > 0)
    OBVIOUS
  <2>1. CASE k = key
    BY <1>1, <1>2, <2>1 DEF CountInv, key
  <2>2. CASE k # key
    BY <1>1, <2>2 DEF CountInv
  <2>3. QED
    BY <2>1, <2>2
<1>7. \A d \in CPUs : Counting(d)' => cpu'[d].seen < setups'[Key(d)']
  BY <1>3, <1>4, <1>5 DEF CountInv
<1>8. \A d \in CPUs : cpu'[d].step = "data" => ctr'[Key(d)'] > 0 \/ Key(d)' \in full'
  <2> SUFFICES ASSUME NEW d \in CPUs, cpu'[d].step = "data"
               PROVE  ctr'[Key(d)'] > 0 \/ Key(d)' \in full'
    OBVIOUS
  <2>1. CASE d = c
    BY <1>1, <1>4, <2>1
  <2>2. CASE d # c
    BY <1>1, <1>3, <1>5, <1>6, <2>2 DEF CountInv
  <2>3. QED
    BY <2>1, <2>2
<1>9. \A k \in Counters \ full' : z_data_map'[k] > 0 => ctr'[k] > 0
  BY <1>1, <1>6 DEF CountInv
<1>10. \A k \in Counters \ (raced' \cup full') : Exact(k)'
  <2> SUFFICES ASSUME NEW k \in Counters, k \notin raced' \cup full'
               PROVE  Exact(k)'
    OBVIOUS
  <2>0. k \notin raced \cup full \cup full'
    BY <1>1
  <2>1. Pending(k)' = Pending(k) \ {c}
    BY <1>1, <1>3, <1>4, <1>5 DEF Pending, Counting, Key
  <2>2. CASE k # key
    <3>1. c \notin Pending(k)
      BY <2>2 DEF Pending, Key, key
    <3>2. \A d \in Pending(k)' : cpu'[d] = cpu[d]
      BY <1>3, <2>1 DEF Pending
    <3>3. QED
      BY <1>1, <2>0, <2>1, <2>2, <3>1, <3>2 DEF CountInv, Exact
  <2>3. CASE k = key
    <3>1. c \in Pending(k)
      BY <1>1, <2>3 DEF Pending, Key, key, Counting
    <3>2. Pending(k)' = {} /\ ctr'[k] = setups[k]
      BY <1>1, <2>0, <2>1, <2>3, <3>1 DEF CountInv, Exact
    <3>3. QED
      BY <3>2 DEF Exact
  <2>4. QED
    BY <2>2, <2>3
<1>11. QED
  BY <1>6, <1>7, <1>8, <1>9, <1>10 DEF CountInv

(* Everything else leaves the counters and the probes that count alone.    *)
LEMMA OtherCountInv ==
  ASSUME TraceAssumption, Types, CountInv, [Next]_vars,
         UNCHANGED <<ctr, full, setups, raced>>,
         \A c \in CPUs : Busy(c)' => cpu'[c] = cpu[c],
         \A c \in CPUs : Counting(c) => Counting(c)',
         \A k \in Counters \ full : z_data_map'[k] > 0 => ctr[k] > 0
  PROVE  CountInv'
<1>1. \A c \in CPUs : Counting(c)' \/ cpu'[c].step = "data" => Busy(c)'
  BY DEF Counting, Busy
<1>2. \A c \in CPUs : Busy(c)' => /\ Busy(c) /\ cpu'[c] = cpu[c] /\ Key(c)' = Key(c)
                                  /\ Counting(c)' <=> Counting(c)
  BY RequestsKept DEF Busy, Counting
<1>3. \A k : Pending(k)' = Pending(k)
  BY <1>1, <1>2 DEF Pending, Counting, Key
<1>4. \A k : \A c \in Pending(k) : cpu'[c] = cpu[c]
  BY <1>1 DEF Pending, Counting
<1>5. \A k \in Counters \ (raced \cup full) : Exact(k)'
  BY <1>3, <1>4 DEF CountInv, Exact
<1>6. QED
  BY <1>1, <1>2, <1>5 DEF CountInv

LEMMA StepCountInv ==
  ASSUME TraceAssumption, Types, CountInv, [Next]_vars
  PROVE  CountInv'
<1>1. ASSUME NEW c \in CPUs, CountReadOrWrite(c) \/ CountReset(c) \/ CountResetAll(c)
      PROVE  CountInv'
  <2>1. UNCHANGED <<setups, raced>>
    BY <1>1 DEF CountReadOrWrite, CountReset, CountResetAll, history
  <2>2. QED
    BY <1>1, <2>1, CountEffect, CountCountInv
<1>2. ASSUME NEW c \in CPUs, AddData(c)
      PROVE  CountInv'
  <2>1. /\ cpu' = [cpu EXCEPT ![c] = Idle]
        /\ \/ z_data_map' = [z_data_map EXCEPT ![Key(c)] = cpu[c].seen + RequestOn(c).size]
           \/ UNCHANGED z_data_map
        /\ UNCHANGED <<ctr, full, setups, raced>>
        /\ cpu[c].step = "data"
    BY <1>2 DEF AddData, history, Key
  <2>2. ctr[Key(c)] > 0 \/ Key(c) \in full
    BY <2>1 DEF CountInv
  <2>3. \A k \in Counters \ full : z_data_map'[k] > 0 => ctr[k] > 0
    <3> SUFFICES ASSUME NEW k \in Counters, k \notin full, z_data_map'[k] > 0
                 PROVE  ctr[k] > 0
      OBVIOUS
    <3>1. CASE k = Key(c)
      BY <2>2, <3>1
    <3>2. CASE k # Key(c)
      <4>1. z_data_map'[k] = z_data_map[k]
        BY <2>1, <3>2 DEF Types, MapTypes
      <4>2. QED
        BY <4>1 DEF CountInv
    <3>3. QED
      BY <3>1, <3>2
  <2>4. \A d \in CPUs : Busy(d)' => cpu'[d] = cpu[d]
    BY <2>1 DEF Types, ProbeTypes, Busy, Idle
  <2>5. \A d \in CPUs : Counting(d) => Counting(d)'
    BY <2>1 DEF Types, ProbeTypes, Counting
  <2>6. QED
    BY <2>1, <2>3, <2>4, <2>5, OtherCountInv
<1>3. CASE UNCHANGED <<cpu, ctr, full, setups, raced, z_data_map>>
  <2>1. /\ \A c \in CPUs : Busy(c)' => cpu'[c] = cpu[c]
        /\ \A c \in CPUs : Counting(c) => Counting(c)'
        /\ \A k \in Counters \ full : z_data_map'[k] > 0 => ctr[k] > 0
    BY <1>3 DEF Counting, CountInv
  <2>2. QED
    BY <1>3, <2>1, OtherCountInv
<1>4. QED
  BY <1>1, <1>2, <1>3, SetupCountInv
  DEF Next, CompleteReset, CompleteOther, Tick, vars, history, maps

(* A map that is full stays so, and no counter of its is there that was    *)
(* once dropped.                                                           *)
FullInv ==
  /\ full \subseteq Counters
  /\ IsFiniteSet({k \in Counters : ctr[k] > 0})
  /\ \A k \in full : ~HasRoom(ctr, k)

LEMMA StepFullInv ==
  ASSUME TraceAssumption, Types, FullInv, [Next]_vars
  PROVE  FullInv' /\ full \subseteq full'
<1>1. ASSUME NEW c \in CPUs, CountReadOrWrite(c) \/ CountReset(c) \/ CountResetAll(c)
      PROVE  FullInv' /\ full \subseteq full'
  <2>1. PICK key \in Counters : key = Key(c)
    BY <1>1, CountEffect, CtrTypes
  <2>2. /\ full \subseteq full' /\ full' \subseteq full \cup {key}
        /\ \A k \in Counters \ {key} : ctr'[k] = ctr[k]
        /\ ctr' \in [Counters -> Nat] /\ ctr \in [Counters -> Nat]
    BY <1>1, <2>1, CountEffect, CtrTypes DEF Types, MapTypes
  <2>3. \/ HasRoom(ctr, key) /\ UNCHANGED full
        \/ ~HasRoom(ctr, key) /\ UNCHANGED ctr
    BY <1>1, <2>1, CountEffect DEF Counted
  <2>4. CASE ~HasRoom(ctr, key) /\ UNCHANGED ctr
    BY <2>1, <2>2, <2>4 DEF FullInv, HasRoom, EntriesBeside
  <2>5. CASE HasRoom(ctr, key) /\ UNCHANGED full
    <3> DEFINE before == {k \in Counters : ctr[k] > 0}
               after == {k \in Counters : ctr'[k] > 0}
    <3>1. IsFiniteSet(after)
      <4>1. after \subseteq before \cup {key}
        BY <2>2
      <4>2. IsFiniteSet(before \cup {key})
        BY FS_AddElement DEF FullInv
      <4>3. QED
        BY <4>1, <4>2, FS_Subset
    <3>2. ASSUME NEW k \in full
          PROVE  ~HasRoom(ctr, k)'
      <4>1. k \in Counters \ {key} /\ ~HasRoom(ctr, k)
        BY <2>5, <3>2 DEF FullInv
      <4>2. PICK old, new : old = EntriesBeside(ctr, k) /\ new = EntriesBeside(ctr, k)'
        OBVIOUS
      <4>3. new \subseteq after
        BY <4>2 DEF EntriesBeside
      <4>4. old \subseteq new
        <5>1. ASSUME NEW j \in Counters, ctr[j] > 0, InOneMap(k, j)
              PROVE  ctr'[j] > 0
          <6>1. CASE j = key
            BY <1>1, <2>1, <2>2, <2>5, <5>1, <6>1, GrowingCounter
          <6>2. CASE j # key
            BY <2>2, <5>1, <6>2
          <6>3. QED
            BY <6>1, <6>2
        <5>2. QED
          BY <4>2, <5>1 DEF EntriesBeside
      <4>5. /\ Cardinality(old) <= Cardinality(new)
            /\ Cardinality(old) \in Nat /\ Cardinality(new) \in Nat
        <5>1. IsFiniteSet(new)
          BY <3>1, <4>3, FS_Subset
        <5>2. IsFiniteSet(old)
          BY <4>4, <5>1, FS_Subset
        <5>3. QED
          BY <4>4, <5>1, <5>2, FS_Subset, FS_CardinalityType
      <4>6. ~(ctr[k] > 0) /\ ~(Cardinality(old) < MapKeys)
        BY <4>1, <4>2 DEF HasRoom
      <4>7. ~(ctr'[k] > 0) /\ ~(Cardinality(new) < MapKeys)
        BY <2>2, <4>1, <4>5, <4>6 DEF TraceAssumption
      <4>8. QED
        BY <4>2, <4>7 DEF HasRoom
    <3>3. QED
      BY <2>5, <3>1, <3>2 DEF FullInv
  <2>6. QED
    BY <2>2, <2>3, <2>4, <2>5
<1>2. CASE UNCHANGED <<ctr, full>>
  BY <1>2 DEF FullInv, HasRoom, EntriesBeside
<1>3. QED
  BY <1>1, <1>2 DEF Next, SetupProbe, AddData, CompleteReset, CompleteOther, Tick, vars, maps

IInv == Types /\ CountInv /\ FullInv

LEMMA IInvHolds == Spec => []IInv
<1>1. Init => IInv
  <2>1. Init => FullInv
    <3> SUFFICES ASSUME Init
                 PROVE  FullInv
      OBVIOUS
    <3>1. full = {} /\ {k \in Counters : ctr[k] > 0} = {}
      BY DEF Init
    <3>2. QED
      BY <3>1, FS_EmptySet DEF FullInv
  <2>2. QED
    BY <2>1, TraceAssumption, InitTypes, InitCountInv DEF IInv
<1>2. IInv /\ [Next]_vars => IInv'
  BY TraceAssumption, StepTypes, StepCountInv, StepFullInv DEF IInv
<1>3. QED
  BY <1>1, <1>2, PTL DEF Spec

(* The maps hold times, zones and counts, also when a reset completes that *)
(* was set up before the probes were attached.                             *)
THEOREM TypeCorrect == Spec => []TypeOK
<1>1. IInv => TypeOK
  <2> HAVE IInv
  <2>1. ctr \in [Counters -> 0 .. MaxCommands]
    <3>1. \A k \in Counters : ctr[k] \in Nat /\ ctr[k] <= setups[k] /\ setups[k] \in 0 .. commands
      BY DEF IInv, Types, MapTypes, HistoryTypes, CountInv
    <3>2. \A k \in Counters : ctr[k] \in 0 .. MaxCommands
      BY <3>1, TraceAssumption DEF IInv, Types, MapTypes, TraceAssumption
    <3>3. QED
      BY <3>2 DEF IInv, Types, MapTypes
  <2>2. reset_lat_track_map \in [Tags -> 0 .. MaxClock]
    BY TraceAssumption DEF IInv, Types, MapTypes, TraceAssumption
  <2>3. \A e \in z_reset_lat_map : e.zlbas \in ZoneStarts /\ e.number \in Nat /\ e.latency \in Nat
    BY DEF IInv, Types, MapTypes, EntryType
  <2>4. \A c \in CPUs : Busy(c) => /\ cpu[c].step \in {"counter", "data"}
                                   /\ cpu[c].slot \in Slots
                                   /\ RequestOn(c) # None
    BY TraceAssumption, ProbeFacts DEF IInv, Types, ProbeTypes
  <2>5. QED
    BY <2>1, <2>2, <2>3, <2>4 DEF IInv, Types, ProbeTypes, MapTypes, TypeOK
<1>2. QED
  BY <1>1, IInvHolds, PTL

(* @x++ is a lookup and an update of a map all CPUs share: a counter never *)
(* exceeds the commands set up, lags behind by the probes still at it when *)
(* no two of them met, and is not 0 where the zone has data; unless its    *)
(* map was full, when it stays 0.                                          *)
THEOREM CountersCount == Spec => []CountersCountSetups
<1>1. IInv => CountersCountSetups
  <2> HAVE IInv
  <2> SUFFICES ASSUME NEW k \in Counters
               PROVE  /\ ctr[k] <= setups[k]
                      /\ k \in full => ctr[k] = 0
                      /\ k \notin raced \cup full =>
                           ctr[k] + Cardinality(Pending(k)) = setups[k]
                      /\ k \notin full /\ z_data_map[k] > 0 => ctr[k] > 0
    BY DEF CountersCountSetups
  <2>1. ctr[k] \in Nat /\ setups[k] \in Nat
    BY DEF IInv, Types, MapTypes, HistoryTypes
  <2>2. ASSUME k \notin raced \cup full
        PROVE  ctr[k] + Cardinality(Pending(k)) = setups[k]
    <3>1. Exact(k)
      BY <2>2 DEF IInv, CountInv
    <3>2. CASE Pending(k) = {}
      BY <2>1, <3>1, <3>2, FS_EmptySet DEF Exact
    <3>3. CASE Pending(k) # {}
      <4>1. PICK c : c \in Pending(k)
        BY <3>3
      <4>2. Pending(k) = {c}
        BY <3>1, <4>1 DEF Exact
      <4>3. Cardinality(Pending(k)) = 1
        BY <4>2, FS_Singleton
      <4>4. QED
        BY <3>1, <4>1, <4>3 DEF Exact
    <3>4. QED
      BY <3>2, <3>3
  <2>3. k \in full => ctr[k] = 0
    BY <2>1 DEF IInv, FullInv, HasRoom
  <2>4. QED
    BY <2>2, <2>3 DEF IInv, CountInv
<1>2. QED
  BY <1>1, IInvHolds, PTL

-----------------------------------------------------------------------------
(* The resets in flight.                                                   *)

LEMMA ResetFacts ==
  ASSUME TraceAssumption, Types
  PROVE  /\ \A s \in ResetSlots : /\ s \in Slots /\ inflight[s] \in Requests
                                  /\ inflight[s].op = "reset" /\ inflight[s].zlbas \in ZoneStarts
                                  /\ TagOf(s) \in Tags
         /\ \A s \in Slots : inflight[s] = None => s \notin ResetSlots
         /\ \A s \in Slots : inflight[s].op = "reset" => s \in ResetSlots
<1>1. \A s \in ResetSlots : s \in Slots /\ inflight[s].op = "reset"
  BY DEF ResetSlots
<1>2. \A s \in Slots : inflight[s] \in Requests \/ inflight[s] = None
  BY DEF Types, ProbeTypes
<1>3. "reset" \in Ops /\ None.op \notin Ops
  BY RequestFacts
<1>4. \A s \in Slots : inflight[s] = None => s \notin ResetSlots
  BY <1>1, <1>3
<1>5. QED
  BY <1>1, <1>2, <1>4, RequestFacts DEF ResetSlots

(* No reset begins and none is counted.                                    *)
Quiet ==
  /\ ResetSlots' \subseteq ResetSlots
  /\ \A q \in ResetSlots' :
       /\ inflight'[q] = inflight[q]
       /\ q \in disturbed' <=> q \in disturbed
       /\ BeingSetUp(q) => BeingSetUp(q)'
  /\ disturbed' \subseteq disturbed
  /\ \A c \in CPUs : Counting(c)' => Counting(c) /\ cpu'[c] = cpu[c]
  /\ \A z \in ZoneStarts : ctr'[<<z, "reset">>] = ctr[<<z, "reset">>]
  /\ \A z \in ZoneStarts : <<z, "reset">> \in full' <=> <<z, "reset">> \in full
  /\ UNCHANGED <<reset_z_track_map, reset_lat_track_map, setups, started, calm>>

LEMMA QuietSteps ==
  ASSUME TraceAssumption, Types, [Next]_vars
  PROVE  \/ \E c \in CPUs : SetupProbe(c)
         \/ \E c \in CPUs : CountReset(c)
         \/ Quiet /\ UNCHANGED <<z_reset_lat_map, completed>>
         \/ Quiet /\ \E s \in Slots : CompleteReset(s)
<1>1. ASSUME NEW c \in CPUs, CountReadOrWrite(c) \/ AddData(c) \/ CountResetAll(c)
      PROVE  Quiet /\ UNCHANGED <<z_reset_lat_map, completed>>
  <2>1. /\ UNCHANGED <<inflight, reset_z_track_map, reset_lat_track_map, setups, started, calm,
                       disturbed, z_reset_lat_map, completed>>
        /\ Busy(c)
    BY <1>1 DEF CountReadOrWrite, AddData, CountResetAll, history, Busy
  <2>2. RequestOn(c).op # "reset"
    <3>1. CASE AddData(c)
      BY <3>1, RequestFacts DEF AddData, Types, ProbeTypes
    <3>2. CASE CountReadOrWrite(c) \/ CountResetAll(c)
      BY <3>2, RequestFacts DEF CountReadOrWrite, CountResetAll
    <3>3. QED
      BY <1>1, <3>1, <3>2
  <2>3. /\ \A d \in CPUs \ {c} : cpu'[d] = cpu[d]
        /\ ~Counting(c)'
        /\ \A z \in ZoneStarts : ctr'[<<z, "reset">>] = ctr[<<z, "reset">>]
        /\ \A z \in ZoneStarts : <<z, "reset">> \in full' <=> <<z, "reset">> \in full
    <3>1. CASE AddData(c)
      BY <3>1 DEF AddData, Types, ProbeTypes, Counting, Idle
    <3>2. CASE CountReadOrWrite(c) \/ CountResetAll(c)
      <4>1. Counted(c)
        BY <3>2, CountEffect
      <4>2. Key(c) = <<RequestOn(c).zlbas, RequestOn(c).op>>
        BY <2>1, ProbeFacts
      <4>3. \A z \in ZoneStarts : <<z, "reset">> \in Counters \ {Key(c)}
        <5>1. \A z \in ZoneStarts : <<z, "reset">> \in Counters
          BY RequestFacts
        <5>2. \A z : <<z, "reset">> # Key(c)
          BY <2>2, <4>2
        <5>3. QED
          BY <5>1, <5>2
      <4>4. QED
        BY <4>1, <4>3, CtrTypes DEF Counted, Counting, Idle
    <3>3. QED
      BY <1>1, <3>1, <3>2
  <2>4. ResetSlots' = ResetSlots
    BY <2>1 DEF ResetSlots
  <2>5. cpu[c].slot \notin ResetSlots
    BY <2>2 DEF ResetSlots, RequestOn
  <2>6. \A q \in ResetSlots : BeingSetUp(q) => BeingSetUp(q)'
    BY <2>3, <2>5 DEF BeingSetUp, Busy
  <2>7. QED
    BY <2>1, <2>3, <2>4, <2>6 DEF Quiet, Counting
<1>2. ASSUME NEW s \in Slots, CompleteReset(s) \/ CompleteOther(s)
      PROVE  Quiet
  <2>1. /\ inflight' = [inflight EXCEPT ![s] = None]
        /\ UNCHANGED <<cpu, ctr, full, reset_z_track_map, reset_lat_track_map, setups, started, calm>>
        /\ disturbed' = disturbed \/ disturbed' = disturbed \ {s}
    BY <1>2 DEF CompleteReset, CompleteOther, maps, history
  <2>2. inflight'[s] = None /\ \A q \in Slots \ {s} : inflight'[q] = inflight[q]
    BY <2>1 DEF Types, ProbeTypes
  <2>3. None.op # "reset"
    BY RequestFacts
  <2>4. ResetSlots' \subseteq ResetSlots \ {s}
    BY <2>2, <2>3 DEF ResetSlots
  <2>5. \A q : BeingSetUp(q)' <=> BeingSetUp(q)
    BY <2>1 DEF BeingSetUp, Busy
  <2>6. \A q \in ResetSlots : q \in Slots
    BY DEF ResetSlots
  <2>7. QED
    BY <2>1, <2>2, <2>4, <2>5, <2>6 DEF Quiet, Counting
<1>3. ASSUME NEW s \in Slots, CompleteOther(s)
      PROVE  UNCHANGED <<z_reset_lat_map, completed>>
  BY <1>3 DEF CompleteOther, maps, history
<1>4. CASE Tick \/ UNCHANGED vars
  <2>1. UNCHANGED <<inflight, cpu, ctr, full, reset_z_track_map, reset_lat_track_map, setups, started,
                    calm, disturbed, z_reset_lat_map, completed>>
    BY <1>4 DEF Tick, vars, maps, history
  <2>2. ResetSlots' = ResetSlots /\ \A q : BeingSetUp(q)' <=> BeingSetUp(q)
    BY <2>1 DEF ResetSlots, BeingSetUp, Busy
  <2>3. QED
    BY <2>1, <2>2 DEF Quiet, Counting
<1>5. QED
  BY <1>1, <1>2, <1>3, <1>4 DEF Next

(* A reset is set up in a slot of its own.                                 *)
LEMMA SetupResets ==
  ASSUME TraceAssumption, Types, NEW c, NEW s, NEW r, Begins(c, s, r)
  PROVE  /\ s \notin ResetSlots /\ TagOf(s) \in Tags
         /\ inflight'[s] = r /\ BeingSetUp(s)'
         /\ ResetSlots' = IF r.op = "reset" THEN ResetSlots \cup {s} ELSE ResetSlots
         /\ \A q \in ResetSlots : /\ inflight'[q] = inflight[q] /\ q # s
                                  /\ BeingSetUp(q)' <=> BeingSetUp(q)
<1>1. s \in Slots /\ c \in CPUs /\ inflight[s] = None /\ inflight'[s] = r
      /\ \A q \in Slots \ {s} : inflight'[q] = inflight[q]
  BY DEF Begins, Types, ProbeTypes
<1>2. s \notin ResetSlots
  BY <1>1, ResetFacts
<1>3. ResetSlots' = IF r.op = "reset" THEN ResetSlots \cup {s} ELSE ResetSlots
  BY <1>1, <1>2 DEF ResetSlots
<1>4. \A q \in ResetSlots : q \in Slots \ {s}
  BY <1>2 DEF ResetSlots
<1>5. BeingSetUp(s)'
  BY <1>1 DEF Begins, BeingSetUp
<1>6. \A q \in ResetSlots : BeingSetUp(q)' <=> BeingSetUp(q)
  BY <1>1, <1>4 DEF Begins, BeingSetUp, Busy
<1>7. QED
  BY <1>1, <1>2, <1>3, <1>4, <1>5, <1>6, RequestFacts

(* A reset that is counted is tracked under its tag.                       *)
CountsReset(c) ==
  /\ Counted(c) /\ RequestOn(c).op = "reset"
  /\ cpu[c].slot \in ResetSlots /\ TagOf(cpu[c].slot) \in Tags
  /\ Key(c) = <<inflight[cpu[c].slot].zlbas, "reset">> /\ Key(c) \in Counters
  /\ reset_z_track_map' =
       [reset_z_track_map EXCEPT ![TagOf(cpu[c].slot)] = inflight[cpu[c].slot].zlbas]
  /\ reset_lat_track_map' = [reset_lat_track_map EXCEPT ![TagOf(cpu[c].slot)] = clock]
  /\ started' = [started EXCEPT ![cpu[c].slot] = clock]
  /\ ResetSlots' = ResetSlots
  /\ \A q \in ResetSlots \ {cpu[c].slot} : BeingSetUp(q) => BeingSetUp(q)'
  /\ UNCHANGED <<inflight, clock, z_reset_lat_map, setups, disturbed, completed, calm>>

LEMMA CountResets ==
  ASSUME TraceAssumption, Types, NEW c \in CPUs, CountReset(c)
  PROVE  CountsReset(c)
<1>1. Counted(c) /\ Busy(c)
  BY CountEffect DEF Counted
<1>2. /\ RequestOn(c).op = "reset"
      /\ cpu[c].slot \in Slots /\ RequestOn(c) = inflight[cpu[c].slot]
      /\ Key(c) = <<RequestOn(c).zlbas, RequestOn(c).op>> /\ Key(c) \in Counters
  BY <1>1, ProbeFacts DEF CountReset
<1>3. cpu[c].slot \in ResetSlots /\ TagOf(cpu[c].slot) \in Tags
  BY <1>2, ResetFacts
<1>4. UNCHANGED <<inflight, clock, z_reset_lat_map, setups, disturbed, completed, calm>>
  BY DEF CountReset
<1>5. ResetSlots' = ResetSlots
  BY <1>4 DEF ResetSlots
<1>6. \A q \in ResetSlots \ {cpu[c].slot} : BeingSetUp(q) => BeingSetUp(q)'
  BY <1>1 DEF Counted, BeingSetUp, Busy
<1>7. QED
  BY <1>1, <1>2, <1>3, <1>4, <1>5, <1>6 DEF CountReset, CountsReset

-----------------------------------------------------------------------------
(* Latencies.                                                              *)

(* Two resets with one tag are both disturbed, and what is tracked under   *)
(* the tag of any other is its own.                                        *)
TagsApart ==
  \A s, q \in ResetSlots : s # q /\ TagOf(s) = TagOf(q) => s \in disturbed
Tracked ==
  \A s \in ResetSlots \ disturbed :
    ~BeingSetUp(s) =>
      /\ reset_z_track_map[TagOf(s)] = inflight[s].zlbas
      /\ reset_lat_track_map[TagOf(s)] = started[s]

LatencyInv == TagsApart /\ Tracked

LEMMA InitLatencyInv ==
  ASSUME TraceAssumption, Init
  PROVE  LatencyInv
<1>1. PICK early \in SUBSET Slots, z \in ZoneStarts :
        /\ inflight = [s \in Slots |-> IF s \in early
                                       THEN ResetOf(z)
                                       ELSE None]
        /\ disturbed = early
  BY DEF Init
<1>2. None.op # "reset"
  BY RequestFacts
<1>3. ResetSlots \subseteq disturbed
  BY <1>1, <1>2 DEF ResetSlots
<1>4. QED
  BY <1>3 DEF LatencyInv, TagsApart, Tracked

LEMMA StepLatencyInv ==
  ASSUME TraceAssumption, Types, LatencyInv, [Next]_vars
  PROVE  LatencyInv'
<1>1. ASSUME NEW c \in CPUs, SetupProbe(c)
      PROVE  LatencyInv'
  <2>1. PICK s \in Slots, r \in Requests :
          /\ Begins(c, s, r)
          /\ LET others == {q \in ResetSlots : TagOf(q) = TagOf(s) \/ inflight[q].zlbas = r.zlbas}
             IN  disturbed' = IF r.op = "reset" /\ others # {}
                              THEN disturbed \cup others \cup {s} ELSE disturbed
    BY <1>1, SetupEffect
  <2>2. UNCHANGED <<reset_z_track_map, reset_lat_track_map, started>>
    BY <1>1 DEF SetupProbe, maps
  <2>3. /\ s \notin ResetSlots /\ BeingSetUp(s)'
        /\ ResetSlots' = IF r.op = "reset" THEN ResetSlots \cup {s} ELSE ResetSlots
        /\ \A q \in ResetSlots : /\ inflight'[q] = inflight[q] /\ q # s
                                 /\ BeingSetUp(q)' <=> BeingSetUp(q)
    BY <2>1, SetupResets
  <2>4. disturbed \subseteq disturbed'
    BY <2>1
  <2>5. ASSUME NEW q \in ResetSlots, s \in ResetSlots', TagOf(q) = TagOf(s)
        PROVE  s \in disturbed' /\ q \in disturbed'
    BY <2>1, <2>3, <2>5
  <2>6. TagsApart'
    BY <2>3, <2>4, <2>5 DEF LatencyInv, TagsApart
  <2>7. Tracked'
    BY <2>2, <2>3, <2>4 DEF LatencyInv, Tracked
  <2>8. QED
    BY <2>6, <2>7 DEF LatencyInv
<1>2. ASSUME NEW c \in CPUs, CountReset(c)
      PROVE  LatencyInv'
  <2>1. CountsReset(c)
    BY <1>2, CountResets
  <2>2. TagsApart'
    BY <2>1 DEF CountsReset, LatencyInv, TagsApart
  <2>3. Tracked'
    <3> SUFFICES ASSUME NEW q \in ResetSlots, q \notin disturbed, ~BeingSetUp(q)'
                 PROVE  /\ reset_z_track_map'[TagOf(q)] = inflight[q].zlbas
                        /\ reset_lat_track_map'[TagOf(q)] = started'[q]
      BY <2>1 DEF CountsReset, Tracked
    <3>1. CASE q = cpu[c].slot
      BY <2>1, <3>1, ResetFacts DEF CountsReset, Types, MapTypes, HistoryTypes
    <3>2. CASE q # cpu[c].slot
      <4>1. ~BeingSetUp(q) /\ TagOf(q) # TagOf(cpu[c].slot)
        BY <2>1, <3>2 DEF CountsReset, LatencyInv, TagsApart
      <4>2. QED
        BY <2>1, <3>2, <4>1, ResetFacts
        DEF CountsReset, LatencyInv, Tracked, Types, MapTypes, HistoryTypes
    <3>3. QED
      BY <3>1, <3>2
  <2>4. QED
    BY <2>2, <2>3 DEF LatencyInv
<1>3. CASE Quiet
  BY <1>3 DEF Quiet, LatencyInv, TagsApart, Tracked
<1>4. QED
  BY <1>1, <1>2, <1>3, QuietSteps

(* The completion probe knows a reset by its tag alone, and queues have    *)
(* the same tags: a reset that no other with its tag or zone overlapped    *)
(* gets its own latency under the zone it was counted for all the same, or *)
(* none if the map is full.                                                *)
THEOREM LatencyIsOfItsReset == Spec => LatencyOfItsReset
<1>1. Init => LatencyInv
  BY TraceAssumption, InitLatencyInv
<1>2. Types /\ LatencyInv /\ [Next]_vars => LatencyInv'
  BY TraceAssumption, StepLatencyInv
<1>3. Types /\ LatencyInv /\ [Next]_vars =>
        [\A s \in Slots :
           inflight[s].op = "reset" /\ inflight'[s] = None /\ s \notin disturbed =>
             \/ \E e \in z_reset_lat_map' : /\ e.zlbas = inflight[s].zlbas
                                            /\ e.latency = clock - started[s]
             \/ Cardinality(z_reset_lat_map) = MapKeys /\ UNCHANGED z_reset_lat_map]_vars
  <2> SUFFICES ASSUME Types, LatencyInv, [Next]_vars,
                      NEW s \in Slots, inflight[s].op = "reset", inflight'[s] = None,
                      s \notin disturbed
               PROVE  \/ \E e \in z_reset_lat_map' : /\ e.zlbas = inflight[s].zlbas
                                                     /\ e.latency = clock - started[s]
                      \/ Cardinality(z_reset_lat_map) = MapKeys /\ UNCHANGED z_reset_lat_map
    OBVIOUS
  <2>1. s \in ResetSlots /\ inflight'[s] # inflight[s] /\ None.op # "reset"
    BY TraceAssumption, ResetFacts, RequestFacts
  <2>2. ASSUME NEW q \in Slots, CompleteReset(q) \/ CompleteOther(q)
        PROVE  CompleteReset(s)
    <3>1. inflight' = [inflight EXCEPT ![q] = None]
      BY <2>2 DEF CompleteReset, CompleteOther
    <3>2. q = s
      BY <2>1, <3>1 DEF Types, ProbeTypes
    <3>3. QED
      BY <2>2, <3>2 DEF CompleteOther
  <2>3. ASSUME NEW c \in CPUs, SetupProbe(c)
        PROVE  FALSE
    <3>1. PICK t \in Slots, r \in Requests : Begins(c, t, r)
      BY <2>3, TraceAssumption, SetupEffect
    <3>2. QED
      BY <2>1, <3>1, TraceAssumption, SetupResets
  <2>4. CompleteReset(s)
    BY <2>1, <2>2, <2>3
    DEF Next, CountReadOrWrite, AddData, CountReset, CountResetAll, Tick, vars
  <2>5. \/ LatencyEntry(s) \in z_reset_lat_map'
        \/ Cardinality(z_reset_lat_map) = MapKeys /\ UNCHANGED z_reset_lat_map
    <3>1. Cardinality(z_reset_lat_map) \in Nat /\ MapKeys \in Nat
          /\ Cardinality(z_reset_lat_map) <= MapKeys
      BY TraceAssumption, FS_CardinalityType DEF Types, MapTypes, TraceAssumption
    <3>2. z_reset_lat_map' = Store(LatencyEntry(s))
      BY <2>4 DEF CompleteReset
    <3>3. \/ LatencyEntry(s) \in Store(LatencyEntry(s))
          \/ ~(Cardinality(z_reset_lat_map) < MapKeys) /\ Store(LatencyEntry(s)) = z_reset_lat_map
      BY DEF Store
    <3>4. QED
      BY <3>1, <3>2, <3>3
  <2>6. /\ reset_z_track_map[TagOf(s)] = inflight[s].zlbas
        /\ reset_lat_track_map[TagOf(s)] = started[s]
    BY <2>1, <2>4 DEF CompleteReset, LatencyInv, Tracked
  <2>7. QED
    BY <2>5, <2>6 DEF LatencyEntry
<1>4. IInv => Types
  BY DEF IInv
<1>5. QED
  BY <1>1, <1>2, <1>3, <1>4, IInvHolds, PTL DEF Spec, LatencyOfItsReset

-----------------------------------------------------------------------------
(* The numbers in the keys.                                                *)

NumberOf(zone) == ctr[<<zone, "reset">>]

(* A zone has no counter when the map was full.                            *)
Dropped(zone) == <<zone, "reset">> \in full

(* A tag that is tracked is tracked behind a reset that was counted.       *)
TagsCounted ==
  \A t \in Tags :
    reset_lat_track_map[t] > 0 =>
      NumberOf(reset_z_track_map[t]) > 0 \/ Dropped(reset_z_track_map[t])
ResetsTracked ==
  ~MaybeInFlight =>
    \A s \in ResetSlots : ~BeingSetUp(s) => reset_lat_track_map[TagOf(s)] > 0
Numbers ==
  \A e \in z_reset_lat_map :
    /\ e.number <= setups[<<e.zlbas, "reset">>]
    /\ e.number = 0 => MaybeInFlight \/ Dropped(e.zlbas)

NumberInv == TagsCounted /\ ResetsTracked /\ Numbers

LEMMA InitNumberInv ==
  ASSUME TraceAssumption, Init
  PROVE  NumberInv
<1>1. PICK early \in IF MaybeInFlight THEN SUBSET Slots ELSE {{}}, z \in ZoneStarts :
        inflight = [s \in Slots |-> IF s \in early
                                   THEN ResetOf(z)
                                   ELSE None]
  BY Zenon DEF Init
<1>2. ~MaybeInFlight => ResetSlots = {}
  <2>1. None.op # "reset"
    BY RequestFacts
  <2>2. QED
    BY <1>1, <2>1 DEF ResetSlots
<1>3. \A t \in Tags : reset_lat_track_map[t] = 0
  BY DEF Init
<1>4. QED
  BY <1>2, <1>3 DEF Init, NumberInv, TagsCounted, ResetsTracked, Numbers

LEMMA StepNumberInv ==
  ASSUME TraceAssumption, Types, CountInv, FullInv, NumberInv, [Next]_vars
  PROVE  NumberInv'
<1>0. \A zone : Dropped(zone) => Dropped(zone)'
  BY StepFullInv DEF Dropped
<1>1. \A k \in Counters : ctr[k] \in Nat /\ setups[k] \in Nat /\ ctr[k] <= setups[k]
  BY DEF Types, MapTypes, HistoryTypes, CountInv
<1>2. \A z \in ZoneStarts : <<z, "reset">> \in Counters
  BY RequestFacts
<1>3. \A t \in Tags : reset_z_track_map[t] \in ZoneStarts /\ reset_lat_track_map[t] \in Nat
  BY DEF Types, MapTypes, TraceAssumption
<1>4. \A e \in z_reset_lat_map : e.zlbas \in ZoneStarts /\ e.number \in Nat
  BY DEF Types, MapTypes, EntryType
<1>5. \A s \in ResetSlots : TagOf(s) \in Tags
  BY ResetFacts
<1>6. ASSUME NEW c \in CPUs, SetupProbe(c)
      PROVE  NumberInv'
  <2>1. PICK s \in Slots, r \in Requests :
          /\ Begins(c, s, r)
          /\ setups' = [setups EXCEPT ![CounterOf(r)] = @ + 1]
    BY <1>6, SetupEffect
  <2>2. UNCHANGED <<ctr, reset_z_track_map, reset_lat_track_map, z_reset_lat_map>>
    BY <1>6 DEF SetupProbe, maps
  <2>3. \A k \in Counters : setups[k] <= setups'[k] /\ setups'[k] \in Nat
    BY <1>1, <2>1, RequestFacts DEF Types, HistoryTypes
  <2>4. ResetsTracked'
    BY <2>1, <2>2, SetupResets DEF NumberInv, ResetsTracked
  <2>5. Numbers'
    <3> SUFFICES ASSUME NEW e \in z_reset_lat_map
                 PROVE  /\ e.number <= setups'[<<e.zlbas, "reset">>]
                        /\ e.number = 0 => MaybeInFlight \/ Dropped(e.zlbas)
      BY <1>0, <2>2 DEF Numbers
    <3> DEFINE k == <<e.zlbas, "reset">>
    <3>1. k \in Counters /\ e.number \in Nat
      BY <1>2, <1>4
    <3>2. e.number <= setups[k] /\ (e.number = 0 => MaybeInFlight \/ Dropped(e.zlbas))
      BY DEF NumberInv, Numbers
    <3> HIDE DEF k
    <3>3. e.number <= setups'[k]
      BY <1>1, <2>3, <3>1, <3>2
    <3>4. QED
      BY <3>2, <3>3 DEF k
  <2>6. QED
    BY <1>0, <2>2, <2>4, <2>5 DEF NumberInv, TagsCounted, NumberOf
<1>7. ASSUME NEW c \in CPUs, CountReset(c)
      PROVE  NumberInv'
  <2>1. CountsReset(c)
    BY <1>7, CountResets
  <2>2. /\ ctr'[Key(c)] > 0 \/ Key(c) \in full'
        /\ \A k \in Counters : ctr[k] > 0 => ctr'[k] > 0
    <3>1. /\ ctr'[Key(c)] = cpu[c].seen + 1 \/ (ctr'[Key(c)] = ctr[Key(c)] /\ Key(c) \in full')
          /\ \A k \in Counters \ {Key(c)} : ctr'[k] = ctr[k]
      BY <2>1, CtrTypes DEF CountsReset
    <3>2. cpu[c].seen \in Nat
      BY <2>1, ProbeFacts DEF CountsReset, Counted
    <3>3. QED
      BY <3>1, <3>2
  <2>3. clock > 0
    BY DEF Types, MapTypes
  <2>4. TagsCounted'
    <3> SUFFICES ASSUME NEW t \in Tags, reset_lat_track_map'[t] > 0
                 PROVE  \/ ctr'[<<reset_z_track_map'[t], "reset">>] > 0
                        \/ <<reset_z_track_map'[t], "reset">> \in full'
      BY DEF TagsCounted, NumberOf, Dropped
    <3>1. CASE t = TagOf(cpu[c].slot)
      BY <2>1, <2>2, <3>1 DEF CountsReset, Types, MapTypes
    <3>2. CASE t # TagOf(cpu[c].slot)
      <4>1. reset_lat_track_map'[t] = reset_lat_track_map[t]
            /\ reset_z_track_map'[t] = reset_z_track_map[t]
        BY <2>1, <3>2 DEF CountsReset, Types, MapTypes
      <4>2. QED
        BY <1>0, <1>2, <1>3, <2>2, <4>1 DEF NumberInv, TagsCounted, NumberOf, Dropped
    <3>3. QED
      BY <3>1, <3>2
  <2>5. ResetsTracked'
    <3> SUFFICES ASSUME ~MaybeInFlight, NEW s \in ResetSlots, ~BeingSetUp(s)'
                 PROVE  reset_lat_track_map'[TagOf(s)] > 0
      BY <2>1 DEF CountsReset, ResetsTracked
    <3>1. CASE TagOf(s) = TagOf(cpu[c].slot)
      BY <1>5, <2>1, <2>3, <3>1 DEF CountsReset, Types, MapTypes
    <3>2. CASE TagOf(s) # TagOf(cpu[c].slot)
      <4>1. ~BeingSetUp(s) /\ reset_lat_track_map'[TagOf(s)] = reset_lat_track_map[TagOf(s)]
        BY <1>5, <2>1, <3>2 DEF CountsReset, Types, MapTypes
      <4>2. QED
        BY <4>1 DEF NumberInv, ResetsTracked
    <3>3. QED
      BY <3>1, <3>2
  <2>6. Numbers'
    BY <1>0, <2>1 DEF CountsReset, NumberInv, Numbers
  <2>7. QED
    BY <2>4, <2>5, <2>6 DEF NumberInv
<1>8. ASSUME Quiet
      PROVE  TagsCounted' /\ ResetsTracked' /\ UNCHANGED setups
  <2>1. TagsCounted'
    BY <1>0, <1>3, <1>8 DEF Quiet, NumberInv, TagsCounted, NumberOf
  <2>2. ResetsTracked'
    BY <1>8 DEF Quiet, NumberInv, ResetsTracked
  <2>3. QED
    BY <1>8, <2>1, <2>2 DEF Quiet
<1>9. CASE Quiet /\ UNCHANGED z_reset_lat_map
  BY <1>0, <1>8, <1>9 DEF NumberInv, Numbers
<1>10. ASSUME Quiet, NEW s \in Slots, CompleteReset(s)
       PROVE  NumberInv'
  <2>1. /\ s \in ResetSlots /\ ~BeingSetUp(s)
        /\ z_reset_lat_map' = Store(LatencyEntry(s))
    BY <1>10 DEF CompleteReset, ResetSlots
  <2>2. PICK zone \in ZoneStarts : zone = reset_z_track_map[TagOf(s)]
    BY <1>3, <1>5, <2>1
  <2>3. /\ LatencyEntry(s).zlbas = zone
        /\ LatencyEntry(s).number = ctr[<<zone, "reset">>]
    BY <2>2 DEF LatencyEntry
  <2>4. ctr[<<zone, "reset">>] = 0 => MaybeInFlight \/ Dropped(zone)
    BY <1>3, <1>5, <2>1, <2>2 DEF NumberInv, TagsCounted, ResetsTracked, NumberOf
  <2>5. \A e \in z_reset_lat_map' : e \in z_reset_lat_map \/ e = LatencyEntry(s)
    BY <2>1 DEF Store
  <2>6. Numbers'
    BY <1>0, <1>1, <1>2, <1>8, <1>10, <2>3, <2>4, <2>5 DEF NumberInv, Numbers
  <2>7. QED
    BY <1>8, <1>10, <2>6 DEF NumberInv
<1>11. QED
  BY <1>6, <1>7, <1>9, <1>10, QuietSteps

-----------------------------------------------------------------------------
(* As long as it is calm.                                                  *)

ResetKeysApart ==
  /\ \A c, d \in CPUs : /\ Counting(c) /\ RequestOn(c).op = "reset"
                        /\ Counting(d) /\ RequestOn(d).op = "reset"
                        /\ Key(c) = Key(d)
                        => c = d
  /\ \A c \in CPUs :
       Counting(c) /\ RequestOn(c).op = "reset" => cpu[c].seen = ctr[Key(c)]
ZonesApart ==
  \A s, q \in ResetSlots : inflight[s].zlbas = inflight[q].zlbas => s = q
NumbersBelow ==
  \A e \in z_reset_lat_map :
    /\ e.number <= NumberOf(e.zlbas)
    /\ \A s \in ResetSlots :
         ~BeingSetUp(s) /\ inflight[s].zlbas = e.zlbas => e.number < NumberOf(e.zlbas)
OneEach ==
  Cardinality(z_reset_lat_map) = IF completed < MapKeys THEN completed ELSE MapKeys
NoneDropped == \A z \in ZoneStarts : ~Dropped(z)

(* The number of a zone's resets is above all numbers in keys of the zone  *)
(* whenever a reset of it is in flight.                                    *)
CalmInv ==
  calm /\ NoneDropped =>
    /\ disturbed = {}
    /\ ResetKeysApart
    /\ ZonesApart
    /\ NumbersBelow
    /\ OneEach

LEMMA InitCalmInv ==
  ASSUME TraceAssumption, Init
  PROVE  CalmInv
<1> SUFFICES ASSUME calm, NoneDropped
             PROVE  disturbed = {} /\ ResetKeysApart /\ ZonesApart /\ NumbersBelow /\ OneEach
  BY DEF CalmInv
<1>1. PICK early \in SUBSET Slots, z \in ZoneStarts :
        /\ inflight = [s \in Slots |-> IF s \in early
                                       THEN ResetOf(z)
                                       ELSE None]
        /\ disturbed = early
        /\ calm = (early = {})
  BY DEF Init
<1>2. None.op # "reset"
  BY RequestFacts
<1>3. ResetSlots = {} /\ disturbed = {}
  BY <1>1, <1>2 DEF ResetSlots
<1>4. \A c \in CPUs : ~Counting(c)
  BY DEF Init, Counting, Idle
<1>5. QED
  BY <1>3, <1>4, FS_EmptySet
  DEF Init, TraceAssumption, ResetKeysApart, ZonesApart, NumbersBelow, OneEach

LEMMA SetupCalmInv ==
  ASSUME TraceAssumption, Types, CalmInv, [Next]_vars, NEW c \in CPUs, SetupProbe(c)
  PROVE  CalmInv'
<1> SUFFICES ASSUME calm', NoneDropped'
             PROVE  (disturbed = {} /\ ResetKeysApart /\ ZonesApart /\ NumbersBelow /\ OneEach)'
  BY DEF CalmInv
<1>1. PICK s \in Slots, r \in Requests :
        /\ Begins(c, s, r)
        /\ LET rivals == {d \in CPUs : Busy(d) /\ CounterOf(RequestOn(d)) = CounterOf(r)}
               others == {q \in ResetSlots : TagOf(q) = TagOf(s) \/ inflight[q].zlbas = r.zlbas}
           IN  /\ disturbed' = IF r.op = "reset" /\ others # {}
                               THEN disturbed \cup others \cup {s} ELSE disturbed
               /\ calm' = (calm /\ (r.op = "reset" => rivals = {} /\ others = {}))
  BY SetupEffect
<1>2. UNCHANGED <<ctr, full, z_reset_lat_map, completed>> /\ NoneDropped
  BY DEF SetupProbe, maps, NoneDropped, Dropped
<1>3. /\ calm /\ disturbed' = disturbed
      /\ r.op = "reset" => /\ \A d \in CPUs : Busy(d) => Key(d) # CounterOf(r)
                           /\ \A q \in ResetSlots : inflight[q].zlbas # r.zlbas
  BY <1>1 DEF Key
<1>4. /\ BeingSetUp(s)' /\ s \notin ResetSlots /\ inflight'[s] = r
      /\ ResetSlots' = IF r.op = "reset" THEN ResetSlots \cup {s} ELSE ResetSlots
      /\ \A q \in ResetSlots : /\ inflight'[q] = inflight[q] /\ q # s
                               /\ BeingSetUp(q)' <=> BeingSetUp(q)
  BY <1>1, SetupResets
<1>5. \A d \in CPUs \ {c} :
        Counting(d)' => /\ Counting(d) /\ cpu'[d] = cpu[d] /\ Busy(d)
                        /\ RequestOn(d)' = RequestOn(d) /\ Key(d)' = Key(d)
  <2>1. \A d \in CPUs \ {c} : cpu'[d] = cpu[d]
    BY <1>1 DEF Begins
  <2>2. QED
    BY <2>1, RequestsKept DEF Counting, Busy
<1>6. RequestOn(c)' = r /\ Key(c)' = CounterOf(r) /\ cpu'[c].seen = ctr[CounterOf(r)]
  BY <1>1 DEF Begins
<1>7. ResetKeysApart'
  BY <1>2, <1>3, <1>5, <1>6 DEF CalmInv, ResetKeysApart
<1>8. ZonesApart'
  BY <1>2, <1>3, <1>4 DEF CalmInv, ZonesApart
<1>9. NumbersBelow'
  BY <1>2, <1>3, <1>4 DEF CalmInv, NumbersBelow, NumberOf
<1>10. OneEach'
  BY <1>2, <1>3 DEF CalmInv, OneEach
<1>11. QED
  BY <1>2, <1>3, <1>7, <1>8, <1>9, <1>10 DEF CalmInv

LEMMA CountCalmInv ==
  ASSUME TraceAssumption, Types, CalmInv, [Next]_vars, NEW c \in CPUs, CountsReset(c)
  PROVE  CalmInv'
<1> SUFFICES ASSUME calm, NoneDropped'
             PROVE  (disturbed = {} /\ ResetKeysApart /\ ZonesApart /\ NumbersBelow /\ OneEach)'
  BY DEF CalmInv, CountsReset
<1>1. NoneDropped
  BY CtrTypes DEF CountsReset, NoneDropped, Dropped
<1>2. PICK zone \in ZoneStarts : zone = inflight[cpu[c].slot].zlbas
  BY ResetFacts DEF CountsReset
<1>3. /\ disturbed' = {} /\ UNCHANGED <<inflight, z_reset_lat_map, completed>>
      /\ ResetSlots' = ResetSlots /\ cpu[c].slot \in ResetSlots
      /\ \A q \in ResetSlots \ {cpu[c].slot} : BeingSetUp(q) => BeingSetUp(q)'
      /\ Key(c) = <<zone, "reset">> /\ Key(c) \in Counters
  BY <1>1, <1>2 DEF CalmInv, CountsReset
<1>4. cpu[c].seen = ctr[Key(c)]
  BY <1>1 DEF CalmInv, ResetKeysApart, CountsReset, Counted
<1>5. /\ ctr'[Key(c)] = ctr[Key(c)] + 1 /\ ctr[Key(c)] \in Nat
      /\ \A k \in Counters \ {Key(c)} : ctr'[k] = ctr[k]
  <2>1. Key(c) \notin full'
    BY <1>2, <1>3 DEF NoneDropped, Dropped
  <2>2. QED
    BY <1>3, <1>4, <2>1, CtrTypes DEF CountsReset, Counted, Types, MapTypes
<1>6. ~Counting(c)'
  BY DEF CountsReset, Counted, Counting, Idle
<1>7. \A d \in CPUs : Counting(d)' => /\ d # c /\ Counting(d) /\ cpu'[d] = cpu[d]
                                      /\ RequestOn(d)' = RequestOn(d) /\ Key(d)' = Key(d)
                                      /\ Key(d) \in Counters
  <2>1. \A d \in CPUs \ {c} : cpu'[d] = cpu[d]
    BY DEF CountsReset, Counted
  <2>2. QED
    BY <1>3, <1>6, <2>1, ProbeFacts DEF Counting, RequestOn, Key, Busy
<1>8. ResetKeysApart'
  <2>1. RequestOn(c).op = "reset" /\ Counting(c)
    BY DEF CountsReset, Counted
  <2>2. \A d \in CPUs : Counting(d)' /\ RequestOn(d).op = "reset" => Key(d) # Key(c)
    BY <1>1, <1>7, <2>1 DEF CalmInv, ResetKeysApart
  <2>3. \A d \in CPUs : Counting(d)' /\ RequestOn(d).op = "reset" => ctr'[Key(d)] = ctr[Key(d)]
    BY <1>5, <1>7, <2>2
  <2>4. QED
    BY <1>1, <1>7, <2>3 DEF CalmInv, ResetKeysApart
<1>9. ZonesApart'
  BY <1>1, <1>3 DEF CalmInv, ZonesApart
<1>10. /\ NumberOf(zone)' = NumberOf(zone) + 1 /\ NumberOf(zone) \in Nat
      /\ \A z \in ZoneStarts : z # zone => NumberOf(z)' = NumberOf(z)
  <2>1. \A z \in ZoneStarts : <<z, "reset">> \in Counters
    BY RequestFacts
  <2>2. NumberOf(zone) = ctr[Key(c)] /\ NumberOf(zone)' = ctr'[Key(c)]
    BY <1>3 DEF NumberOf
  <2>3. ASSUME NEW z \in ZoneStarts, z # zone
        PROVE  NumberOf(z)' = NumberOf(z)
    <3>1. <<z, "reset">> \in Counters \ {Key(c)}
      BY <1>3, <2>1, <2>3
    <3>2. QED
      BY <1>5, <3>1 DEF NumberOf
  <2>4. QED
    BY <1>5, <2>2, <2>3
<1>11. NumbersBelow'
  <2> SUFFICES ASSUME NEW e \in z_reset_lat_map
               PROVE  /\ e.number <= ctr'[<<e.zlbas, "reset">>]
                      /\ \A q \in ResetSlots :
                           ~BeingSetUp(q)' /\ inflight[q].zlbas = e.zlbas =>
                             e.number < ctr'[<<e.zlbas, "reset">>]
    BY <1>3 DEF NumbersBelow, NumberOf
  <2>1. e.zlbas \in ZoneStarts /\ e.number \in Nat
    BY DEF Types, MapTypes, EntryType
  <2>2. e.number <= NumberOf(e.zlbas)
    BY <1>1 DEF CalmInv, NumbersBelow
  <2>3. CASE e.zlbas = zone
    <3>1. e.number < NumberOf(zone)'
      BY <1>10, <2>1, <2>2, <2>3
    <3>2. e.number <= NumberOf(zone)'
      BY <1>10, <2>1, <2>2, <2>3
    <3>3. QED
      BY <2>3, <3>1, <3>2 DEF NumberOf
  <2>4. CASE e.zlbas # zone
    <3>1. NumberOf(e.zlbas)' = NumberOf(e.zlbas)
      BY <1>10, <2>1, <2>4
    <3>2. ASSUME NEW q \in ResetSlots, ~BeingSetUp(q)', inflight[q].zlbas = e.zlbas
          PROVE  e.number < NumberOf(e.zlbas)
      <4>1. q # cpu[c].slot
        BY <1>2, <2>4, <3>2
      <4>2. ~BeingSetUp(q)
        BY <1>3, <3>2, <4>1
      <4>3. QED
        BY <1>1, <3>2, <4>2 DEF CalmInv, NumbersBelow
    <3>3. QED
      BY <2>2, <3>1, <3>2 DEF NumberOf
  <2>5. QED
    BY <2>3, <2>4
<1>12. OneEach'
  BY <1>1, <1>3 DEF CalmInv, OneEach
<1>13. QED
  BY <1>3, <1>8, <1>9, <1>11, <1>12

(* What holds of the resets in flight while no reset begins or is counted. *)
LEMMA QuietCalm ==
  ASSUME TraceAssumption, Types, CalmInv, [Next]_vars, Quiet, calm, NoneDropped
  PROVE  /\ disturbed' = {} /\ ResetKeysApart' /\ ZonesApart'
         /\ \A e \in z_reset_lat_map :
              /\ e.number <= NumberOf(e.zlbas)'
              /\ \A q \in ResetSlots' :
                   ~BeingSetUp(q)' /\ inflight'[q].zlbas = e.zlbas =>
                     e.number < NumberOf(e.zlbas)'
<1>1. disturbed' = {}
  BY DEF Quiet, CalmInv
<1>2. \A c \in CPUs : Counting(c)' /\ RequestOn(c)'.op = "reset" =>
        /\ Counting(c) /\ cpu'[c] = cpu[c] /\ RequestOn(c)' = RequestOn(c)
        /\ Key(c)' = Key(c) /\ ctr'[Key(c)] = ctr[Key(c)]
  <2> SUFFICES ASSUME NEW c \in CPUs, Counting(c)', RequestOn(c)'.op = "reset"
               PROVE  /\ Counting(c) /\ cpu'[c] = cpu[c] /\ RequestOn(c)' = RequestOn(c)
                      /\ Key(c)' = Key(c) /\ ctr'[Key(c)] = ctr[Key(c)]
    OBVIOUS
  <2>1. Counting(c) /\ Busy(c) /\ cpu'[c] = cpu[c]
    BY DEF Quiet, Counting, Busy
  <2>2. cpu[c].slot \in Slots
    BY <2>1, ProbeFacts
  <2>3. cpu[c].slot \in ResetSlots'
    BY <2>1, <2>2 DEF ResetSlots, RequestOn
  <2>4. RequestOn(c)' = RequestOn(c)
    BY <2>1, <2>3 DEF Quiet, RequestOn
  <2>5. Key(c)' = Key(c)
    BY <2>4 DEF Key, CounterOf
  <2>6. Key(c) = <<RequestOn(c).zlbas, "reset">> /\ RequestOn(c).zlbas \in ZoneStarts
    BY <2>1, <2>4, ProbeFacts, RequestFacts
  <2>7. QED
    BY <2>1, <2>4, <2>5, <2>6 DEF Quiet
<1>3. ResetKeysApart'
  BY <1>2 DEF CalmInv, ResetKeysApart
<1>4. ZonesApart'
  BY DEF Quiet, CalmInv, ZonesApart
<1>5. \A e \in z_reset_lat_map : NumberOf(e.zlbas)' = NumberOf(e.zlbas)
  BY DEF Quiet, NumberOf, Types, MapTypes, EntryType
<1>6. \A q \in ResetSlots' : /\ q \in ResetSlots /\ inflight'[q] = inflight[q]
                             /\ ~BeingSetUp(q)' => ~BeingSetUp(q)
  BY DEF Quiet
<1>7. QED
  BY <1>1, <1>3, <1>4, <1>5, <1>6 DEF CalmInv, NumbersBelow

(* A completed reset has a zone of its own and a number above those of the *)
(* zone's entries: its latency overwrites none.                            *)
LEMMA CompleteCalmInv ==
  ASSUME TraceAssumption, Types, LatencyInv, CalmInv, [Next]_vars, Quiet,
         NEW s \in Slots, CompleteReset(s)
  PROVE  CalmInv'
<1> SUFFICES ASSUME calm, NoneDropped
             PROVE  (disturbed = {} /\ ResetKeysApart /\ ZonesApart /\ NumbersBelow /\ OneEach)'
  BY DEF CalmInv, Quiet, NoneDropped, Dropped
<1>0. PICK entry, zone : entry = LatencyEntry(s) /\ zone = inflight[s].zlbas
  OBVIOUS
<1>1. /\ s \in ResetSlots /\ ~BeingSetUp(s)
      /\ z_reset_lat_map' = Store(entry) /\ completed' = completed + 1
      /\ inflight' = [inflight EXCEPT ![s] = None]
  BY <1>0 DEF CompleteReset, ResetSlots
<1>2. reset_z_track_map[TagOf(s)] = zone
  BY <1>0, <1>1 DEF LatencyInv, Tracked, CalmInv
<1>3. entry.zlbas = zone /\ entry.number = NumberOf(zone) /\ zone \in ZoneStarts
  BY <1>0, <1>1, <1>2, ResetFacts DEF LatencyEntry, NumberOf
<1>4. s \notin ResetSlots'
  <2>1. inflight'[s] = None /\ None.op # "reset"
    BY <1>1, RequestFacts DEF Types, ProbeTypes
  <2>2. QED
    BY <2>1 DEF ResetSlots
<1>5. NumberOf(zone) \in Nat /\ NumberOf(zone)' = NumberOf(zone)
  BY <1>3, RequestFacts DEF NumberOf, Quiet, Types, MapTypes
<1>6. \A e \in z_reset_lat_map : e.zlbas = zone => e.number < NumberOf(zone) /\ e.number \in Nat
  BY <1>0, <1>1 DEF CalmInv, NumbersBelow, Types, MapTypes, EntryType
<1>7. \A e \in z_reset_lat_map : ~SameKey(e, entry)
  BY <1>3, <1>5, <1>6 DEF SameKey
<1>8. /\ z_reset_lat_map' = IF Cardinality(z_reset_lat_map) < MapKeys
                            THEN z_reset_lat_map \cup {entry} ELSE z_reset_lat_map
      /\ entry \notin z_reset_lat_map
  <2>1. entry \notin z_reset_lat_map
    BY <1>7 DEF SameKey
  <2>2. {e \in z_reset_lat_map : ~SameKey(e, entry)} = z_reset_lat_map
    BY <1>7
  <2>3. QED
    BY <1>1, <1>7, <2>1, <2>2 DEF Store
<1>9. OneEach'
  <2>1. /\ completed \in Nat /\ MapKeys \in Nat /\ IsFiniteSet(z_reset_lat_map)
        /\ OneEach /\ completed' = completed + 1
    BY <1>1 DEF CalmInv, TraceAssumption, Types, MapTypes, HistoryTypes
  <2>2. Cardinality(z_reset_lat_map \cup {entry}) = Cardinality(z_reset_lat_map) + 1
    BY <1>8, <2>1, FS_AddElement
  <2>3. QED
    BY <1>8, <2>1, <2>2 DEF OneEach
<1>10. \A q \in ResetSlots' : inflight'[q].zlbas # zone
  BY <1>0, <1>1, <1>4 DEF CalmInv, ZonesApart, Quiet
<1>11. /\ entry.number <= NumberOf(entry.zlbas)'
       /\ \A q \in ResetSlots' : inflight'[q].zlbas # entry.zlbas
  BY <1>3, <1>5, <1>10
<1>12. NumbersBelow'
  BY <1>8, <1>11, QuietCalm DEF NumbersBelow
<1>13. QED
  BY <1>9, <1>12, QuietCalm

LEMMA StepCalmInv ==
  ASSUME TraceAssumption, Types, LatencyInv, CalmInv, [Next]_vars
  PROVE  CalmInv'
<1>1. CASE Quiet /\ UNCHANGED <<z_reset_lat_map, completed>>
  <2> SUFFICES ASSUME calm, NoneDropped
               PROVE  (disturbed = {} /\ ResetKeysApart /\ ZonesApart /\ NumbersBelow /\ OneEach)'
    BY <1>1 DEF CalmInv, Quiet, NoneDropped, Dropped
  <2>1. OneEach'
    BY <1>1 DEF CalmInv, OneEach
  <2>2. NumbersBelow'
    BY <1>1, QuietCalm DEF NumbersBelow
  <2>3. QED
    BY <1>1, <2>1, <2>2, QuietCalm
<1>2. QED
  BY <1>1, SetupCalmInv, CountResets, CountCalmInv, CompleteCalmInv, QuietSteps

(* The counter in the key gives each reset call of a zone its own latency, *)
(* as it is meant to, as long as resets of one zone or tag do not overlap  *)
(* and the maps have room; and a number is always that of a reset of the   *)
(* zone, or 0 for a reset set up before the probes were attached or of a   *)
(* zone that found no room for a counter.                                  *)
THEOREM KeysNumberResets == Spec => []LatencyKeysNumberResets
<1> DEFINE Inv == LatencyInv /\ NumberInv /\ CalmInv
<1>1. Init => Inv
  BY TraceAssumption, InitLatencyInv, InitNumberInv, InitCalmInv
<1>2. IInv /\ Inv /\ [Next]_vars => Inv'
  BY TraceAssumption, StepLatencyInv, StepNumberInv, StepCalmInv DEF IInv
<1>3. Inv => LatencyKeysNumberResets
  BY DEF NumberInv, Numbers, CalmInv, OneEach, NoneDropped, Dropped, LatencyKeysNumberResets
<1>4. QED
  BY <1>1, <1>2, <1>3, IInvHolds, PTL DEF Spec
=============================================================================
