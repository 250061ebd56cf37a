------------------------------ MODULE NvmeTrace ------------------------------
(***************************************************************************)
(* The probes of zns-tools.nvme (trace.bt) on the commands of a ZNS device. *)
(*                                                                         *)
(* nvme_setup_cmd and nvme_complete_rq run on every CPU; the probes on     *)
(* them share the maps.  bpftrace turns @x++ and @x = @x + n into a lookup *)
(* and an update, so probes on two CPUs may overlap between the two.  A    *)
(* request is known to the probes by its tag, which the block layer keeps  *)
(* apart only within one hardware queue.  Commands may be in flight when   *)
(* the probes are attached.  zns-tools.nvme starts bpftrace with its own   *)
(* limit of entries in a map; the update of another key is lost without a  *)
(* word.                                                                   *)
(***************************************************************************)
EXTENDS Integers, FiniteSets

CONSTANTS
  CPUs,
  Queues,        (* hardware queues of the device                          *)
  Tags,          (* tags of a queue                                        *)
  Slots,         (* a queue and a tag for each request that can be in flight *)
  ZoneStarts,    (* the values of zlbas; a missing map entry reads as 0    *)
  Sizes,         (* the data of a read or write, in sectors                *)
  MapKeys,       (* the entries a map can hold: 4096                       *)
  MaybeInFlight, (* requests may have been set up before the probes        *)
  MaxCommands,   (* bound: commands set up                                 *)
  MaxClock       (* bound: time                                            *)

(* The maps of tags are never full: a queue of the kernel's NVMe driver is *)
(* at most 4095 commands deep.                                             *)
ASSUME TraceAssumption ==
  /\ IsFiniteSet(Tags) /\ Cardinality(Tags) <= MapKeys
  /\ Slots \subseteq Queues \X Tags
  /\ 0 \in ZoneStarts
  /\ ZoneStarts \subseteq Nat
  /\ Sizes \subseteq Nat \ {0}
  /\ MapKeys \in Nat \ {0}
  /\ MaybeInFlight \in BOOLEAN
  /\ MaxCommands \in Nat
  /\ MaxClock \in Nat \ {0}

TagOf(slot) == slot[2]

RwOps == {"write", "read"}
Ops == RwOps \cup {"reset", "reset_all"}

None == [op |-> "none", zlbas |-> 0, size |-> 0]

ResetOf(zlbas) == [op |-> "reset", zlbas |-> zlbas, size |-> 0]

(* zlbas is the zone the probe takes a request to be for.  The probe is on *)
(* the entry of nvme_setup_cmd, which only then fills the command in: for  *)
(* a reset, unless it is a passthrough one, the probe reads the address of *)
(* the last command that had the slot, of whatever zone, and so it does    *)
(* for a read or write of sector 0.  A zone append counts as a write.      *)
Requests ==
  [op : RwOps, zlbas : ZoneStarts, size : Sizes]
    \cup {ResetOf(zlbas) : zlbas \in ZoneStarts}
    \cup {[op |-> "reset_all", zlbas |-> 0, size |-> 0]}

(* The counter a request increases: z_rw_ctr_map, z_reset_ctr_map or       *)
(* reset_all_ctr.                                                          *)
CounterOf(request) == <<request.zlbas, request.op>>
Counters == ZoneStarts \X Ops

VARIABLES
  inflight,  (* the request in each slot                                   *)
  cpu,       (* the setup probe running on a CPU                           *)
  clock,     (* nsecs                                                      *)
  commands,
  (* the maps; a zero stands for no entry                                  *)
  ctr,       (* z_rw_ctr_map, z_reset_ctr_map, reset_all_ctr               *)
  z_data_map,
  reset_z_track_map,
  reset_lat_track_map,
  z_reset_lat_map, (* the entries <<zlbas, number>>, a set of records      *)
  (* history                                                               *)
  full,      (* the counters a full map has no entry for                   *)
  setups,    (* the commands set up for each counter                       *)
  raced,     (* the counters two probes were increasing at once            *)
  started,   (* when the reset in a slot was set up                        *)
  disturbed, (* the slots whose reset is not alone with its tag or zone    *)
  completed, (* the resets completed                                       *)
  calm       (* no reset was missed at the attach, raced or disturbed      *)

maps == <<ctr, z_data_map, reset_z_track_map, reset_lat_track_map, z_reset_lat_map>>
history == <<setups, raced, started, disturbed, completed, calm>>
vars == <<inflight, cpu, clock, commands, maps, full, history>>

Idle == [step |-> "idle"]

ResetSlots == {s \in Slots : inflight[s].op = "reset"}

Init ==
  /\ \E early \in IF MaybeInFlight THEN SUBSET Slots ELSE {{}}, z \in ZoneStarts :
       /\ inflight = [s \in Slots |-> IF s \in early
                                      THEN ResetOf(z)
                                      ELSE None]
       /\ disturbed = early
       /\ calm = (early = {})
  /\ cpu = [c \in CPUs |-> Idle]
  /\ clock = 1
  /\ commands = 0
  /\ ctr = [k \in Counters |-> 0]
  /\ z_data_map = [k \in Counters |-> 0]
  /\ reset_z_track_map = [t \in Tags |-> 0]
  /\ reset_lat_track_map = [t \in Tags |-> 0]
  /\ z_reset_lat_map = {}
  /\ full = {}
  /\ setups = [k \in Counters |-> 0]
  /\ raced = {}
  /\ started = [s \in Slots |-> 0]
  /\ completed = 0

-----------------------------------------------------------------------------
Busy(c) == cpu[c].step # "idle"

RequestOn(c) == inflight[cpu[c].slot]

BeingSetUp(s) == \E c \in CPUs : Busy(c) /\ cpu[c].slot = s

(* A command is set up: the probe looks its counter up.                    *)
SetupProbe(c) ==
  /\ ~Busy(c)
  /\ commands < MaxCommands
  /\ commands' = commands + 1
  /\ \E s \in Slots, r \in Requests :
       /\ inflight[s] = None
       /\ inflight' = [inflight EXCEPT ![s] = r]
       /\ cpu' = [cpu EXCEPT ![c] = [step |-> "counter", slot |-> s,
                                     seen |-> ctr[CounterOf(r)]]]
       /\ setups' = [setups EXCEPT ![CounterOf(r)] = @ + 1]
       /\ LET rivals == {d \in CPUs : Busy(d) /\ CounterOf(RequestOn(d)) = CounterOf(r)}
              others == {q \in ResetSlots : \/ TagOf(q) = TagOf(s)
                                            \/ inflight[q].zlbas = r.zlbas}
          IN  /\ raced' = IF rivals = {} THEN raced ELSE raced \cup {CounterOf(r)}
              /\ disturbed' = IF r.op = "reset" /\ others # {}
                              THEN disturbed \cup others \cup {s} ELSE disturbed
              /\ calm' = (calm /\ (r.op = "reset" => rivals = {} /\ others = {}))
  /\ UNCHANGED <<clock, maps, full, started, completed>>

(* Reads and writes are in one map, as are the resets.                     *)
InOneMap(k, j) == k[2] = j[2] \/ {k[2], j[2]} \subseteq RwOps

EntriesBeside(map, k) == {j \in Counters : InOneMap(k, j) /\ map[j] > 0}

(* A key that is there can be updated, another one only up to the limit.   *)
HasRoom(map, k) == map[k] > 0 \/ Cardinality(EntriesBeside(map, k)) < MapKeys

(* Wrong on purpose: the counter is updated with what it was.              *)
UpdateCounterOnce(c) ==
  LET k == CounterOf(RequestOn(c))
  IN  IF HasRoom(ctr, k)
      THEN ctr' = [ctr EXCEPT ![k] = IF @ = 0 THEN 1 ELSE cpu[c].seen] /\ full' = full
      ELSE ctr' = ctr /\ full' = full \cup {k}

(* @x++ writes what was looked up, plus one.                               *)
UpdateCounter(c) ==
  LET k == CounterOf(RequestOn(c))
  IN  IF HasRoom(ctr, k)
      THEN ctr' = [ctr EXCEPT ![k] = cpu[c].seen + 1] /\ full' = full
      ELSE ctr' = ctr /\ full' = full \cup {k}

(* A read or write goes on with the size of its data.                      *)
CountReadOrWrite(c) ==
  /\ cpu[c].step = "counter"
  /\ RequestOn(c).op \in RwOps
  /\ UpdateCounter(c)
  /\ cpu' = [cpu EXCEPT ![c].step = "data",
                        ![c].seen = z_data_map[CounterOf(RequestOn(c))]]
  /\ UNCHANGED <<inflight, clock, commands, z_data_map, reset_z_track_map,
                 reset_lat_track_map, z_reset_lat_map, history>>

AddData(c) ==
  /\ cpu[c].step = "data"
  /\ LET k == CounterOf(RequestOn(c))
     IN  z_data_map' = IF HasRoom(z_data_map, k)
                       THEN [z_data_map EXCEPT ![k] = cpu[c].seen + RequestOn(c).size]
                       ELSE z_data_map
  /\ cpu' = [cpu EXCEPT ![c] = Idle]
  /\ UNCHANGED <<inflight, clock, commands, ctr, reset_z_track_map,
                 reset_lat_track_map, z_reset_lat_map, full, history>>

(* Wrong on purpose: the zone is remembered only when there is none.       *)
CountResetKeepingZone(c) ==
  /\ cpu[c].step = "counter"
  /\ RequestOn(c).op = "reset"
  /\ UpdateCounter(c)
  /\ reset_z_track_map' =
       [reset_z_track_map EXCEPT ![TagOf(cpu[c].slot)] =
          IF @ = 0 THEN RequestOn(c).zlbas ELSE @]
  /\ reset_lat_track_map' =
       [reset_lat_track_map EXCEPT ![TagOf(cpu[c].slot)] = clock]
  /\ started' = [started EXCEPT ![cpu[c].slot] = clock]
  /\ cpu' = [cpu EXCEPT ![c] = Idle]
  /\ UNCHANGED <<inflight, clock, commands, z_data_map, z_reset_lat_map, setups, raced,
                 disturbed, completed, calm>>

(* A reset is remembered under its tag, with zone and time.                *)
CountReset(c) ==
  /\ cpu[c].step = "counter"
  /\ RequestOn(c).op = "reset"
  /\ UpdateCounter(c)
  /\ reset_z_track_map' =
       [reset_z_track_map EXCEPT ![TagOf(cpu[c].slot)] = RequestOn(c).zlbas]
  /\ reset_lat_track_map' =
       [reset_lat_track_map EXCEPT ![TagOf(cpu[c].slot)] = clock]
  /\ started' = [started EXCEPT ![cpu[c].slot] = clock]
  /\ cpu' = [cpu EXCEPT ![c] = Idle]
  /\ UNCHANGED <<inflight, clock, commands, z_data_map, z_reset_lat_map, setups, raced,
                 disturbed, completed, calm>>

CountResetAll(c) ==
  /\ cpu[c].step = "counter"
  /\ RequestOn(c).op = "reset_all"
  /\ UpdateCounter(c)
  /\ cpu' = [cpu EXCEPT ![c] = Idle]
  /\ UNCHANGED <<inflight, clock, commands, z_data_map, reset_z_track_map,
                 reset_lat_track_map, z_reset_lat_map, history>>

-----------------------------------------------------------------------------
(* Wrong on purpose: the operands of the difference are swapped.           *)
LatencyEntrySwapped(s) ==
  LET zlbas == reset_z_track_map[TagOf(s)]
  IN  [zlbas |-> zlbas, number |-> ctr[<<zlbas, "reset">>],
       latency |-> 0 - (clock - reset_lat_track_map[TagOf(s)])]

(* What the completion probe stores: the zone and the time found under the *)
(* tag, with the number of resets of that zone by now.                     *)
LatencyEntry(s) ==
  LET zlbas == reset_z_track_map[TagOf(s)]
  IN  [zlbas |-> zlbas, number |-> ctr[<<zlbas, "reset">>],
       latency |-> clock - reset_lat_track_map[TagOf(s)]]

SameKey(d, e) == d.zlbas = e.zlbas /\ d.number = e.number

(* Wrong on purpose: the zone is left out of the key.                      *)
StoreByNumber(entry) ==
  IF \/ \E e \in z_reset_lat_map : e.number = entry.number
     \/ Cardinality(z_reset_lat_map) < MapKeys
  THEN {e \in z_reset_lat_map : e.number # entry.number} \cup {entry}
  ELSE z_reset_lat_map

(* An entry with the same key is overwritten; another is added as long as  *)
(* the map has room.                                                       *)
Store(entry) ==
  IF \/ \E e \in z_reset_lat_map : SameKey(e, entry)
     \/ Cardinality(z_reset_lat_map) < MapKeys
  THEN {e \in z_reset_lat_map : ~SameKey(e, entry)} \cup {entry}
  ELSE z_reset_lat_map

CompleteReset(s) ==
  /\ inflight[s].op = "reset"
  /\ ~BeingSetUp(s)
  /\ z_reset_lat_map' = Store(LatencyEntry(s))
  /\ inflight' = [inflight EXCEPT ![s] = None]
  /\ disturbed' = disturbed \ {s}
  /\ completed' = completed + 1
  /\ UNCHANGED <<cpu, clock, commands, ctr, z_data_map, reset_z_track_map,
                 reset_lat_track_map, full, setups, raced, started, calm>>

(* The probe does nothing for other commands.                              *)
CompleteOther(s) ==
  /\ inflight[s].op \in Ops \ {"reset"}
  /\ ~BeingSetUp(s)
  /\ inflight' = [inflight EXCEPT ![s] = None]
  /\ UNCHANGED <<cpu, clock, commands, maps, full, history>>

Tick ==
  /\ clock < MaxClock
  /\ clock' = clock + 1
  /\ UNCHANGED <<inflight, cpu, commands, maps, full, history>>

Next ==
  \/ \E c \in CPUs : \/ SetupProbe(c)
                     \/ CountReadOrWrite(c) \/ AddData(c)
                     \/ CountReset(c) \/ CountResetAll(c)
  \/ \E s \in Slots : CompleteReset(s) \/ CompleteOther(s)
  \/ Tick

Spec == Init /\ [][Next]_vars
-----------------------------------------------------------------------------
(* Properties.                                                             *)

(* The maps hold times, zones and counts, also when a reset completes that *)
(* was never seen, and a request is there while its setup is traced.       *)
TypeOK ==
  /\ inflight \in [Slots -> Requests \cup {None}]
  /\ \A c \in CPUs : Busy(c) =>
       /\ cpu[c].step \in {"counter", "data"}
       /\ cpu[c].slot \in Slots
       /\ RequestOn(c) # None
  /\ clock \in 1 .. MaxClock
  /\ ctr \in [Counters -> 0 .. MaxCommands]
  /\ z_data_map \in [Counters -> Nat]
  /\ reset_z_track_map \in [Tags -> ZoneStarts]
  /\ reset_lat_track_map \in [Tags -> 0 .. MaxClock]
  /\ \A e \in z_reset_lat_map : e.zlbas \in ZoneStarts /\ e.number \in Nat /\ e.latency \in Nat
  /\ Cardinality(z_reset_lat_map) <= MapKeys

(* The probes whose update of a counter is still to come.                  *)
Pending(k) ==
  {c \in CPUs : cpu[c].step = "counter" /\ CounterOf(RequestOn(c)) = k}

(* No counter ever exceeds the commands set up, whatever the CPUs do, and  *)
(* a counter that no two probes increased at once has them all, or none of *)
(* them when its map was full.  plot.py divides the data of a zone by its  *)
(* counter: whenever there is data there is a counter, also when the trace *)
(* ends within a probe and after lost updates, unless the counter's map    *)
(* was full.                                                               *)
CountersCountSetups ==
  \A k \in Counters :
    /\ ctr[k] <= setups[k]
    /\ k \in full => ctr[k] = 0
    /\ k \notin raced \cup full => ctr[k] + Cardinality(Pending(k)) = setups[k]
    /\ k \notin full /\ z_data_map[k] > 0 => ctr[k] > 0

(* A latency is stored for the zone the completed reset was counted for,   *)
(* and is the time since its setup, unless a reset that overlaps it has    *)
(* its tag or its zone; whatever was set up and completed in between.      *)
(* Otherwise the map was full and is left as it is.                        *)
LatencyOfItsReset ==
  [][\A s \in Slots :
       inflight[s].op = "reset" /\ inflight'[s] = None /\ s \notin disturbed =>
         \/ \E e \in z_reset_lat_map' : /\ e.zlbas = inflight[s].zlbas
                                        /\ e.latency = clock - started[s]
         \/ Cardinality(z_reset_lat_map) = MapKeys /\ UNCHANGED z_reset_lat_map]_vars

(* The counter in the key is meant to give each reset call of a zone its   *)
(* own latency (zns-tools.nvme/README.md).  It does, up to the limit of    *)
(* the map, as long as no reset overlapped another of its zone or tag and  *)
(* every zone has a counter; and a number is always that of a reset of the *)
(* zone, 0 only of one set up before the probes were attached or of a zone *)
(* without a counter.                                                      *)
LatencyKeysNumberResets ==
  /\ \A e \in z_reset_lat_map :
       /\ e.number <= setups[<<e.zlbas, "reset">>]
       /\ e.number = 0 => MaybeInFlight \/ <<e.zlbas, "reset">> \in full
  /\ calm /\ (\A z \in ZoneStarts : <<z, "reset">> \notin full) =>
       Cardinality(z_reset_lat_map) = IF completed < MapKeys THEN completed ELSE MapKeys
=============================================================================
