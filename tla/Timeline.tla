------------------------------ MODULE Timeline ------------------------------
(***************************************************************************)
(* zns-tools.app: bpftrace runs the probes on several layers, each layer's *)
(* tracer a process of its own that attaches some time after the script    *)
(* started it and leaves on its own timer; when all are gone, tracegen.py  *)
(* makes one timeline of their files.                                      *)
(*                                                                         *)
(* An event tracer (f2fs, vfs, mm) keeps its events in a map with a limit  *)
(* and empties it regularly: print and clear are requests in a buffer of   *)
(* limited size, which bpftrace serves one by one while the probes go on;  *)
(* what finds the buffer full is dropped, and the file says so.  The inode *)
(* tracer keeps the last name given to each inode; the RocksDB tracer the  *)
(* starts and durations of flushes and compactions.  Maps left at the exit *)
(* are printed.  The kernel, RocksDB and bpftrace are external.            *)
(*                                                                         *)
(* nsecs is the number of calls so far: no two probes read the same time.  *)
(***************************************************************************)
EXTENDS Integers, Sequences, FiniteSets

CONSTANTS
  Layers,       (* the event tracers                                       *)
  Setups,       (* the tracers the script starts, as its user edits it     *)
  Inodes,
  Names,
  NamedBefore,  (* [Inodes -> Names \cup {NoName}]: names from before      *)
  NoName,
  Threads,      (* of RocksDB                                              *)
  Addresses,    (* where on its stack a thread has CompactionJobStats      *)
  MapKeys,      (* BPFTRACE_MAP_KEYS_MAX of each tracer                    *)
  BufferSize,   (* requests that fit the buffer                            *)
  MaxCalls,     (* bound: probed calls                                     *)
  MaxIntervals  (* bound: intervals in the trace                           *)

Tracers == Layers \cup {"inode", "rocksdb"}

ASSUME TimelineAssumption ==
  /\ {"inode", "rocksdb"} \cap Layers = {}
  /\ \A setup \in Setups : setup \subseteq Tracers
  /\ NoName \notin Names
  /\ NamedBefore \in [Inodes -> Names \cup {NoName}]
  /\ MapKeys \in [Tracers -> Nat \ {0}]
  /\ BufferSize \in Nat
  /\ MaxCalls \in Nat
  /\ MaxIntervals \in Nat

VARIABLES
  (* the system traced                                                     *)
  nsecs,
  name_of,      (* the name each inode was given last                      *)
  job,          (* what a thread runs: a flush or compaction, or Idle      *)
  (* bpftrace                                                              *)
  tracer,       (* starting, tracing, leaving or gone                      *)
  events,       (* the event map of each layer                             *)
  buffer,       (* the requests of each layer not served yet               *)
  firing,       (* the layers that asked to print and not yet to clear     *)
  intervals,
  file,         (* the lines each layer's tracer has printed               *)
  inodes,       (* @inodes                                                 *)
  flush_track,  (* @flush_track_map[FLUSH], 0 before the first             *)
  compaction_track,
  durations,    (* @flush and @compaction, by <<kind, start, tid>>         *)
  (* tracegen.py                                                           *)
  gen,          (* waiting, inodes, files, written or refused              *)
  watch_inodes,
  parsed,       (* the layers whose file was parsed                        *)
  timeline,
  (* history                                                               *)
  happened,     (* every event and the name of its inode then              *)
  ran,          (* every job whose end was traced                          *)
  full,         (* the events a full map had no room for                   *)
  no_start,     (* the jobs whose start a full map had no room for         *)
  no_end,       (* the times of ends a full map had no room for            *)
  erased,       (* the events cleared but never printed                    *)
  named_at,     (* when each inode was given its name                      *)
  traced_at     (* when it was given the name in @inodes                   *)

system == <<nsecs, name_of, job>>
event_maps == <<events, buffer, firing, intervals, file>>
job_maps == <<flush_track, compaction_track, durations>>
generator == <<gen, watch_inodes, parsed, timeline>>
event_history == <<happened, erased>>
full_maps == <<full, no_start, no_end>>
name_history == <<named_at, traced_at>>
vars == <<system, tracer, event_maps, inodes, job_maps, generator,
          event_history, ran, full_maps, name_history>>

Idle == [kind |-> "idle"]
Jobs == {"flush", "compaction"}

Flush(start, traced) == [kind |-> "flush", start |-> start, traced |-> traced]

(* What the probes of a compaction call its id is the address of its       *)
(* CompactionJobStats, on the stack of its thread.                         *)
Compaction(start, traced, stats) ==
  [kind |-> "compaction", start |-> start, traced |-> traced, stats |-> stats]

(* A job is known by its start; of those from before the trace the starts  *)
(* are negative.                                                           *)
JobBefore(kind, id, stats) ==
  CASE kind = "idle"       -> Idle
    [] kind = "flush"      -> Flush(-id, FALSE)
    [] kind = "compaction" -> Compaction(-id, FALSE, stats)

JobsBefore(early, id, at) ==
  [t \in Threads |-> JobBefore(early[t], id[t], <<t, at[t]>>)]

(* Jobs may run, and inodes have names, before any probe.  Without RocksDB *)
(* probes it does not matter what runs.                                    *)
Init ==
  /\ nsecs = 0
  /\ \E setup \in Setups :
       tracer = [t \in Tracers |-> IF t \in setup THEN "starting" ELSE "gone"]
  /\ name_of = NamedBefore
  /\ \E early \in [Threads -> Jobs \cup {"idle"}], id \in [Threads -> 1 .. Cardinality(Threads)],
        at \in [Threads -> Addresses] :
       /\ \A t, u \in Threads : id[t] = id[u] => t = u
       /\ \A t \in Threads : early[t] # "idle" => tracer["rocksdb"] # "gone"
       /\ job = JobsBefore(early, id, at)
  /\ events = [l \in Layers |-> {}]
  /\ buffer = [l \in Layers |-> <<>>]
  /\ firing = {}
  /\ intervals = 0
  /\ file = [l \in Layers |-> <<>>]
  /\ inodes = <<>>
  /\ flush_track = 0
  /\ compaction_track = <<>>
  /\ durations = <<>>
  /\ gen = "waiting"
  /\ watch_inodes = <<>>
  /\ parsed = {}
  /\ timeline = {}
  /\ happened = {}
  /\ ran = {}
  /\ full = {}
  /\ no_start = {}
  /\ no_end = {}
  /\ erased = {}
  /\ named_at = [i \in Inodes |-> 0]
  /\ traced_at = [i \in Inodes |-> 0]

(* A map from some keys, with the entry of one set.                        *)
WithEntry(map, key, value) ==
  [k \in DOMAIN map \cup {key} |-> IF k = key THEN value ELSE map[k]]

HasRoom(map, key, limit) ==
  key \in DOMAIN map \/ Cardinality(DOMAIN map) < limit

-----------------------------------------------------------------------------
(* Probed calls.  A call that no tracer sees leaves nothing behind, but    *)
(* for a new name.                                                         *)

Call(t) == tracer[t] = "tracing" /\ nsecs < MaxCalls /\ nsecs' = nsecs + 1
Now == nsecs + 1

(* A probe of a layer, such as f2fs_submit_page_write or vfs_open.         *)
EventCall(layer, i) ==
  LET event == [at |-> Now, layer |-> layer, ino |-> i]
  IN  /\ Call(layer)
      /\ name_of[i] # NoName
      /\ happened' = happened \cup {[event |-> event, name |-> name_of[i]]}
      /\ IF Cardinality(events[layer]) < MapKeys[layer]
         THEN events' = [events EXCEPT ![layer] = @ \cup {event}] /\ UNCHANGED full
         ELSE full' = full \cup {event} /\ UNCHANGED events
  /\ UNCHANGED <<name_of, job, tracer, buffer, firing, intervals, file, inodes, job_maps,
                 generator, erased, ran, no_start, no_end, name_history>>

(* Wrong on purpose: an inode keeps the name it had first.                 *)
NameInodeOnce(i, n) ==
  /\ nsecs < MaxCalls
  /\ nsecs' = Now
  /\ name_of' = [name_of EXCEPT ![i] = n]
  /\ IF tracer["inode"] = "tracing" /\ HasRoom(inodes, i, MapKeys["inode"])
     THEN /\ inodes' = IF i \in DOMAIN inodes THEN inodes ELSE WithEntry(inodes, i, n)
          /\ traced_at' = [traced_at EXCEPT ![i] = Now]
     ELSE UNCHANGED <<inodes, traced_at>>
  /\ named_at' = [named_at EXCEPT ![i] = Now]
  /\ UNCHANGED <<job, tracer, event_maps, job_maps, generator, event_history, ran, full_maps>>

(* f2fs_init_inode_metadata: an inode is created, linked, moved, or its    *)
(* number used again.                                                      *)
NameInode(i, n) ==
  /\ nsecs < MaxCalls
  /\ nsecs' = Now
  /\ name_of' = [name_of EXCEPT ![i] = n]
  /\ IF tracer["inode"] = "tracing" /\ HasRoom(inodes, i, MapKeys["inode"])
     THEN /\ inodes' = WithEntry(inodes, i, n)
          /\ traced_at' = [traced_at EXCEPT ![i] = Now]
     ELSE UNCHANGED <<inodes, traced_at>>
  /\ named_at' = [named_at EXCEPT ![i] = Now]
  /\ UNCHANGED <<job, tracer, event_maps, job_maps, generator, event_history, ran, full_maps>>

(* FlushJob::Run and NotifyOnCompactionBegin.                              *)
BeginFlush(t) ==
  /\ Call("rocksdb")
  /\ job[t] = Idle
  /\ job' = [job EXCEPT ![t] = Flush(Now, TRUE)]
  /\ flush_track' = Now
  /\ UNCHANGED <<name_of, tracer, event_maps, inodes, compaction_track, durations,
                 generator, event_history, ran, full_maps, name_history>>

(* The stack of a thread is used again: a compaction may replace the start *)
(* of one before it.                                                       *)
BeginCompaction(t, stats) ==
  LET new == Compaction(Now, TRUE, stats)
  IN  /\ Call("rocksdb")
      /\ job[t] = Idle
      /\ job' = [job EXCEPT ![t] = new]
      /\ IF HasRoom(compaction_track, stats, MapKeys["rocksdb"])
         THEN /\ compaction_track' = WithEntry(compaction_track, stats, Now)
              /\ UNCHANGED no_start
         ELSE no_start' = no_start \cup {new} /\ UNCHANGED compaction_track
  /\ UNCHANGED <<name_of, tracer, event_maps, inodes, flush_track, durations,
                 generator, event_history, ran, full, no_end, name_history>>

(* Wrong on purpose: compactions share one start like the flushes do.      *)
StartOfLast(ended) ==
  IF ended.kind = "flush" THEN flush_track
  ELSE IF DOMAIN compaction_track = {} THEN 0
  ELSE compaction_track[CHOOSE s \in DOMAIN compaction_track :
         \A other \in DOMAIN compaction_track : compaction_track[other] <= compaction_track[s]]

(* What is not in a map reads as 0.                                        *)
StartOf(ended) ==
  IF ended.kind = "flush" THEN flush_track
  ELSE IF ended.stats \in DOMAIN compaction_track THEN compaction_track[ended.stats]
  ELSE 0

(* Wrong on purpose: the times are swapped.                                *)
DurationBackwards(start) == start - Now

Duration(start) == Now - start

OfKind(kind) == [key \in {key \in DOMAIN durations : key[1] = kind} |-> durations[key]]

(* The return of FlushJob::Run, and NotifyOnCompactionCompleted.  Neither  *)
(* takes the start out of its map.                                         *)
EndJob(t) ==
  LET key == <<job[t].kind, StartOf(job[t]), t>>
  IN  /\ Call("rocksdb")
      /\ job[t] # Idle
      /\ job[t].kind = "flush" => job[t].traced
      /\ job' = [job EXCEPT ![t] = Idle]
      /\ ran' = ran \cup {[job |-> job[t], end |-> Now, tid |-> t]}
      /\ IF HasRoom(OfKind(job[t].kind), key, MapKeys["rocksdb"])
         THEN durations' = WithEntry(durations, key, Duration(key[2])) /\ UNCHANGED no_end
         ELSE no_end' = no_end \cup {Now} /\ UNCHANGED durations
  /\ UNCHANGED <<name_of, tracer, event_maps, inodes, flush_track, compaction_track,
                 generator, event_history, full, no_start, name_history>>

(* A uretprobe fires for calls entered behind its attaching.               *)
EndUnseenFlush(t) ==
  /\ job[t] # Idle
  /\ job[t].kind = "flush" /\ ~job[t].traced
  /\ job' = [job EXCEPT ![t] = Idle]
  /\ UNCHANGED <<nsecs, name_of, tracer, event_maps, inodes, job_maps, generator,
                 event_history, ran, full_maps, name_history>>

-----------------------------------------------------------------------------
(* bpftrace.                                                               *)

Attach(t) ==
  /\ tracer[t] = "starting"
  /\ tracer' = [tracer EXCEPT ![t] = "tracing"]
  /\ UNCHANGED <<system, event_maps, inodes, job_maps, generator, event_history,
                 ran, full_maps, name_history>>

MapLine(entries) == [kind |-> "map", entries |-> entries]
LostLine == [kind |-> "events"]

Request(l, what) ==
  IF Len(buffer[l]) < BufferSize
  THEN buffer' = [buffer EXCEPT ![l] = Append(@, what)] /\ UNCHANGED file
  ELSE file' = [file EXCEPT ![l] = Append(@, LostLine)] /\ UNCHANGED buffer

(* interval:ms: two requests, of which either may find no room.            *)
RequestPrint(l) ==
  /\ tracer[l] = "tracing"
  /\ l \notin firing
  /\ intervals < MaxIntervals
  /\ intervals' = intervals + 1
  /\ firing' = firing \cup {l}
  /\ Request(l, "print")
  /\ UNCHANGED <<system, tracer, events, inodes, job_maps, generator, event_history,
                 ran, full_maps, name_history>>

RequestClear(l) ==
  /\ l \in firing
  /\ firing' = firing \ {l}
  /\ Request(l, "clear")
  /\ UNCHANGED <<system, tracer, events, intervals, inodes, job_maps, generator,
                 event_history, ran, full_maps, name_history>>

ServePrint(l) ==
  /\ buffer[l] # <<>>
  /\ Head(buffer[l]) = "print"
  /\ buffer' = [buffer EXCEPT ![l] = Tail(@)]
  /\ file' = [file EXCEPT ![l] = Append(@, MapLine(events[l]))]
  /\ UNCHANGED <<system, tracer, events, firing, intervals, inodes, job_maps, generator,
                 event_history, ran, full_maps, name_history>>

Printed(l) == UNION {file[l][k].entries : k \in {k \in DOMAIN file[l] : file[l][k].kind = "map"}}

ServeClear(l) ==
  /\ buffer[l] # <<>>
  /\ Head(buffer[l]) = "clear"
  /\ buffer' = [buffer EXCEPT ![l] = Tail(@)]
  /\ events' = [events EXCEPT ![l] = {}]
  /\ erased' = erased \cup (events[l] \ Printed(l))
  /\ UNCHANGED <<system, tracer, firing, intervals, file, inodes, job_maps, generator,
                 happened, ran, full_maps, name_history>>

(* interval:s: the probes are detached.                                    *)
Leave(t) ==
  /\ tracer[t] = "tracing"
  /\ tracer' = [tracer EXCEPT ![t] = "leaving"]
  /\ UNCHANGED <<system, event_maps, inodes, job_maps, generator, event_history,
                 ran, full_maps, name_history>>

(* What is left in the maps is printed; @flush_track_map and               *)
(* @compaction_track_map are cleared before.                               *)
Exit(t) ==
  /\ tracer[t] = "leaving"
  /\ t \in Layers => t \notin firing /\ buffer[t] = <<>>
  /\ tracer' = [tracer EXCEPT ![t] = "gone"]
  /\ file' = IF t \in Layers THEN [file EXCEPT ![t] = Append(@, MapLine(events[t]))]
             ELSE file
  /\ UNCHANGED <<system, events, buffer, firing, intervals, inodes, job_maps, generator,
                 event_history, ran, full_maps, name_history>>

-----------------------------------------------------------------------------
(* tracegen.py.                                                            *)

(* zns-tools.app waits for all tracers.                                    *)
Generate ==
  /\ gen = "waiting"
  /\ \A t \in Tracers : tracer[t] = "gone"
  /\ gen' = "files"
  /\ watch_inodes' = inodes
  /\ UNCHANGED <<system, tracer, event_maps, inodes, job_maps, parsed, timeline,
                 event_history, ran, full_maps, name_history>>

(* The events of a file whose inode has a name, each with its line.        *)
Instants(l) ==
  UNION {{[ph |-> "i", line |-> k, event |-> e, file |-> watch_inodes[e.ino]] :
            e \in {e \in file[l][k].entries : e.ino \in DOMAIN watch_inodes}} :
         k \in {k \in DOMAIN file[l] : file[l][k].kind = "map"}}

HasLost(l) == \E k \in DOMAIN file[l] : file[l][k] = LostLine

(* Wrong on purpose: a line of lost events is passed over.                 *)
ParseLayerAnyway(l) ==
  /\ gen = "files"
  /\ l \notin parsed
  /\ parsed' = parsed \cup {l}
  /\ timeline' = timeline \cup Instants(l)
  /\ UNCHANGED <<system, tracer, event_maps, inodes, job_maps, gen, watch_inodes,
                 event_history, ran, full_maps, name_history>>

(* parse_f2fs_and_vfs_probe_data; the first line of lost events ends the   *)
(* program before anything is written.                                     *)
ParseLayer(l) ==
  /\ gen = "files"
  /\ l \notin parsed
  /\ \/ /\ HasLost(l)
        /\ gen' = "refused"
        /\ UNCHANGED <<parsed, timeline>>
     \/ /\ ~HasLost(l)
        /\ parsed' = parsed \cup {l}
        /\ timeline' = timeline \cup Instants(l)
        /\ UNCHANGED gen
  /\ UNCHANGED <<system, tracer, event_maps, inodes, job_maps, watch_inodes,
                 event_history, ran, full_maps, name_history>>

Spans ==
  {[ph |-> "B/E", name |-> key[1], begin |-> key[2], end |-> key[2] + durations[key],
    tid |-> key[3]] : key \in DOMAIN durations}

(* parse_rocksdb_probe_data, and the file written.                         *)
WriteTimeline ==
  /\ gen = "files"
  /\ parsed = Layers
  /\ gen' = "written"
  /\ timeline' = timeline \cup Spans
  /\ UNCHANGED <<system, tracer, event_maps, inodes, job_maps, watch_inodes, parsed,
                 event_history, ran, full_maps, name_history>>

Finished == gen \in {"written", "refused"} /\ UNCHANGED vars

Next ==
  \/ \E l \in Layers, i \in Inodes : EventCall(l, i)
  \/ \E i \in Inodes, n \in Names : NameInode(i, n)
  \/ \E t \in Threads : BeginFlush(t) \/ EndJob(t) \/ EndUnseenFlush(t)
  \/ \E t \in Threads, at \in Addresses : BeginCompaction(t, <<t, at>>)
  \/ \E t \in Tracers : Attach(t) \/ Leave(t) \/ Exit(t)
  \/ \E l \in Layers : RequestPrint(l) \/ RequestClear(l) \/ ServePrint(l) \/ ServeClear(l) \/ ParseLayer(l)
  \/ Generate
  \/ WriteTimeline
  \/ Finished

Spec == Init /\ [][Next]_vars

-----------------------------------------------------------------------------
(* Properties.                                                             *)

EventType == [at : 1 .. MaxCalls, layer : Layers, ino : Inodes]

(* The maps hold no more keys than bpftrace allows, of their type.         *)
TypeOK ==
  /\ nsecs \in 0 .. MaxCalls
  /\ name_of \in [Inodes -> Names \cup {NoName}]
  /\ tracer \in [Tracers -> {"starting", "tracing", "leaving", "gone"}]
  /\ \A l \in Layers :
       /\ events[l] \subseteq EventType
       /\ Cardinality(events[l]) <= MapKeys[l]
       /\ Len(buffer[l]) <= BufferSize
  /\ DOMAIN inodes \subseteq Inodes
  /\ Cardinality(DOMAIN inodes) <= MapKeys["inode"]
  /\ \A i \in DOMAIN inodes : inodes[i] \in Names
  /\ flush_track \in 0 .. nsecs
  /\ DOMAIN compaction_track \subseteq Threads \X Addresses
  /\ Cardinality(DOMAIN compaction_track) <= MapKeys["rocksdb"]
  /\ \A stats \in DOMAIN compaction_track : compaction_track[stats] \in 1 .. nsecs
  /\ \A key \in DOMAIN durations :
       key \in Jobs \X (0 .. nsecs) \X Threads /\ durations[key] \in 0 .. nsecs
  /\ gen \in {"waiting", "files", "written", "refused"}
  /\ parsed \subseteq Layers

Shown(event) == {x \in timeline : x.ph = "i" /\ x.event = event}

(* A timeline that is written shows an event of the traced time once, and  *)
(* never twice although a request to clear may be lost; or not at all, and *)
(* then its map was full, it came between print and clear, or its inode    *)
(* got no name while the inode tracer looked and had room.                 *)
EventsShownOnce ==
  gen = "written" =>
    \A h \in happened :
      LET e == h.event
          missed == \/ e \in full
                    \/ e \in erased
                    \/ traced_at[e.ino] = 0
      IN  Cardinality(Shown(e)) = IF missed THEN 0 ELSE 1

(* The file of an event is the one its inode belonged to then, unless the  *)
(* inode got another name later, or one the inode tracer missed.           *)
FileIsOfItsTime ==
  gen = "written" =>
    \A h \in happened :
      LET i == h.event.ino
      IN  \A x \in Shown(h.event) :
            x.file # h.name => named_at[i] > h.event.at \/ named_at[i] # traced_at[i]

FlushStarts ==
  {j.start : j \in {j \in {r.job : r \in ran} \cup {job[t] : t \in Threads} :
                       j.kind = "flush" /\ j.traced}}

MissedStart(r) == ~r.job.traced \/ r.job \in no_start

(* Where a job that ended may be shown to begin: a compaction at its       *)
(* start, or at 0 when the map did not get it (of which the README says at *)
(* one place that it is dropped), and a flush at its start or where a      *)
(* later one began.                                                        *)
BeginIsKnown(begin, r) ==
  CASE r.job.kind = "compaction" -> begin = IF MissedStart(r) THEN 0 ELSE r.job.start
    [] r.job.kind = "flush" ->
         \/ begin = r.job.start
         \/ begin \in FlushStarts /\ r.job.start < begin /\ begin < r.end

SpanEnds == {x.end : x \in {x \in timeline : x.ph = "B/E"}}

(* Nothing is shown but jobs whose end was traced, with that end and a     *)
(* known begin; and all of those whose start was traced too, unless the    *)
(* map of the durations was full.                                          *)
JobsShownWithTheirEnds ==
  gen = "written" =>
    /\ \A x \in {x \in timeline : x.ph = "B/E"} :
         \E r \in ran : /\ r.job.kind = x.name /\ r.tid = x.tid /\ r.end = x.end
                       /\ BeginIsKnown(x.begin, r)
    /\ \A r \in ran : MissedStart(r) \/ r.end \in SpanEnds \/ r.end \in no_end
=============================================================================
