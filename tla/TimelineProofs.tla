--------------------------- MODULE TimelineProofs ---------------------------
(***************************************************************************)
(* Theorems about the traced events, the names of their inodes and the     *)
(* jobs of RocksDB: for any number of layers, inodes, threads, calls and   *)
(* intervals, any size of the maps and buffers, and any setup.             *)
(***************************************************************************)
EXTENDS Timeline, FiniteSetTheorems, TLAPS

Stats == Threads \X Addresses

Started ==
  [kind : {"flush"}, start : Int, traced : BOOLEAN]
    \cup [kind : {"compaction"}, start : Int, traced : BOOLEAN, stats : Stats]

JobType == {Idle} \cup Started

LineType == [kind : {"map"}, entries : SUBSET EventType] \cup {LostLine}

Requests == {"print", "clear"}

-----------------------------------------------------------------------------
(* Types.                                                                  *)

SystemTypes ==
  /\ nsecs \in 0 .. MaxCalls
  /\ name_of \in [Inodes -> Names \cup {NoName}]
  /\ job \in [Threads -> JobType]
  /\ tracer \in [Tracers -> {"starting", "tracing", "leaving", "gone"}]

EventTypes ==
  /\ events \in [Layers -> SUBSET EventType]
  /\ \A l \in Layers : IsFiniteSet(events[l]) /\ Cardinality(events[l]) <= MapKeys[l]
  /\ buffer \in [Layers -> Seq(Requests)]
  /\ \A l \in Layers : Len(buffer[l]) <= BufferSize
  /\ firing \subseteq Layers
  /\ full \cup erased \subseteq EventType
  /\ file \in [Layers -> Seq(LineType)]

NameTypes ==
  /\ inodes \in [DOMAIN inodes -> Names]
  /\ DOMAIN inodes \subseteq Inodes
  /\ IsFiniteSet(DOMAIN inodes)
  /\ Cardinality(DOMAIN inodes) <= MapKeys["inode"]

TrackTypes ==
  /\ flush_track \in 0 .. nsecs
  /\ compaction_track \in [DOMAIN compaction_track -> Nat]
  /\ DOMAIN compaction_track \subseteq Stats
  /\ \A s \in DOMAIN compaction_track : compaction_track[s] \in 1 .. nsecs
  /\ IsFiniteSet(DOMAIN compaction_track)
  /\ Cardinality(DOMAIN compaction_track) <= MapKeys["rocksdb"]

DurationTypes ==
  /\ durations \in [DOMAIN durations -> Nat]
  /\ \A key \in DOMAIN durations :
       key \in Jobs \X (0 .. nsecs) \X Threads /\ durations[key] \in 0 .. nsecs

GenTypes ==
  /\ gen \in {"waiting", "files", "written", "refused"}
  /\ parsed \subseteq Layers

Types == SystemTypes /\ EventTypes /\ NameTypes /\ TrackTypes /\ DurationTypes /\ GenTypes

-----------------------------------------------------------------------------
(* A map of bpftrace.                                                      *)

(* An entry set where there is room keeps the map within its limit.        *)
LEMMA EntryFits ==
  ASSUME NEW map, IsFiniteSet(DOMAIN map), NEW key, NEW value,
         NEW limit \in Nat, Cardinality(DOMAIN map) <= limit,
         HasRoom(map, key, limit)
  PROVE  /\ IsFiniteSet(DOMAIN WithEntry(map, key, value))
         /\ Cardinality(DOMAIN WithEntry(map, key, value)) <= limit
<1>1. DOMAIN WithEntry(map, key, value) = DOMAIN map \cup {key}
  BY DEF WithEntry
<1>2. /\ IsFiniteSet(DOMAIN map \cup {key})
      /\ Cardinality(DOMAIN map \cup {key})
           = IF key \in DOMAIN map THEN Cardinality(DOMAIN map)
             ELSE Cardinality(DOMAIN map) + 1
  BY FS_AddElement
<1>3. Cardinality(DOMAIN map) \in Nat
  BY FS_CardinalityType
<1>4. CASE key \in DOMAIN map
  BY <1>1, <1>2, <1>4
<1>5. CASE Cardinality(DOMAIN map) < limit
  BY <1>1, <1>2, <1>3, <1>5
<1>6. QED
  BY <1>4, <1>5 DEF HasRoom

LEMMA EntryIs ==
  ASSUME NEW map, NEW key, NEW value
  PROVE  /\ DOMAIN WithEntry(map, key, value) = DOMAIN map \cup {key}
         /\ WithEntry(map, key, value)[key] = value
         /\ \A k \in DOMAIN map : k # key => WithEntry(map, key, value)[k] = map[k]
  BY DEF WithEntry

LEMMA EntryType ==
  ASSUME NEW S, NEW map, map \in [DOMAIN map -> S], NEW key, NEW value \in S
  PROVE  WithEntry(map, key, value) \in [DOMAIN map \cup {key} -> S]
  BY DEF WithEntry

(* The lines of a file.                                                    *)
EntriesOf(lines) ==
  UNION {lines[k].entries : k \in {k \in DOMAIN lines : lines[k].kind = "map"}}
Lost(lines) == \E k \in DOMAIN lines : lines[k] = LostLine

LEMMA LineTypes ==
  /\ \A S \in SUBSET EventType :
       MapLine(S) \in LineType /\ MapLine(S).kind = "map" /\ MapLine(S).entries = S
                               /\ MapLine(S) # LostLine
  /\ LostLine \in LineType /\ LostLine.kind = "events"
  /\ \A line \in LineType : line.kind = "map" => line.entries \in SUBSET EventType
  /\ \A line \in LineType : line # LostLine => line.kind = "map"
<1>1. \A S : MapLine(S).kind = "map" /\ MapLine(S).entries = S
  BY DEF MapLine
<1>2. LostLine.kind = "events"
  BY DEF LostLine
<1>3. \A S : MapLine(S) # LostLine
  BY <1>1, <1>2
<1>4. \A S \in SUBSET EventType : MapLine(S) \in LineType
  BY DEF MapLine, LineType
<1>5. QED
  BY <1>1, <1>2, <1>3, <1>4 DEF LineType

LEMMA AppendLine ==
  ASSUME NEW lines \in Seq(LineType), NEW line \in LineType
  PROVE  /\ Append(lines, line) \in Seq(LineType)
         /\ DOMAIN Append(lines, line) = DOMAIN lines \cup {Len(lines) + 1}
         /\ \A k \in DOMAIN lines : Append(lines, line)[k] = lines[k]
         /\ Append(lines, line)[Len(lines) + 1] = line
  OBVIOUS

LEMMA AppendMapLine ==
  ASSUME NEW lines \in Seq(LineType), NEW S \in SUBSET EventType
  PROVE  /\ EntriesOf(Append(lines, MapLine(S))) = EntriesOf(lines) \cup S
         /\ Lost(Append(lines, MapLine(S))) <=> Lost(lines)
<1> DEFINE longer == Append(lines, MapLine(S))
           n == Len(lines) + 1
<1>1. /\ MapLine(S) \in LineType
      /\ MapLine(S).kind = "map" /\ MapLine(S).entries = S
      /\ MapLine(S) # LostLine
  BY LineTypes
<1>2. /\ DOMAIN longer = DOMAIN lines \cup {n}
      /\ \A k \in DOMAIN lines : longer[k] = lines[k]
      /\ longer[n] = MapLine(S)
  BY <1>1, AppendLine
<1> HIDE DEF longer, n
<1>3. EntriesOf(longer) = EntriesOf(lines) \cup S
  BY <1>1, <1>2 DEF EntriesOf
<1>4. Lost(longer) <=> Lost(lines)
  BY <1>1, <1>2 DEF Lost
<1>5. QED
  BY <1>3, <1>4 DEF longer

LEMMA AppendLostLine ==
  ASSUME NEW lines \in Seq(LineType)
  PROVE  /\ EntriesOf(Append(lines, LostLine)) = EntriesOf(lines)
         /\ Lost(Append(lines, LostLine))
<1> DEFINE longer == Append(lines, LostLine)
           n == Len(lines) + 1
<1>1. LostLine \in LineType /\ LostLine.kind = "events"
  BY LineTypes
<1>2. /\ DOMAIN longer = DOMAIN lines \cup {n}
      /\ \A k \in DOMAIN lines : longer[k] = lines[k]
      /\ longer[n] = LostLine
  BY <1>1, AppendLine
<1> HIDE DEF longer, n
<1>3. EntriesOf(longer) = EntriesOf(lines)
  BY <1>1, <1>2 DEF EntriesOf
<1>4. Lost(longer)
  BY <1>2 DEF Lost
<1>5. QED
  BY <1>3, <1>4 DEF longer

LEMMA Files ==
  \A l : Printed(l) = EntriesOf(file[l]) /\ (HasLost(l) <=> Lost(file[l]))
  BY DEF Printed, EntriesOf, HasLost, Lost

-----------------------------------------------------------------------------
(* Types are kept.                                                         *)

LEMMA InitTypes ==
  ASSUME TimelineAssumption, Init
  PROVE  Types
<1>1. IsFiniteSet({}) /\ Cardinality({}) = 0
  BY FS_EmptySet
<1>2. MapKeys \in [Tracers -> Nat \ {0}] /\ Layers \subseteq Tracers
      /\ "inode" \in Tracers /\ "rocksdb" \in Tracers
  BY DEF TimelineAssumption, Tracers
<1>3. SystemTypes
  <2>1. nsecs \in 0 .. MaxCalls /\ name_of \in [Inodes -> Names \cup {NoName}]
    BY DEF Init, TimelineAssumption
  <2>2. tracer \in [Tracers -> {"starting", "tracing", "leaving", "gone"}]
    BY DEF Init
  <2>3. job \in [Threads -> JobType]
    <3>1. PICK early \in [Threads -> Jobs \cup {"idle"}], id \in [Threads -> 1 .. Cardinality(Threads)],
               at \in [Threads -> Addresses] :
            job = JobsBefore(early, id, at)
      BY Zenon DEF Init
    <3>2. \A t \in Threads : -id[t] \in Int /\ <<t, at[t]>> \in Stats
      BY DEF Stats
    <3>3. \A t \in Threads : early[t] \in {"flush", "compaction", "idle"}
      BY DEF Jobs
    <3>4. \A t \in Threads : JobBefore(early[t], id[t], <<t, at[t]>>) \in JobType
      BY <3>2, <3>3 DEF JobBefore, JobType, Started, Flush, Compaction
    <3>5. QED
      BY <3>1, <3>4 DEF JobsBefore
  <2>4. QED
    BY <2>1, <2>2, <2>3 DEF SystemTypes
<1>4. EventTypes
  BY <1>1, <1>2 DEF Init, EventTypes, TimelineAssumption
<1>5. NameTypes /\ TrackTypes /\ DurationTypes
  <2>1. DOMAIN <<>> = {}
    OBVIOUS
  <2>2. <<>> \in [DOMAIN <<>> -> Names] /\ <<>> \in [DOMAIN <<>> -> Nat]
    OBVIOUS
  <2>3. NameTypes
    BY <1>1, <1>2, <2>1, <2>2 DEF Init, NameTypes
  <2>4. TrackTypes
    BY <1>1, <1>2, <2>1, <2>2 DEF Init, TrackTypes
  <2>5. DurationTypes
    BY <2>1, <2>2 DEF Init, DurationTypes
  <2>6. QED
    BY <2>3, <2>4, <2>5
<1>6. GenTypes
  BY DEF Init, GenTypes
<1>7. QED
  BY <1>3, <1>4, <1>5, <1>6 DEF Types

(* Who changes what.                                                       *)
LEMMA Frames ==
  ASSUME [Next]_vars
  PROVE  /\ \/ \E i \in Inodes, n \in Names : NameInode(i, n)
            \/ UNCHANGED <<name_of, inodes, named_at, traced_at>>
         /\ \/ \E t \in Threads : BeginFlush(t) \/ EndJob(t) \/ EndUnseenFlush(t)
            \/ \E t \in Threads, at \in Addresses : BeginCompaction(t, <<t, at>>)
            \/ UNCHANGED <<job, job_maps, ran, no_start, no_end>>
         /\ \/ \E t \in Tracers : Attach(t) \/ Leave(t) \/ Exit(t)
            \/ UNCHANGED tracer
         /\ \/ \E l \in Layers, i \in Inodes : EventCall(l, i)
            \/ \E t \in Tracers : Exit(t)
            \/ \E l \in Layers : \/ RequestPrint(l) \/ RequestClear(l)
                                \/ ServePrint(l) \/ ServeClear(l)
            \/ UNCHANGED <<events, buffer, firing, file, happened, full, erased>>
         /\ \/ Generate \/ WriteTimeline \/ \E l \in Layers : ParseLayer(l)
            \/ UNCHANGED <<gen, watch_inodes, parsed, timeline>>
         /\ nsecs' = nsecs \/ (nsecs' = nsecs + 1 /\ nsecs < MaxCalls)
<1>1. CASE \E l \in Layers, i \in Inodes : EventCall(l, i)
  BY <1>1 DEF EventCall, Call, Now, job_maps, generator, name_history
<1>2. CASE \E i \in Inodes, n \in Names : NameInode(i, n)
  BY <1>2 DEF NameInode, Now, event_maps, job_maps, generator, event_history, full_maps
<1>3. CASE \/ \E t \in Threads : BeginFlush(t) \/ EndJob(t) \/ EndUnseenFlush(t)
           \/ \E t \in Threads, at \in Addresses : BeginCompaction(t, <<t, at>>)
  BY <1>3 DEF BeginFlush, BeginCompaction, EndJob, EndUnseenFlush, Call, Now, event_maps, generator, event_history, full_maps,
       name_history
<1>4. CASE \E t \in Tracers : Attach(t) \/ Leave(t) \/ Exit(t)
  BY <1>4 DEF Attach, Leave, Exit, system, event_maps, job_maps, generator, event_history,
       full_maps, name_history
<1>5. CASE \E l \in Layers : RequestPrint(l) \/ RequestClear(l) \/ ServePrint(l) \/ ServeClear(l)
  BY <1>5 DEF RequestPrint, RequestClear, ServePrint, ServeClear, system, job_maps, generator,
       event_history, full_maps, name_history
<1>6. CASE Generate \/ WriteTimeline \/ \E l \in Layers : ParseLayer(l)
  BY <1>6 DEF Generate, WriteTimeline, ParseLayer, system, event_maps, job_maps,
       event_history, full_maps, name_history
<1>7. CASE UNCHANGED vars
  BY <1>7 DEF vars, system, event_maps, job_maps, generator, event_history, full_maps, name_history
<1>8. QED
  BY <1>1, <1>2, <1>3, <1>4, <1>5, <1>6, <1>7 DEF Next, Finished

LEMMA StepSystemTypes ==
  ASSUME TimelineAssumption, Types, [Next]_vars
  PROVE  SystemTypes'
<1>1. nsecs' \in 0 .. MaxCalls
  BY Frames DEF Types, SystemTypes, TimelineAssumption
<1>2. name_of' \in [Inodes -> Names \cup {NoName}]
  BY Frames DEF Types, SystemTypes, NameInode
<1>3. job' \in [Threads -> JobType]
  <2>1. /\ Flush(Now, TRUE) \in JobType
        /\ \A s \in Stats : Compaction(Now, TRUE, s) \in JobType
    BY DEF Flush, Compaction, JobType, Started, Now, Types, SystemTypes
  <2>2. Idle \in JobType
    BY DEF JobType
  <2>3. ASSUME NEW t \in Threads, BeginFlush(t) \/ EndJob(t) \/ EndUnseenFlush(t)
        PROVE  job' \in [Threads -> JobType]
    BY <2>1, <2>2, <2>3 DEF BeginFlush, EndJob, EndUnseenFlush, Types, SystemTypes
  <2>4. ASSUME NEW t \in Threads, NEW at \in Addresses, BeginCompaction(t, <<t, at>>)
        PROVE  job' \in [Threads -> JobType]
    <3>1. <<t, at>> \in Stats
      BY DEF Stats
    <3>2. QED
      BY <2>1, <2>4, <3>1 DEF BeginCompaction, Types, SystemTypes
  <2>5. QED
    BY <2>3, <2>4, Frames DEF Types, SystemTypes
<1>4. tracer' \in [Tracers -> {"starting", "tracing", "leaving", "gone"}]
  BY Frames DEF Types, SystemTypes, Attach, Leave, Exit
<1>5. QED
  BY <1>1, <1>2, <1>3, <1>4 DEF SystemTypes

LEMMA FreshEvent ==
  ASSUME TimelineAssumption, Types, NEW l \in Layers, NEW i \in Inodes, nsecs < MaxCalls
  PROVE  [at |-> Now, layer |-> l, ino |-> i] \in EventType
<1>1. Now \in 1 .. MaxCalls
  BY DEF Now, TimelineAssumption, Types, SystemTypes
<1>2. QED
  BY <1>1 DEF EventType

LEMMA StepEventTypes ==
  ASSUME TimelineAssumption, Types, [Next]_vars
  PROVE  EventTypes'
<1> USE DEF Types, EventTypes
<1>1. \A l \in Layers : Cardinality(events[l]) \in Nat /\ MapKeys[l] \in Nat
  BY FS_CardinalityType DEF TimelineAssumption, Tracers
<1>2. \A l \in Layers : \A what \in Requests :
        Append(buffer[l], what) \in Seq(Requests) /\ Len(Append(buffer[l], what)) = Len(buffer[l]) + 1
  OBVIOUS
<1>3. \A l \in Layers : buffer[l] # <<>> =>
        Tail(buffer[l]) \in Seq(Requests) /\ Len(Tail(buffer[l])) <= Len(buffer[l])
  OBVIOUS
<1>4. \A l \in Layers : Append(file[l], LostLine) \in Seq(LineType)
  BY AppendLine, LineTypes
<1>5. \A l \in Layers : Append(file[l], MapLine(events[l])) \in Seq(LineType)
  BY AppendLine, LineTypes
<1>6. ASSUME NEW l \in Layers, NEW what \in Requests, Request(l, what)
      PROVE  /\ buffer' \in [Layers -> Seq(Requests)]
             /\ \A k \in Layers : Len(buffer'[k]) <= BufferSize
             /\ file' \in [Layers -> Seq(LineType)]
  <2>1. BufferSize \in Nat
    BY DEF TimelineAssumption
  <2>2. \A k \in Layers : Len(buffer[k]) \in Nat
    OBVIOUS
  <2>3. CASE Len(buffer[l]) < BufferSize
    <3>1. /\ buffer' = [buffer EXCEPT ![l] = Append(@, what)]
          /\ file' = file
      BY <1>6, <2>3 DEF Request
    <3>2. \A k \in Layers : buffer'[k] = IF k = l THEN Append(buffer[l], what) ELSE buffer[k]
      BY <3>1
    <3>3. buffer' \in [Layers -> Seq(Requests)]
      BY <1>2, <3>1
    <3>4. QED
      BY <1>2, <2>1, <2>2, <2>3, <3>1, <3>2, <3>3
  <2>4. CASE ~(Len(buffer[l]) < BufferSize)
    BY <1>4, <1>6, <2>4 DEF Request
  <2>5. QED
    BY <2>3, <2>4
<1>7. ASSUME NEW l \in Layers, NEW i \in Inodes, EventCall(l, i)
      PROVE  EventTypes'
  <2> DEFINE event == [at |-> Now, layer |-> l, ino |-> i]
  <2>1. event \in EventType
    BY <1>7, FreshEvent DEF EventCall, Call
  <2>2. IsFiniteSet(events[l] \cup {event})
        /\ Cardinality(events[l] \cup {event}) <= Cardinality(events[l]) + 1
    <3> HIDE DEF event
    <3>1. IsFiniteSet(events[l] \cup {event})
          /\ Cardinality(events[l] \cup {event}) = IF event \in events[l] THEN Cardinality(events[l])
                                                 ELSE Cardinality(events[l]) + 1
      BY FS_AddElement
    <3>2. QED
      BY <1>1, <3>1
  <2>3. CASE Cardinality(events[l]) < MapKeys[l]
    <3>1. events' = [events EXCEPT ![l] = @ \cup {event}]
      BY <1>7, <2>3 DEF EventCall
    <3>2. \A k \in Layers : events'[k] = IF k = l THEN events[l] \cup {event} ELSE events[k]
      BY <3>1
    <3>3. events' \in [Layers -> SUBSET EventType]
      BY <2>1, <3>1
    <3>6. UNCHANGED <<buffer, firing, file, full, erased>>
      BY <1>7, <2>3 DEF EventCall
    <3> HIDE DEF event
    <3>4. Cardinality(events[l] \cup {event}) <= MapKeys[l]
      BY <1>1, <2>2, <2>3, FS_CardinalityType
    <3>5. QED
      BY <1>7, <2>2, <3>2, <3>3, <3>4, <3>6
  <2>4. CASE ~(Cardinality(events[l]) < MapKeys[l])
    BY <1>7, <2>1, <2>4 DEF EventCall
  <2>5. QED
    BY <2>3, <2>4
<1>8. ASSUME NEW t \in Tracers, Exit(t)
      PROVE  EventTypes'
  BY <1>5, <1>8 DEF Exit, full_maps, event_history
<1>9. ASSUME NEW l \in Layers, RequestPrint(l) \/ RequestClear(l)
      PROVE  EventTypes'
  <2>1. \E what \in Requests : Request(l, what)
    BY <1>9 DEF RequestPrint, RequestClear, Requests
  <2>2. UNCHANGED <<events, full, erased>> /\ firing' \subseteq Layers
    BY <1>9 DEF RequestPrint, RequestClear, full_maps, event_history
  <2>3. QED
    BY <1>6, <2>1, <2>2
<1>10. ASSUME NEW l \in Layers, ServePrint(l)
       PROVE  EventTypes'
  <2>1. \A k \in Layers : buffer'[k] = IF k = l THEN Tail(buffer[l]) ELSE buffer[k]
    BY <1>10 DEF ServePrint
  <2>2. \A k \in Layers : Len(buffer'[k]) <= Len(buffer[k]) /\ Len(buffer'[k]) \in Int
                          /\ Len(buffer[k]) \in Int
    BY <1>3, <1>10, <2>1 DEF ServePrint
  <2>3. buffer' \in [Layers -> Seq(Requests)]
    BY <1>3, <1>10 DEF ServePrint
  <2>4. \A k \in Layers : Len(buffer'[k]) <= BufferSize
    BY <2>2 DEF TimelineAssumption
  <2>5. file' \in [Layers -> Seq(LineType)]
    BY <1>5, <1>10 DEF ServePrint
  <2>6. QED
    BY <1>10, <2>3, <2>4, <2>5 DEF ServePrint, full_maps, event_history
<1>11. ASSUME NEW l \in Layers, ServeClear(l)
       PROVE  EventTypes'
  <2>1. \A k \in Layers : buffer'[k] = IF k = l THEN Tail(buffer[l]) ELSE buffer[k]
    BY <1>11 DEF ServeClear
  <2>2. \A k \in Layers : Len(buffer'[k]) <= Len(buffer[k]) /\ Len(buffer'[k]) \in Int
                          /\ Len(buffer[k]) \in Int
    BY <1>3, <1>11, <2>1 DEF ServeClear
  <2>3. buffer' \in [Layers -> Seq(Requests)]
    BY <1>3, <1>11 DEF ServeClear
  <2>4. \A k \in Layers : Len(buffer'[k]) <= BufferSize
    BY <2>2 DEF TimelineAssumption
  <2>5. \A k \in Layers : events'[k] = IF k = l THEN {} ELSE events[k]
    BY <1>11 DEF ServeClear
  <2>6. \A k \in Layers : IsFiniteSet(events'[k]) /\ Cardinality(events'[k]) <= MapKeys[k]
    <3>1. \A k \in Layers : 0 <= MapKeys[k]
      BY <1>1
    <3>2. IsFiniteSet({}) /\ Cardinality({}) = 0
      BY FS_EmptySet
    <3>3. QED
      BY <2>5, <3>1, <3>2
  <2>7. QED
    BY <1>11, <2>3, <2>4, <2>6 DEF ServeClear, full_maps
<1>12. CASE UNCHANGED <<events, buffer, firing, file, happened, full, erased>>
  BY <1>12
<1>13. QED
  BY <1>7, <1>8, <1>9, <1>10, <1>11, <1>12, Frames

LEMMA StepNameTypes ==
  ASSUME TimelineAssumption, Types, [Next]_vars
  PROVE  NameTypes'
<1> USE DEF Types, NameTypes
<1>1. MapKeys["inode"] \in Nat
  BY DEF TimelineAssumption, Tracers
<1>2. ASSUME NEW i \in Inodes, NEW n \in Names, NameInode(i, n)
      PROVE  NameTypes'
  <2>1. CASE tracer["inode"] = "tracing" /\ HasRoom(inodes, i, MapKeys["inode"])
    <3>1. inodes' = WithEntry(inodes, i, n)
      BY <1>2, <2>1 DEF NameInode
    <3>2. /\ IsFiniteSet(DOMAIN WithEntry(inodes, i, n))
          /\ Cardinality(DOMAIN WithEntry(inodes, i, n)) <= MapKeys["inode"]
      BY <1>1, <2>1, EntryFits
    <3>3. /\ DOMAIN WithEntry(inodes, i, n) = DOMAIN inodes \cup {i}
          /\ WithEntry(inodes, i, n) \in [DOMAIN inodes \cup {i} -> Names]
      BY EntryIs, EntryType
    <3>4. QED
      BY <3>1, <3>2, <3>3
  <2>2. CASE ~(tracer["inode"] = "tracing" /\ HasRoom(inodes, i, MapKeys["inode"]))
    BY <1>2, <2>2 DEF NameInode
  <2>3. QED
    BY <2>1, <2>2
<1>3. CASE UNCHANGED inodes
  BY <1>3
<1>4. QED
  BY <1>2, <1>3, Frames

LEMMA StepTrackTypes ==
  ASSUME TimelineAssumption, Types, [Next]_vars
  PROVE  TrackTypes'
<1> USE DEF Types, TrackTypes
<1>1. /\ nsecs \in Nat /\ nsecs' \in Nat /\ nsecs <= nsecs'
      /\ MapKeys["rocksdb"] \in Nat
  BY Frames DEF SystemTypes, TimelineAssumption, Tracers
<1>2. CASE UNCHANGED <<flush_track, compaction_track>>
  BY <1>1, <1>2
<1>3. ASSUME NEW t \in Threads, BeginFlush(t)
      PROVE  TrackTypes'
  BY <1>1, <1>3 DEF BeginFlush, Call, Now
<1>4. ASSUME NEW t \in Threads, NEW at \in Addresses, BeginCompaction(t, <<t, at>>)
      PROVE  TrackTypes'
  <2>1. nsecs' = nsecs + 1 /\ Now = nsecs + 1 /\ flush_track' = flush_track
    BY <1>4 DEF BeginCompaction, Call, Now
  <2>2. PICK s \in Stats : s = <<t, at>>
    BY DEF Stats
  <2>3. CASE HasRoom(compaction_track, s, MapKeys["rocksdb"])
    <3>1. compaction_track' = WithEntry(compaction_track, s, Now)
      BY <1>4, <2>2, <2>3 DEF BeginCompaction
    <3>2. /\ IsFiniteSet(DOMAIN WithEntry(compaction_track, s, Now))
          /\ Cardinality(DOMAIN WithEntry(compaction_track, s, Now)) <= MapKeys["rocksdb"]
      BY <1>1, <2>3, EntryFits
    <3>3. WithEntry(compaction_track, s, Now) \in [DOMAIN compaction_track \cup {s} -> Nat]
      BY <1>1, <2>1, EntryType
    <3>4. /\ DOMAIN WithEntry(compaction_track, s, Now) = DOMAIN compaction_track \cup {s}
          /\ WithEntry(compaction_track, s, Now)[s] = Now
          /\ \A k \in DOMAIN compaction_track :
               k # s => WithEntry(compaction_track, s, Now)[k] = compaction_track[k]
      BY DEF WithEntry
    <3>5. QED
      BY <1>1, <2>1, <2>2, <3>1, <3>2, <3>3, <3>4
  <2>4. CASE ~HasRoom(compaction_track, s, MapKeys["rocksdb"])
    BY <1>1, <1>4, <2>1, <2>2, <2>4 DEF BeginCompaction
  <2>5. QED
    BY <2>3, <2>4
<1>5. ASSUME NEW t \in Threads, EndJob(t) \/ EndUnseenFlush(t)
      PROVE  UNCHANGED <<flush_track, compaction_track>>
  BY <1>5 DEF EndJob, EndUnseenFlush, job_maps
<1>6. QED
  BY <1>2, <1>3, <1>4, <1>5, Frames DEF job_maps

(* What a start reads as.                                                  *)
LEMMA StartOfType ==
  ASSUME Types, NEW ended
  PROVE  StartOf(ended) \in 0 .. nsecs
<1> USE DEF Types, TrackTypes, SystemTypes
<1>1. 0 \in 0 .. nsecs
  OBVIOUS
<1>2. \A s \in DOMAIN compaction_track : compaction_track[s] \in 0 .. nsecs
  OBVIOUS
<1>3. QED
  BY <1>1, <1>2 DEF TrackTypes, StartOf

LEMMA StepDurationTypes ==
  ASSUME TimelineAssumption, Types, [Next]_vars
  PROVE  DurationTypes'
<1> USE DEF Types, DurationTypes
<1>1. nsecs \in Nat /\ nsecs' \in Nat /\ nsecs <= nsecs'
  BY Frames DEF SystemTypes, TimelineAssumption
<1>2. CASE UNCHANGED durations
  BY <1>1, <1>2
<1>3. ASSUME NEW t \in Threads, EndJob(t), durations' # durations
      PROVE  DurationTypes'
  <2> DEFINE start == StartOf(job[t])
             key == <<job[t].kind, start, t>>
  <2>1. durations' = WithEntry(durations, key, Now - key[2])
    BY <1>3 DEF EndJob, Duration
  <2>2. nsecs' = nsecs + 1 /\ Now = nsecs + 1 /\ job[t] # Idle
    BY <1>3 DEF EndJob, Call, Now
  <2>3. start \in 0 .. nsecs
    BY StartOfType
  <2>4. job[t].kind \in Jobs
    BY <2>2 DEF SystemTypes, JobType, Started, Jobs
  <2> HIDE DEF start
  <2>5. Now - start \in Nat /\ Now - start \in 0 .. nsecs' /\ start \in 0 .. nsecs'
    BY <1>1, <2>2, <2>3
  <2>6. key \in Jobs \X (0 .. nsecs') \X Threads /\ key[2] = start
    BY <2>4, <2>5
  <2> HIDE DEF key
  <2>7. /\ DOMAIN durations' = DOMAIN durations \cup {key}
        /\ durations'[key] = Now - start
        /\ \A k \in DOMAIN durations : k # key => durations'[k] = durations[k]
    BY <2>1, <2>6 DEF WithEntry
  <2>10. durations' \in [DOMAIN durations \cup {key} -> Nat]
    BY <2>1, <2>5, <2>6, EntryType
  <2>8. \A k \in DOMAIN durations :
          k \in Jobs \X (0 .. nsecs') \X Threads /\ durations[k] \in 0 .. nsecs'
    <3>1. (0 .. nsecs) \subseteq (0 .. nsecs')
      BY <1>1
    <3>2. QED
      BY <3>1
  <2>9. QED
    BY <2>5, <2>6, <2>7, <2>8, <2>10
<1>4. ASSUME NEW t \in Threads, BeginFlush(t) \/ EndUnseenFlush(t)
      PROVE  UNCHANGED durations
  BY <1>4 DEF BeginFlush, EndUnseenFlush, job_maps
<1>5. ASSUME NEW t \in Threads, NEW at \in Addresses, BeginCompaction(t, <<t, at>>)
      PROVE  UNCHANGED durations
  BY <1>5 DEF BeginCompaction
<1>6. QED
  BY <1>2, <1>3, <1>4, <1>5, Frames DEF job_maps

LEMMA StepTypes ==
  ASSUME TimelineAssumption, Types, [Next]_vars
  PROVE  Types'
<1>1. GenTypes'
  BY Frames DEF Types, GenTypes, Generate, WriteTimeline, ParseLayer
<1>2. QED
  BY <1>1, StepSystemTypes, StepEventTypes, StepNameTypes, StepTrackTypes, StepDurationTypes
  DEF Types

LEMMA TypesImplyTypeOK ==
  ASSUME Types
  PROVE  TypeOK
  BY DEF Types, SystemTypes, EventTypes, NameTypes, TrackTypes, DurationTypes, GenTypes, Stats, TypeOK

LEMMA TypesHold == Spec => []Types
<1>1. Init => Types
  BY InitTypes, TimelineAssumption
<1>2. Types /\ [Next]_vars => Types'
  BY StepTypes, TimelineAssumption
<1>3. QED
  BY <1>1, <1>2, PTL DEF Spec

(* The maps of bpftrace hold no more keys than it allows, and the starts   *)
(* and durations of jobs are times of the trace, however the calls, the    *)
(* requests and the tracers' attaching and leaving interleave.             *)
THEOREM TypeCorrect == Spec => []TypeOK
  BY TypesHold, TypesImplyTypeOK, PTL

-----------------------------------------------------------------------------
(* Where the events are.                                                   *)

At(l) == events[l] \cup Printed(l)
Missed == full \cup erased

HappenedBefore == \A h \in happened : h.event \in EventType /\ h.event.at <= nsecs
AtTheirLayer == \A l \in Layers : \A e \in At(l) : e.layer = l /\ e.at <= nsecs
MissedBefore == \A e \in Missed : e.at <= nsecs
Accounted == \A h \in happened : h.event \in Missed \cup At(h.event.layer)
MissedNowhere == \A l \in Layers : Missed \cap At(l) = {}

(* Each event of the traced time is in its layer's map or file, or missed; *)
(* what was missed is in neither.                                          *)
EventInv == HappenedBefore /\ AtTheirLayer /\ MissedBefore /\ Accounted /\ MissedNowhere

Unprinted == UNCHANGED events /\ \A l \in Layers : Printed(l)' = Printed(l)
PrintsOf(l) ==
  /\ UNCHANGED events
  /\ \A k \in Layers : Printed(k)' = IF k = l THEN Printed(l) \cup events[l] ELSE Printed(k)

LEMMA FilesPrimed ==
  \A l : Printed(l)' = EntriesOf(file'[l]) /\ (HasLost(l)' <=> Lost(file'[l]))
  BY DEF Printed, EntriesOf, HasLost, Lost

LEMMA SameFile ==
  ASSUME NEW l, file'[l] = file[l]
  PROVE  Printed(l)' = Printed(l) /\ (HasLost(l)' <=> HasLost(l))
  BY Files, FilesPrimed

LEMMA PrintsMap ==
  ASSUME Types, NEW l \in Layers, UNCHANGED events,
         file' = [file EXCEPT ![l] = Append(@, MapLine(events[l]))]
  PROVE  PrintsOf(l) /\ \A k \in Layers : HasLost(k)' <=> HasLost(k)
<1>1. \A k \in Layers : file'[k] = IF k = l THEN Append(file[l], MapLine(events[l])) ELSE file[k]
  BY DEF Types, EventTypes
<1>2. file[l] \in Seq(LineType) /\ events[l] \in SUBSET EventType
  BY DEF Types, EventTypes
<1>3. Printed(l)' = Printed(l) \cup events[l] /\ (HasLost(l)' <=> HasLost(l))
  BY <1>1, <1>2, Files, FilesPrimed, AppendMapLine
<1>4. \A k \in Layers : k # l => Printed(k)' = Printed(k) /\ (HasLost(k)' <=> HasLost(k))
  BY <1>1, SameFile
<1>5. QED
  BY <1>3, <1>4 DEF PrintsOf

LEMMA RequestsOnly ==
  ASSUME Types, NEW l \in Layers, NEW what \in Requests, Request(l, what)
  PROVE  \A k \in Layers :
           Printed(k)' = Printed(k) /\ (HasLost(k) => HasLost(k)')
<1>1. CASE UNCHANGED file
  BY <1>1, SameFile
<1>2. CASE file' = [file EXCEPT ![l] = Append(@, LostLine)]
  <2>1. \A k \in Layers : file'[k] = IF k = l THEN Append(file[l], LostLine) ELSE file[k]
    BY <1>2 DEF Types, EventTypes
  <2>2. file[l] \in Seq(LineType)
    BY DEF Types, EventTypes
  <2>3. Printed(l)' = Printed(l) /\ HasLost(l)'
    BY <2>1, <2>2, Files, FilesPrimed, AppendLostLine
  <2>4. QED
    BY <2>1, <2>3, SameFile
<1>3. QED
  BY <1>1, <1>2 DEF Request

LEMMA EventEffects ==
  ASSUME Types, [Next]_vars
  PROVE  \/ Unprinted /\ UNCHANGED <<happened, full, erased>>
         \/ \E l \in Layers, i \in Inodes : EventCall(l, i) /\ \A k \in Layers : Printed(k)' = Printed(k)
         \/ \E l \in Layers : PrintsOf(l) /\ UNCHANGED <<happened, full, erased>>
         \/ \E l \in Layers : ServeClear(l) /\ \A k \in Layers : Printed(k)' = Printed(k)
<1>1. ASSUME UNCHANGED file
      PROVE  \A k \in Layers : Printed(k)' = Printed(k)
  BY <1>1, SameFile
<1>2. CASE UNCHANGED <<events, buffer, firing, file, happened, full, erased>>
  BY <1>1, <1>2 DEF Unprinted
<1>3. ASSUME NEW l \in Layers, NEW i \in Inodes, EventCall(l, i)
      PROVE  UNCHANGED file
  BY <1>3 DEF EventCall
<1>4. ASSUME NEW t \in Tracers, Exit(t)
      PROVE  \/ Unprinted /\ UNCHANGED <<happened, full, erased>>
             \/ \E l \in Layers : PrintsOf(l) /\ UNCHANGED <<happened, full, erased>>
  <2>1. UNCHANGED <<events, happened, full, erased>>
    BY <1>4 DEF Exit, event_history, full_maps
  <2>2. CASE t \in Layers
    <3>1. file' = [file EXCEPT ![t] = Append(@, MapLine(events[t]))]
      BY <1>4, <2>2 DEF Exit
    <3>2. PrintsOf(t)
      BY <2>1, <2>2, <3>1, PrintsMap
    <3>3. QED
      BY <2>1, <2>2, <3>2
  <2>3. CASE t \notin Layers
    BY <1>1, <1>4, <2>1, <2>3 DEF Exit, Unprinted
  <2>4. QED
    BY <2>2, <2>3
<1>5. ASSUME NEW l \in Layers, RequestPrint(l) \/ RequestClear(l)
      PROVE  Unprinted /\ UNCHANGED <<happened, full, erased>>
  <2>1. \E what \in Requests : Request(l, what)
    BY <1>5 DEF RequestPrint, RequestClear, Requests
  <2>2. UNCHANGED <<events, happened, full, erased>>
    BY <1>5 DEF RequestPrint, RequestClear, event_history, full_maps
  <2>3. QED
    BY <2>1, <2>2, RequestsOnly DEF Unprinted
<1>6. ASSUME NEW l \in Layers, ServePrint(l)
      PROVE  PrintsOf(l) /\ UNCHANGED <<happened, full, erased>>
  BY <1>6, PrintsMap DEF ServePrint, event_history, full_maps
<1>7. ASSUME NEW l \in Layers, ServeClear(l)
      PROVE  UNCHANGED file
  BY <1>7 DEF ServeClear
<1>8. QED
  BY <1>1, <1>2, <1>3, <1>4, <1>5, <1>6, <1>7, Frames

LEMMA InitEventInv ==
  ASSUME Init
  PROVE  EventInv
<1>1. happened = {} /\ full = {} /\ erased = {} /\ events = [l \in Layers |-> {}]
  BY DEF Init
<1>2. \A l \in Layers : Printed(l) = {}
  BY DEF Init, Printed
<1>3. QED
  BY <1>1, <1>2 DEF EventInv, HappenedBefore, AtTheirLayer, MissedBefore, Accounted,
                    MissedNowhere, Missed, At

(* A step that moves events and time only forward.                         *)
LEMMA EventInvKept ==
  ASSUME EventInv, nsecs \in Nat, nsecs' \in Nat, nsecs <= nsecs',
         \A e \in EventType : e.at \in Nat /\ e.layer \in Layers,
         \A l \in Layers : At(l) \subseteq EventType,
         Missed \subseteq EventType,
         UNCHANGED happened,
         \A l \in Layers : At(l)' \subseteq At(l),
         Missed' = Missed \cup UNION {At(l) \ At(l)' : l \in Layers}
  PROVE  EventInv'
<1>1. HappenedBefore'
  BY DEF EventInv, HappenedBefore
<1>2. AtTheirLayer'
  BY DEF EventInv, AtTheirLayer
<1>3. MissedBefore'
  BY DEF EventInv, MissedBefore, AtTheirLayer
<1>4. Accounted'
  <2>1. \A h \in happened : h.event.layer \in Layers
    BY DEF EventInv, HappenedBefore
  <2>2. QED
    BY <2>1 DEF EventInv, Accounted
<1>5. MissedNowhere'
  <2> SUFFICES ASSUME NEW l \in Layers, NEW e \in Missed'
               PROVE  e \notin At(l)'
    BY DEF MissedNowhere
  <2>1. CASE e \in Missed
    BY <2>1 DEF EventInv, MissedNowhere
  <2>2. ASSUME NEW k \in Layers, e \in At(k), e \notin At(k)'
        PROVE  e \notin At(l)'
    BY <2>2 DEF EventInv, AtTheirLayer
  <2>3. QED
    BY <2>1, <2>2
<1>6. QED
  BY <1>1, <1>2, <1>3, <1>4, <1>5 DEF EventInv

LEMMA EventSets ==
  ASSUME Types
  PROVE  /\ \A e \in EventType : e.at \in Nat /\ e.layer \in Layers
         /\ \A l \in Layers : At(l) \subseteq EventType
         /\ Missed \subseteq EventType
<1>1. \A lines \in Seq(LineType) : EntriesOf(lines) \subseteq EventType
  BY LineTypes DEF EntriesOf
<1>2. QED
  BY <1>1, Files DEF EventType, At, Missed, Types, EventTypes

LEMMA StepEventInv ==
  ASSUME TimelineAssumption, Types, EventInv, [Next]_vars
  PROVE  EventInv'
<1>1. nsecs \in Nat /\ nsecs' \in Nat /\ nsecs <= nsecs'
  BY Frames DEF Types, SystemTypes, TimelineAssumption
<1>2. /\ \A e \in EventType : e.at \in Nat /\ e.layer \in Layers
      /\ \A l \in Layers : At(l) \subseteq EventType
      /\ Missed \subseteq EventType
  BY EventSets
<1>3. CASE Unprinted /\ UNCHANGED <<happened, full, erased>>
  <2>1. \A l \in Layers : At(l)' = At(l)
    BY <1>3 DEF Unprinted, At
  <2>2. Missed' = Missed
    BY <1>3 DEF Missed
  <2>3. QED
    BY <1>1, <1>2, <1>3, <2>1, <2>2, EventInvKept
<1>4. ASSUME NEW l \in Layers, PrintsOf(l), UNCHANGED <<happened, full, erased>>
      PROVE  EventInv'
  <2>1. \A k \in Layers : At(k)' = At(k)
    BY <1>4 DEF PrintsOf, At
  <2>2. Missed' = Missed
    BY <1>4 DEF Missed
  <2>3. QED
    BY <1>1, <1>2, <1>4, <2>1, <2>2, EventInvKept
<1>5. ASSUME NEW l \in Layers, ServeClear(l), \A k \in Layers : Printed(k)' = Printed(k)
      PROVE  EventInv'
  <2>1. \A k \in Layers : events'[k] = IF k = l THEN {} ELSE events[k]
    BY <1>5 DEF ServeClear, Types, EventTypes
  <2>2. erased' = erased \cup (events[l] \ Printed(l)) /\ UNCHANGED <<happened, full>>
    BY <1>5 DEF ServeClear, full_maps
  <2>3. \A k \in Layers : At(k)' = IF k = l THEN Printed(l) ELSE At(k)
    BY <1>5, <2>1 DEF At
  <2>4. UNION {At(k) \ At(k)' : k \in Layers} = events[l] \ Printed(l)
    BY <2>3 DEF At
  <2>5. Missed' = Missed \cup UNION {At(k) \ At(k)' : k \in Layers}
    BY <2>2, <2>4 DEF Missed
  <2>6. \A k \in Layers : At(k)' \subseteq At(k)
    BY <2>3 DEF At
  <2>7. QED
    BY <1>1, <1>2, <2>2, <2>5, <2>6, EventInvKept
<1>6. ASSUME NEW l \in Layers, NEW i \in Inodes, EventCall(l, i), \A k \in Layers : Printed(k)' = Printed(k)
      PROVE  EventInv'
  <2> DEFINE event == [at |-> Now, layer |-> l, ino |-> i]
             h == [event |-> event, name |-> name_of[i]]
  <2>1. nsecs' = nsecs + 1 /\ nsecs < MaxCalls /\ event.at = nsecs + 1 /\ event.layer = l
    BY <1>6 DEF EventCall, Call, Now
  <2>2. event \in EventType
    BY <2>1, FreshEvent
  <2>3. happened' = happened \cup {h} /\ h.event = event
    BY <1>6 DEF EventCall
  <2>4. \/ /\ \A k \in Layers : At(k)' = IF k = l THEN At(l) \cup {event} ELSE At(k)
           /\ Missed' = Missed
        \/ Missed' = Missed \cup {event} /\ \A k \in Layers : At(k)' = At(k)
    <3>1. CASE Cardinality(events[l]) < MapKeys[l]
      <4>1. events' = [events EXCEPT ![l] = @ \cup {event}] /\ full' = full /\ erased' = erased
        BY <1>6, <3>1 DEF EventCall
      <4>2. \A k \in Layers : events'[k] = IF k = l THEN events[l] \cup {event} ELSE events[k]
        BY <4>1 DEF Types, EventTypes
      <4>3. QED
        BY <1>6, <4>1, <4>2 DEF At, Missed
    <3>2. CASE ~(Cardinality(events[l]) < MapKeys[l])
      <4>1. events' = events /\ full' = full \cup {event} /\ erased' = erased
        BY <1>6, <3>2 DEF EventCall
      <4>2. QED
        BY <1>6, <4>1 DEF At, Missed
    <3>3. QED
      BY <3>1, <3>2
  <2> HIDE DEF event, h
  <2>5. event \notin Missed /\ \A k \in Layers : event \notin At(k)
    BY <1>1, <2>1 DEF EventInv, MissedBefore, AtTheirLayer
  <2>6. HappenedBefore'
    BY <1>1, <1>2, <2>1, <2>2, <2>3 DEF EventInv, HappenedBefore
  <2>7. AtTheirLayer'
    <3> SUFFICES ASSUME NEW k \in Layers, NEW e \in At(k)'
                 PROVE  e.layer = k /\ e.at <= nsecs'
      BY DEF AtTheirLayer
    <3>1. CASE e \in At(k)
      BY <1>1, <1>2, <3>1 DEF EventInv, AtTheirLayer
    <3>2. CASE e = event /\ k = l
      BY <1>1, <2>1, <3>2
    <3>3. QED
      BY <2>4, <3>1, <3>2
  <2>8. MissedBefore'
    BY <1>1, <1>2, <2>1, <2>4 DEF EventInv, MissedBefore
  <2>9. Accounted'
    <3> SUFFICES ASSUME NEW g \in happened'
                 PROVE  g.event \in Missed' \cup At(g.event.layer)'
      BY DEF Accounted
    <3>1. CASE g \in happened
      <4>1. g.event.layer \in Layers /\ g.event \in Missed \cup At(g.event.layer)
        BY <1>2, <3>1 DEF EventInv, HappenedBefore, Accounted
      <4>2. QED
        BY <2>4, <4>1
    <3>2. CASE g = h
      BY <2>1, <2>3, <2>4, <3>2
    <3>3. QED
      BY <2>3, <3>1, <3>2
  <2>10. MissedNowhere'
    BY <2>4, <2>5 DEF EventInv, MissedNowhere
  <2>11. QED
    BY <2>6, <2>7, <2>8, <2>9, <2>10 DEF EventInv
<1>7. QED
  BY <1>3, <1>4, <1>5, <1>6, EventEffects

-----------------------------------------------------------------------------
(* No event is printed twice.                                              *)

Alternates(requests) == \A k \in 1 .. Len(requests) - 1 : requests[k] # requests[k + 1]

(* The last request is to print until the one to clear is made.            *)
LastRequest(l) == buffer[l] # <<>> => (buffer[l][Len(buffer[l])] = "print" <=> l \in firing)

LinesDisjoint(lines) ==
  \A j, k \in DOMAIN lines :
    j # k /\ lines[j].kind = "map" /\ lines[k].kind = "map" =>
      lines[j].entries \cap lines[k].entries = {}

(* The next request served, now or later, is to print.                     *)
Clean(l) == IF buffer[l] = <<>> THEN l \notin firing ELSE Head(buffer[l]) = "print"

PrintedOnce ==
  \A l \in Layers :
    ~HasLost(l) =>
      /\ Alternates(buffer[l])
      /\ LastRequest(l)
      /\ LinesDisjoint(file[l])
      /\ Clean(l) /\ tracer[l] # "gone" => events[l] \cap Printed(l) = {}

AllPrinted ==
  \A l \in Layers :
    tracer[l] = "gone" => l \notin firing /\ buffer[l] = <<>> /\ events[l] \subseteq Printed(l)

LEMMA Appended ==
  ASSUME NEW requests \in Seq(Requests), NEW what \in Requests, Alternates(requests),
         requests # <<>> => requests[Len(requests)] # what
  PROVE  LET longer == Append(requests, what)
         IN  /\ Alternates(longer)
             /\ longer # <<>>
             /\ longer[Len(longer)] = what
             /\ Head(longer) = IF requests = <<>> THEN what ELSE Head(requests)
<1> DEFINE longer == Append(requests, what)
           n == Len(requests)
<1>1. /\ longer \in Seq(Requests)
      /\ Len(longer) = n + 1
      /\ \A k \in 1 .. n : longer[k] = requests[k]
      /\ longer[n + 1] = what
  OBVIOUS
<1>2. n \in Nat /\ (requests # <<>> <=> n > 0)
  OBVIOUS
<1>3. requests # <<>> => Head(requests) = requests[1]
  OBVIOUS
<1> HIDE DEF longer
<1>4. longer # <<>> /\ Head(longer) = longer[1]
  <2>1. Len(longer) > 0
    BY <1>1, <1>2
  <2>2. longer # <<>>
    BY <2>1
  <2>3. QED
    BY <1>1, <2>2
<1>5. Alternates(longer)
  <2> SUFFICES ASSUME NEW k \in 1 .. n
               PROVE  longer[k] # longer[k + 1]
    BY <1>1, <1>2 DEF Alternates
  <2>1. CASE k = n
    BY <1>1, <1>2, <2>1
  <2>2. CASE k < n
    BY <1>1, <1>2, <2>2 DEF Alternates
  <2>3. QED
    BY <1>2, <2>1, <2>2
<1>6. Head(longer) = IF requests = <<>> THEN what ELSE Head(requests)
  <2>1. CASE requests = <<>>
    BY <1>1, <1>4, <2>1
  <2>2. CASE requests # <<>>
    BY <1>1, <1>2, <1>3, <1>4, <2>2
  <2>3. QED
    BY <2>1, <2>2
<1>7. QED
  BY <1>1, <1>4, <1>5, <1>6 DEF longer

LEMMA Served ==
  ASSUME NEW requests \in Seq(Requests), Alternates(requests), requests # <<>>
  PROVE  /\ Alternates(Tail(requests))
         /\ Tail(requests) = <<>> => requests[Len(requests)] = Head(requests)
         /\ Tail(requests) # <<>> =>
              /\ Tail(requests)[Len(Tail(requests))] = requests[Len(requests)]
              /\ Head(Tail(requests)) # Head(requests)
<1> DEFINE shorter == Tail(requests)
           n == Len(requests)
<1>1. n \in Nat \ {0} /\ Head(requests) = requests[1]
  OBVIOUS
<1>2. /\ shorter \in Seq(Requests)
      /\ Len(shorter) = n - 1
      /\ \A k \in 1 .. n - 1 : shorter[k] = requests[k + 1]
  OBVIOUS
<1>3. shorter # <<>> => n > 1 /\ Head(shorter) = shorter[1]
  <2>1. shorter # <<>> => Len(shorter) # 0 /\ Head(shorter) = shorter[1]
    BY <1>2
  <2>2. QED
    BY <1>1, <1>2, <2>1
<1> HIDE DEF shorter
<1>4. shorter = <<>> => n = 1
  <2>1. Len(<<>>) = 0
    OBVIOUS
  <2>2. QED
    BY <1>1, <1>2, <2>1
<1>5. Alternates(shorter)
  BY <1>1, <1>2 DEF Alternates
<1>6. shorter = <<>> => requests[n] = Head(requests)
  BY <1>1, <1>4
<1>7. shorter # <<>> => shorter[n - 1] = requests[n] /\ Head(shorter) = requests[2]
  BY <1>1, <1>2, <1>3
<1>8. shorter # <<>> => requests[2] # requests[1]
  BY <1>1, <1>3 DEF Alternates
<1>9. QED
  BY <1>1, <1>2, <1>5, <1>6, <1>7, <1>8 DEF shorter

LEMMA StaysDisjoint ==
  ASSUME NEW lines \in Seq(LineType), NEW S \in SUBSET EventType,
         LinesDisjoint(lines), S \cap EntriesOf(lines) = {}
  PROVE  LinesDisjoint(Append(lines, MapLine(S)))
<1> DEFINE longer == Append(lines, MapLine(S))
           n == Len(lines) + 1
<1>1. MapLine(S) \in LineType /\ MapLine(S).kind = "map" /\ MapLine(S).entries = S
  BY LineTypes
<1>2. /\ DOMAIN longer = DOMAIN lines \cup {n}
      /\ \A k \in DOMAIN lines : longer[k] = lines[k]
      /\ longer[n] = MapLine(S)
  BY <1>1, AppendLine
<1>3. \A k \in DOMAIN lines : lines[k].kind = "map" => lines[k].entries \cap S = {}
  BY DEF EntriesOf
<1> HIDE DEF longer, n
<1>4. LinesDisjoint(longer)
  BY <1>1, <1>2, <1>3 DEF LinesDisjoint
<1>5. QED
  BY <1>4 DEF longer

LEMMA InitPrinted ==
  ASSUME Init
  PROVE  PrintedOnce /\ AllPrinted
<1>1. \A l \in Layers : Printed(l) = {}
  BY DEF Init, Printed
<1>2. QED
  BY <1>1 DEF Init, PrintedOnce, AllPrinted, Alternates, LastRequest, LinesDisjoint

(* What a step leaves alone at a layer.                                    *)
SameAt(l) ==
  /\ file'[l] = file[l]
  /\ buffer'[l] = buffer[l]
  /\ l \in firing' <=> l \in firing
  /\ events'[l] = events[l]

PrintedOnceAt(l) ==
  /\ Alternates(buffer[l])
  /\ LastRequest(l)
  /\ LinesDisjoint(file[l])
  /\ Clean(l) /\ tracer[l] # "gone" => events[l] \cap Printed(l) = {}

LEMMA LayerKept ==
  ASSUME PrintedOnce, NEW l \in Layers, ~HasLost(l)', SameAt(l),
         tracer'[l] # "gone" => tracer[l] # "gone"
  PROVE  PrintedOnceAt(l)'
<1>1. Printed(l)' = Printed(l) /\ ~HasLost(l)
  BY SameFile DEF SameAt
<1>2. PrintedOnceAt(l)
  BY <1>1 DEF PrintedOnce, PrintedOnceAt
<1>3. QED
  BY <1>1, <1>2 DEF PrintedOnceAt, LastRequest, Clean, SameAt

LEMMA OneLayer ==
  ASSUME PrintedOnce, NEW l \in Layers, \A k \in Layers : k # l => SameAt(k),
         \A k \in Layers : tracer'[k] # "gone" => tracer[k] # "gone",
         ~HasLost(l)' => PrintedOnceAt(l)'
  PROVE  PrintedOnce'
<1> SUFFICES ASSUME NEW k \in Layers, ~HasLost(k)'
             PROVE  PrintedOnceAt(k)'
  BY DEF PrintedOnce, PrintedOnceAt
<1>1. QED
  BY LayerKept

LEMMA NoLayer ==
  ASSUME PrintedOnce, \A k \in Layers : SameAt(k),
         \A k \in Layers : tracer'[k] # "gone" => tracer[k] # "gone"
  PROVE  PrintedOnce'
<1> SUFFICES ASSUME NEW k \in Layers, ~HasLost(k)'
             PROVE  PrintedOnceAt(k)'
  BY DEF PrintedOnce, PrintedOnceAt
<1>1. QED
  BY LayerKept

LEMMA StepPrinted ==
  ASSUME TimelineAssumption, Types, EventInv, PrintedOnce, AllPrinted, [Next]_vars
  PROVE  PrintedOnce' /\ AllPrinted'
<1>1. /\ \A l \in Layers : buffer[l] \in Seq(Requests) /\ file[l] \in Seq(LineType)
                          /\ events[l] \in SUBSET EventType
      /\ Layers \subseteq Tracers
  BY DEF Types, EventTypes, Tracers
<1>2. \A k \in Layers : tracer'[k] # "gone" => tracer[k] # "gone"
  BY <1>1, Frames DEF Types, SystemTypes, Attach, Leave, Exit
<1>3. \A k \in Layers : tracer[k] # "gone" /\ tracer'[k] = "gone" => Exit(k)
  BY <1>1, Frames DEF Types, SystemTypes, Attach, Leave, Exit
<1>4. \A k \in Layers : tracer[k] = "gone" => SameAt(k)
  <2>1. \A k \in Layers : tracer[k] = "gone" => k \notin firing /\ buffer[k] = <<>>
    BY DEF AllPrinted
  <2>2. CASE UNCHANGED <<events, buffer, firing, file, happened, full, erased>>
    BY <2>2 DEF SameAt
  <2>3. ASSUME NEW l \in Layers, NEW i \in Inodes, EventCall(l, i)
        PROVE  tracer[l] # "gone" /\ \A k \in Layers : k # l => SameAt(k)
    BY <2>3 DEF EventCall, Call, SameAt, Types, EventTypes
  <2>4. ASSUME NEW t \in Tracers, Exit(t)
        PROVE  tracer[t] # "gone" /\ \A k \in Layers : k # t => SameAt(k)
    BY <2>4 DEF Exit, SameAt, Types, EventTypes
  <2>5. ASSUME NEW l \in Layers, \/ RequestPrint(l) \/ RequestClear(l)
                                \/ ServePrint(l) \/ ServeClear(l)
        PROVE  tracer[l] # "gone" /\ \A k \in Layers : k # l => SameAt(k)
    <3>1. CASE RequestPrint(l) \/ RequestClear(l)
      BY <2>1, <3>1 DEF RequestPrint, RequestClear, Request, SameAt, Types, EventTypes
    <3>2. CASE ServePrint(l) \/ ServeClear(l)
      BY <2>1, <3>2 DEF ServePrint, ServeClear, SameAt, Types, EventTypes
    <3>3. QED
      BY <2>5, <3>1, <3>2
  <2>6. QED
    BY <2>2, <2>3, <2>4, <2>5, Frames
<1>5. AllPrinted'
  <2>1. ASSUME NEW l \in Layers, Exit(l)
        PROVE  l \notin firing' /\ buffer'[l] = <<>> /\ events'[l] \subseteq Printed(l)'
    <3>1. UNCHANGED <<events, firing, buffer>> /\ l \notin firing /\ buffer[l] = <<>>
          /\ file' = [file EXCEPT ![l] = Append(@, MapLine(events[l]))]
      BY <2>1 DEF Exit
    <3>2. PrintsOf(l)
      BY <3>1, PrintsMap
    <3>3. QED
      BY <3>1, <3>2 DEF PrintsOf
  <2>2. ASSUME NEW l \in Layers, tracer[l] = "gone"
        PROVE  l \notin firing' /\ buffer'[l] = <<>> /\ events'[l] \subseteq Printed(l)'
    BY <1>4, <2>2, SameFile DEF AllPrinted, SameAt
  <2>3. QED
    BY <1>3, <2>1, <2>2 DEF AllPrinted
<1>6. CASE UNCHANGED <<events, buffer, firing, file, happened, full, erased>>
  <2>1. \A k \in Layers : SameAt(k)
    BY <1>6 DEF SameAt
  <2>2. QED
    BY <1>2, <1>5, <2>1, NoLayer
<1>7. ASSUME NEW l \in Layers, NEW i \in Inodes, EventCall(l, i)
      PROVE  PrintedOnce'
  <2> DEFINE event == [at |-> Now, layer |-> l, ino |-> i]
  <2>1. /\ UNCHANGED <<buffer, firing, file, tracer>>
        /\ \A k \in Layers : k # l => events'[k] = events[k]
        /\ events'[l] \subseteq events[l] \cup {event}
    BY <1>1, <1>7 DEF EventCall, Types, EventTypes
  <2>2. event.at = nsecs + 1 /\ nsecs \in Nat
    BY DEF Now, Types, SystemTypes, TimelineAssumption
  <2> HIDE DEF event
  <2>3. event \notin Printed(l)
    <3>1. event \in Printed(l) => event.at <= nsecs
      BY DEF EventInv, AtTheirLayer, At
    <3>2. QED
      BY <2>2, <3>1
  <2>4. Printed(l)' = Printed(l) /\ (HasLost(l)' <=> HasLost(l))
    BY <2>1, SameFile
  <2>5. ~HasLost(l)' => PrintedOnceAt(l)'
    BY <2>1, <2>3, <2>4 DEF PrintedOnce, PrintedOnceAt, LastRequest, Clean
  <2>6. \A k \in Layers : k # l => SameAt(k)
    BY <2>1 DEF SameAt
  <2>7. QED
    BY <1>2, <2>5, <2>6, OneLayer
<1>8. ASSUME NEW l \in Layers, Exit(l)
      PROVE  PrintedOnce'
  <2>1. /\ UNCHANGED <<events, firing, buffer>> /\ l \notin firing /\ buffer[l] = <<>>
        /\ file' = [file EXCEPT ![l] = Append(@, MapLine(events[l]))]
        /\ tracer[l] # "gone" /\ tracer'[l] = "gone"
    BY <1>1, <1>8 DEF Exit, Types, SystemTypes
  <2>2. PrintsOf(l) /\ (HasLost(l)' <=> HasLost(l))
    BY <2>1, PrintsMap
  <2>3. file'[l] = Append(file[l], MapLine(events[l]))
    BY <2>1 DEF Types, EventTypes
  <2>4. ASSUME ~HasLost(l)'
        PROVE  PrintedOnceAt(l)'
    <3>1. PrintedOnceAt(l) /\ events[l] \cap Printed(l) = {}
      BY <2>1, <2>2, <2>4 DEF PrintedOnce, PrintedOnceAt, Clean
    <3>2. LinesDisjoint(file'[l])
      BY <1>1, <2>3, <3>1, StaysDisjoint, Files DEF PrintedOnceAt
    <3>3. QED
      BY <2>1, <3>1, <3>2 DEF PrintedOnceAt, LastRequest
  <2>5. \A k \in Layers : k # l => SameAt(k)
    BY <2>1 DEF SameAt, Types, EventTypes
  <2>6. QED
    BY <1>2, <2>4, <2>5, OneLayer
<1>9. ASSUME NEW t \in Tracers, Exit(t), t \notin Layers
      PROVE  PrintedOnce'
  <2>1. \A k \in Layers : SameAt(k)
    BY <1>9 DEF Exit, SameAt
  <2>2. QED
    BY <1>2, <2>1, NoLayer
<1>10. ASSUME NEW l \in Layers, NEW what \in Requests, Request(l, what), UNCHANGED <<events, tracer>>,
              what = "print" <=> l \notin firing,
              firing' = IF what = "print" THEN firing \cup {l} ELSE firing \ {l}
       PROVE  PrintedOnce'
  <2>1. \A k \in Layers : k # l => SameAt(k)
    BY <1>1, <1>10 DEF Request, SameAt, Types, EventTypes
  <2>2. ASSUME ~HasLost(l)'
        PROVE  PrintedOnceAt(l)'
    <3>1. Printed(l)' = Printed(l) /\ ~HasLost(l)
      BY <1>10, <2>2, RequestsOnly
    <3>2. CASE Len(buffer[l]) < BufferSize
      <4>1. buffer'[l] = Append(buffer[l], what) /\ file' = file
        BY <1>10, <3>2 DEF Request, Types, EventTypes
      <4>2. PrintedOnceAt(l)
        BY <3>1 DEF PrintedOnce, PrintedOnceAt
      <4>3. buffer[l] # <<>> => buffer[l][Len(buffer[l])] # what
        <5>1. buffer[l] # <<>> => buffer[l][Len(buffer[l])] \in Requests
          BY <1>1
        <5>2. QED
          BY <1>10, <4>2, <5>1 DEF PrintedOnceAt, LastRequest, Requests
      <4>4. /\ Alternates(buffer'[l])
            /\ buffer'[l] # <<>>
            /\ buffer'[l][Len(buffer'[l])] = what
            /\ Head(buffer'[l]) = IF buffer[l] = <<>> THEN what ELSE Head(buffer[l])
        <5> DEFINE requests == buffer[l]
        <5>1. /\ requests \in Seq(Requests) /\ Alternates(requests)
              /\ requests # <<>> => requests[Len(requests)] # what
          BY <1>1, <4>2, <4>3 DEF PrintedOnceAt
        <5>2. buffer'[l] = Append(requests, what)
          BY <4>1
        <5> HIDE DEF requests
        <5> DEFINE longer == Append(requests, what)
        <5>3. /\ Alternates(longer) /\ longer # <<>> /\ longer[Len(longer)] = what
              /\ Head(longer) = IF requests = <<>> THEN what ELSE Head(requests)
          BY <5>1, Appended
        <5>4. buffer'[l] = longer
          BY <5>2
        <5> HIDE DEF longer
        <5>5. QED
          BY <5>3, <5>4 DEF requests
      <4>5. LastRequest(l)'
        BY <1>10, <4>4 DEF LastRequest
      <4>6. Clean(l)' => Clean(l)
        BY <1>10, <4>4 DEF Clean
      <4>7. QED
        BY <1>10, <3>1, <4>1, <4>2, <4>4, <4>5, <4>6 DEF PrintedOnceAt
    <3>3. CASE ~(Len(buffer[l]) < BufferSize)
      <4>1. file'[l] = Append(file[l], LostLine)
        BY <1>10, <3>3 DEF Request, Types, EventTypes
      <4>2. HasLost(l)'
        BY <1>1, <4>1, FilesPrimed, AppendLostLine
      <4>3. QED
        BY <2>2, <4>2
    <3>4. QED
      BY <3>2, <3>3
  <2>3. QED
    BY <1>2, <2>1, <2>2, OneLayer
<1>11. ASSUME NEW l \in Layers, RequestPrint(l) \/ RequestClear(l)
       PROVE  PrintedOnce'
  <2>1. CASE RequestPrint(l)
    BY <1>10, <2>1 DEF RequestPrint, Requests
  <2>2. CASE RequestClear(l)
    BY <1>10, <2>2 DEF RequestClear, Requests
  <2>3. QED
    BY <1>11, <2>1, <2>2
<1>12. ASSUME NEW l \in Layers, ServePrint(l)
       PROVE  PrintedOnce'
  <2>1. /\ UNCHANGED <<events, firing, tracer>> /\ buffer[l] # <<>> /\ Head(buffer[l]) = "print"
        /\ file' = [file EXCEPT ![l] = Append(@, MapLine(events[l]))]
        /\ buffer' = [buffer EXCEPT ![l] = Tail(@)]
    BY <1>12 DEF ServePrint
  <2>2. PrintsOf(l) /\ (HasLost(l)' <=> HasLost(l))
    BY <2>1, PrintsMap
  <2>3. file'[l] = Append(file[l], MapLine(events[l])) /\ buffer'[l] = Tail(buffer[l])
    BY <2>1 DEF Types, EventTypes
  <2>4. ASSUME ~HasLost(l)'
        PROVE  PrintedOnceAt(l)'
    <3>1. PrintedOnceAt(l)
      BY <2>2, <2>4 DEF PrintedOnce, PrintedOnceAt
    <3>2. tracer[l] # "gone"
      BY <2>1 DEF AllPrinted
    <3>3. events[l] \cap Printed(l) = {}
      BY <2>1, <3>1, <3>2 DEF PrintedOnceAt, Clean
    <3>4. LinesDisjoint(file'[l])
      BY <1>1, <2>3, <3>1, <3>3, StaysDisjoint, Files DEF PrintedOnceAt
    <3>5. /\ Alternates(buffer'[l])
          /\ buffer'[l] = <<>> => buffer[l][Len(buffer[l])] = Head(buffer[l])
          /\ buffer'[l] # <<>> =>
               /\ buffer'[l][Len(buffer'[l])] = buffer[l][Len(buffer[l])]
               /\ Head(buffer'[l]) # Head(buffer[l])
      BY <1>1, <2>1, <2>3, <3>1, Served DEF PrintedOnceAt
    <3>6. LastRequest(l)'
      BY <2>1, <3>1, <3>5 DEF PrintedOnceAt, LastRequest
    <3>7. ~Clean(l)'
      BY <2>1, <3>1, <3>5 DEF PrintedOnceAt, LastRequest, Clean
    <3>8. QED
      BY <3>4, <3>5, <3>6, <3>7 DEF PrintedOnceAt
  <2>5. \A k \in Layers : k # l => SameAt(k)
    BY <2>1 DEF SameAt, Types, EventTypes
  <2>6. QED
    BY <1>2, <2>4, <2>5, OneLayer
<1>13. ASSUME NEW l \in Layers, ServeClear(l)
       PROVE  PrintedOnce'
  <2>1. /\ UNCHANGED <<file, firing, tracer>> /\ buffer[l] # <<>>
        /\ buffer'[l] = Tail(buffer[l]) /\ events'[l] = {}
        /\ \A k \in Layers : k # l => buffer'[k] = buffer[k] /\ events'[k] = events[k]
    BY <1>13 DEF ServeClear, Types, EventTypes
  <2>2. ASSUME ~HasLost(l)'
        PROVE  PrintedOnceAt(l)'
    <3>1. PrintedOnceAt(l)
      BY <2>1, <2>2, SameFile DEF PrintedOnce, PrintedOnceAt
    <3>2. /\ Alternates(buffer'[l])
          /\ buffer'[l] # <<>> => buffer'[l][Len(buffer'[l])] = buffer[l][Len(buffer[l])]
      BY <1>1, <2>1, <3>1, Served DEF PrintedOnceAt
    <3>3. QED
      BY <2>1, <3>1, <3>2 DEF PrintedOnceAt, LastRequest
  <2>3. \A k \in Layers : k # l => SameAt(k)
    BY <2>1 DEF SameAt
  <2>4. QED
    BY <1>2, <2>2, <2>3, OneLayer
<1>14. PrintedOnce'
  BY <1>6, <1>7, <1>8, <1>9, <1>11, <1>12, <1>13, Frames
<1>15. QED
  BY <1>5, <1>14

-----------------------------------------------------------------------------
(* The timeline.                                                           *)

Generated ==
  /\ gen = "waiting" => parsed = {} /\ timeline = {}
  /\ gen # "waiting" => watch_inodes = inodes /\ \A t \in Tracers : tracer[t] = "gone"
  /\ \A l \in parsed : ~HasLost(l)
  /\ gen = "written" => parsed = Layers
  /\ timeline = (UNION {Instants(l) : l \in parsed}) \cup (IF gen = "written" THEN Spans ELSE {})

LEMMA InitGenerated ==
  ASSUME Init
  PROVE  Generated
  BY DEF Init, Generated

(* When all tracers are gone, what they left stays as it is.               *)
LEMMA GoneKept ==
  ASSUME Types, AllPrinted, [Next]_vars, \A t \in Tracers : tracer[t] = "gone"
  PROVE  /\ UNCHANGED <<tracer, inodes, durations>>
         /\ \A l \in Layers : file'[l] = file[l]
<1>1. Layers \subseteq Tracers /\ "inode" \in Tracers /\ "rocksdb" \in Tracers
  BY DEF Tracers
<1>2. \A l \in Layers : l \notin firing /\ buffer[l] = <<>>
  BY <1>1 DEF AllPrinted
<1>3. UNCHANGED tracer
  BY Frames DEF Attach, Leave, Exit
<1>4. UNCHANGED inodes
  BY <1>1, Frames DEF NameInode
<1>5. UNCHANGED durations
  BY <1>1, Frames DEF BeginFlush, BeginCompaction, EndJob, EndUnseenFlush, Call, job_maps
<1>6. \A l \in Layers : file'[l] = file[l]
  BY <1>1, <1>2, Frames DEF EventCall, Call, Exit, RequestPrint, RequestClear, ServePrint, ServeClear
<1>7. QED
  BY <1>3, <1>4, <1>5, <1>6

LEMMA StepGenerated ==
  ASSUME TimelineAssumption, Types, AllPrinted, Generated, [Next]_vars
  PROVE  Generated'
<1>1. parsed \subseteq Layers /\ gen \in {"waiting", "files", "written", "refused"}
  BY DEF Types, GenTypes
<1>2. CASE UNCHANGED <<gen, watch_inodes, parsed, timeline>>
  <2>1. CASE gen = "waiting"
    BY <1>2, <2>1 DEF Generated
  <2>2. CASE gen # "waiting"
    <3>1. UNCHANGED <<tracer, inodes, durations>> /\ \A l \in Layers : file'[l] = file[l]
      BY <2>2, GoneKept DEF Generated
    <3>2. \A l \in Layers : Instants(l)' = Instants(l)
      BY <1>2, <3>1 DEF Instants
    <3>3. Spans' = Spans
      BY <3>1 DEF Spans
    <3>4. \A l \in Layers : HasLost(l)' <=> HasLost(l)
      BY <3>1, SameFile
    <3>5. UNION {Instants(l) : l \in parsed}' = UNION {Instants(l) : l \in parsed}
      BY <1>1, <1>2, <3>2
    <3>6. QED
      BY <1>1, <1>2, <2>2, <3>1, <3>3, <3>4, <3>5 DEF Generated
  <2>3. QED
    BY <2>1, <2>2
<1>3. CASE Generate
  BY <1>3 DEF Generate, Generated
<1>4. ASSUME NEW l \in Layers, ParseLayer(l)
      PROVE  Generated'
  <2>1. gen = "files" /\ UNCHANGED <<tracer, file, inodes, watch_inodes, durations>>
    BY <1>4 DEF ParseLayer, event_maps, job_maps
  <2>2. \A k : (Instants(k)' = Instants(k)) /\ (HasLost(k)' <=> HasLost(k))
    BY <2>1 DEF Instants, HasLost
  <2>3. CASE HasLost(l)
    BY <1>4, <2>1, <2>2, <2>3 DEF ParseLayer, Generated
  <2>4. CASE ~HasLost(l)
    <3>1. gen' = gen /\ parsed' = parsed \cup {l} /\ timeline' = timeline \cup Instants(l)
      BY <1>4, <2>4 DEF ParseLayer
    <3>2. timeline' = UNION {Instants(k) : k \in parsed'}
      BY <2>1, <3>1 DEF Generated
    <3>3. timeline' = UNION {Instants(k)' : k \in parsed'}
      BY <2>2, <3>2
    <3>4. QED
      BY <2>1, <2>2, <2>4, <3>1, <3>3 DEF Generated
  <2>5. QED
    BY <2>3, <2>4
<1>5. CASE WriteTimeline
  <2>1. /\ gen = "files" /\ gen' = "written" /\ parsed = Layers /\ timeline' = timeline \cup Spans
        /\ UNCHANGED <<tracer, file, inodes, watch_inodes, durations, parsed>>
    BY <1>5 DEF WriteTimeline, event_maps, job_maps
  <2>2. \A k : (Instants(k)' = Instants(k)) /\ (HasLost(k)' <=> HasLost(k))
    BY <2>1 DEF Instants, HasLost
  <2>3. Spans' = Spans
    BY <2>1 DEF Spans
  <2>4. timeline' = (UNION {Instants(k) : k \in parsed'}) \cup Spans'
    BY <2>1, <2>3 DEF Generated
  <2>5. timeline' = (UNION {Instants(k)' : k \in parsed'}) \cup Spans'
    BY <2>2, <2>4
  <2>6. QED
    BY <2>1, <2>2, <2>5 DEF Generated
<1>6. QED
  BY <1>2, <1>3, <1>4, <1>5, Frames

-----------------------------------------------------------------------------
(* The names.                                                              *)

(* What @inodes says of an inode is its name, unless it was named since;   *)
(* and an event's inode still has the name it had then, unless it was.     *)
NameInv ==
  /\ named_at \in [Inodes -> 0 .. nsecs]
  /\ traced_at \in [Inodes -> 0 .. nsecs]
  /\ \A i \in Inodes :
       /\ traced_at[i] <= named_at[i]
       /\ traced_at[i] = 0 <=> i \notin DOMAIN inodes
       /\ i \in DOMAIN inodes /\ named_at[i] = traced_at[i] => inodes[i] = name_of[i]
  /\ \A h \in happened :
       named_at[h.event.ino] <= h.event.at => name_of[h.event.ino] = h.name

LEMMA InitNameInv ==
  ASSUME TimelineAssumption, Init
  PROVE  NameInv
<1>1. DOMAIN inodes = {}
  BY DEF Init
<1>2. QED
  BY <1>1 DEF Init, NameInv

LEMMA StepNameInv ==
  ASSUME TimelineAssumption, Types, EventInv, NameInv, [Next]_vars
  PROVE  NameInv'
<1> USE DEF NameInv
<1>1. nsecs \in Nat /\ nsecs' \in Nat /\ nsecs <= nsecs'
  BY Frames DEF Types, SystemTypes, TimelineAssumption
<1>2. /\ \A h \in happened : h.event.ino \in Inodes /\ h.event.at \in Nat /\ h.event.at <= nsecs
      /\ DOMAIN inodes \subseteq Inodes
  BY DEF EventInv, HappenedBefore, EventType, Types, NameTypes
<1>3. ASSUME NEW i \in Inodes, NEW n \in Names, NameInode(i, n)
      PROVE  NameInv'
  <2>1. /\ nsecs' = nsecs + 1 /\ Now = nsecs + 1
        /\ name_of' = [name_of EXCEPT ![i] = n]
        /\ named_at' = [named_at EXCEPT ![i] = nsecs + 1]
        /\ happened' = happened
    BY <1>3 DEF NameInode, Now, event_history
  <2>2. /\ \A j \in Inodes : name_of'[j] = IF j = i THEN n ELSE name_of[j]
        /\ \A j \in Inodes : named_at'[j] = IF j = i THEN nsecs + 1 ELSE named_at[j]
    BY <2>1 DEF Types, SystemTypes
  <2>3. named_at' \in [Inodes -> 0 .. nsecs']
    BY <1>1, <2>1, <2>2
  <2>4. \A h \in happened' :
          named_at'[h.event.ino] <= h.event.at => name_of'[h.event.ino] = h.name
    BY <1>1, <1>2, <2>1, <2>2
  <2>5. CASE tracer["inode"] = "tracing" /\ HasRoom(inodes, i, MapKeys["inode"])
    <3>1. inodes' = WithEntry(inodes, i, n) /\ traced_at' = [traced_at EXCEPT ![i] = nsecs + 1]
      BY <1>3, <2>1, <2>5 DEF NameInode
    <3>2. \A j \in Inodes : traced_at'[j] = IF j = i THEN nsecs + 1 ELSE traced_at[j]
      BY <3>1
    <3>3. /\ DOMAIN inodes' = DOMAIN inodes \cup {i}
          /\ inodes'[i] = n
          /\ \A j \in DOMAIN inodes : j # i => inodes'[j] = inodes[j]
      BY <3>1 DEF WithEntry
    <3>4. traced_at' \in [Inodes -> 0 .. nsecs']
      BY <1>1, <2>1, <3>1, <3>2
    <3>5. \A j \in Inodes :
            /\ traced_at'[j] <= named_at'[j]
            /\ traced_at'[j] = 0 <=> j \notin DOMAIN inodes'
            /\ j \in DOMAIN inodes' /\ named_at'[j] = traced_at'[j] => inodes'[j] = name_of'[j]
      BY <1>1, <2>2, <3>2, <3>3
    <3>6. QED
      BY <2>3, <2>4, <3>4, <3>5
  <2>6. CASE ~(tracer["inode"] = "tracing" /\ HasRoom(inodes, i, MapKeys["inode"]))
    <3>1. UNCHANGED <<inodes, traced_at>>
      BY <1>3, <2>6 DEF NameInode
    <3>2. traced_at' \in [Inodes -> 0 .. nsecs']
      BY <1>1, <3>1
    <3>3. \A j \in Inodes :
            /\ traced_at'[j] <= named_at'[j]
            /\ traced_at'[j] = 0 <=> j \notin DOMAIN inodes'
            /\ j \in DOMAIN inodes' /\ named_at'[j] = traced_at'[j] => inodes'[j] = name_of'[j]
      BY <1>1, <2>2, <3>1
    <3>4. QED
      BY <2>3, <2>4, <3>2, <3>3
  <2>7. QED
    BY <2>5, <2>6
<1>4. CASE UNCHANGED <<name_of, inodes, named_at, traced_at>>
  <2>1. \A h \in happened' :
          named_at'[h.event.ino] <= h.event.at => name_of'[h.event.ino] = h.name
    <3>1. happened' = happened \/ \E l \in Layers, i \in Inodes : EventCall(l, i)
      BY EventEffects DEF ServeClear
    <3>2. ASSUME NEW l \in Layers, NEW i \in Inodes, EventCall(l, i), NEW h \in happened', h \notin happened
          PROVE  name_of'[h.event.ino] = h.name
      <4>1. h = [event |-> [at |-> Now, layer |-> l, ino |-> i], name |-> name_of[i]]
        BY <3>2 DEF EventCall
      <4>2. QED
        BY <1>4, <4>1
    <3>3. QED
      BY <1>4, <3>1, <3>2
  <2>2. named_at' \in [Inodes -> 0 .. nsecs'] /\ traced_at' \in [Inodes -> 0 .. nsecs']
    BY <1>1, <1>4
  <2>3. QED
    BY <1>4, <2>1, <2>2
<1>5. QED
  BY <1>3, <1>4, Frames

-----------------------------------------------------------------------------
(* What is written.                                                        *)

EventsIInv == Types /\ EventInv /\ PrintedOnce /\ AllPrinted /\ Generated /\ NameInv

LEMMA EventsIInvHolds == Spec => []EventsIInv
<1>1. Init => EventsIInv
  BY TimelineAssumption, InitTypes, InitEventInv, InitPrinted, InitGenerated, InitNameInv
  DEF EventsIInv
<1>2. EventsIInv /\ [Next]_vars => EventsIInv'
  BY TimelineAssumption, StepTypes, StepEventInv, StepPrinted, StepGenerated, StepNameInv
  DEF EventsIInv
<1>3. QED
  BY <1>1, <1>2, PTL DEF Spec

(* The instant of an event, at a line it is printed in.                    *)
InstantOf(e, k) == [ph |-> "i", line |-> k, event |-> e, file |-> inodes[e.ino]]

LEMMA ShownIs ==
  ASSUME EventsIInv, gen = "written", NEW e \in EventType
  PROVE  Shown(e) = {InstantOf(e, k) : k \in {k \in DOMAIN file[e.layer] :
                       /\ file[e.layer][k].kind = "map"
                       /\ e \in file[e.layer][k].entries
                       /\ e.ino \in DOMAIN inodes}}
<1>1. /\ timeline = (UNION {Instants(l) : l \in Layers}) \cup Spans
      /\ watch_inodes = inodes
  BY DEF EventsIInv, Generated
<1>2. \A x \in Spans : x.ph = "B/E"
  BY DEF Spans
<1>3. e.layer \in Layers
  BY DEF EventType
<1>4. \A x : x \in Shown(e) <=> x.event = e /\ x.ph = "i" /\ \E l \in Layers : x \in Instants(l)
  <2>1. \A l \in Layers : \A x \in Instants(l) : x.ph = "i"
    BY DEF Instants
  <2>2. QED
    BY <1>1, <1>2, <2>1 DEF Shown
<1>5. \A l \in Layers : \A x : x \in Instants(l) <=>
        \E k \in DOMAIN file[l] : /\ file[l][k].kind = "map"
                               /\ \E d \in file[l][k].entries :
                                    d.ino \in DOMAIN inodes /\ x = InstantOf(d, k)
  BY <1>1 DEF Instants, InstantOf
<1>6. \A d, k : InstantOf(d, k).event = d /\ InstantOf(d, k).ph = "i"
  BY DEF InstantOf
<1>7. \A l \in Layers : \A k \in DOMAIN file[l] :
        file[l][k].kind = "map" /\ e \in file[l][k].entries => e.layer = l
  <2>1. \A l \in Layers : e \in Printed(l) => e.layer = l
    BY DEF EventsIInv, EventInv, AtTheirLayer, At
  <2>2. QED
    BY <2>1 DEF Printed
<1>8. QED
  BY <1>3, <1>4, <1>5, <1>6, <1>7

(* An event that a written timeline could show is shown once: the interval *)
(* probe's print and clear are two requests, of which either may be lost,  *)
(* and events come in between; but a lost request is noted in the file,    *)
(* and tracegen.py then writes nothing.                                    *)
THEOREM ShownOnce == Spec => []EventsShownOnce
<1>1. EventsIInv => EventsShownOnce
  <2> SUFFICES ASSUME EventsIInv, gen = "written", NEW h \in happened
               PROVE  Cardinality(Shown(h.event))
                        = IF h.event \in full \/ h.event \in erased \/ traced_at[h.event.ino] = 0
                          THEN 0 ELSE 1
    BY DEF EventsShownOnce
  <2> DEFINE e == h.event
             l == e.layer
             Lines == {k \in DOMAIN file[l] : /\ file[l][k].kind = "map"
                                             /\ e \in file[l][k].entries
                                             /\ e.ino \in DOMAIN inodes}
  <2>1. e \in EventType /\ l \in Layers /\ e.ino \in Inodes
    BY DEF EventsIInv, EventInv, HappenedBefore, EventType
  <2>2. Shown(e) = {InstantOf(e, k) : k \in Lines}
    BY <2>1, ShownIs
  <2>3. e \in Printed(l) <=> \E k \in DOMAIN file[l] : file[l][k].kind = "map" /\ e \in file[l][k].entries
    BY DEF Printed
  <2>4. traced_at[e.ino] = 0 <=> e.ino \notin DOMAIN inodes
    BY <2>1 DEF EventsIInv, NameInv
  <2>5. events[l] \subseteq Printed(l) /\ ~HasLost(l)
    BY <2>1 DEF EventsIInv, AllPrinted, Generated, Tracers
  <2>6. CASE e \in full \/ e \in erased \/ traced_at[e.ino] = 0
    <3>1. Lines = {}
      <4>1. e \in full \cup erased => e \notin Printed(l)
        BY <2>1 DEF EventsIInv, EventInv, MissedNowhere, Missed, At
      <4>2. QED
        BY <2>3, <2>4, <2>6, <4>1
    <3>2. Shown(e) = {}
      BY <2>2, <3>1
    <3>3. QED
      BY <2>6, <3>2, FS_EmptySet
  <2>7. CASE ~(e \in full \/ e \in erased \/ traced_at[e.ino] = 0)
    <3>1. e \in Printed(l)
      BY <2>5, <2>7 DEF EventsIInv, EventInv, Accounted, Missed, At
    <3>2. PICK k \in DOMAIN file[l] : file[l][k].kind = "map" /\ e \in file[l][k].entries
      BY <2>3, <3>1
    <3>3. LinesDisjoint(file[l])
      BY <2>1, <2>5 DEF EventsIInv, PrintedOnce
    <3>4. Lines = {k}
      BY <2>4, <2>7, <3>2, <3>3 DEF LinesDisjoint
    <3>5. Shown(e) = {InstantOf(e, k)}
      BY <2>2, <3>4
    <3>6. QED
      BY <2>7, <3>5, FS_Singleton
  <2>8. QED
    BY <2>6, <2>7
<1>2. QED
  BY <1>1, EventsIInvHolds, PTL

(* The file of a shown event is that of its inode at the time, although    *)
(* the names come from a map of their last values printed by a tracer of   *)
(* its own: a wrong file means a name given later, or missed.              *)
THEOREM FileIsRight == Spec => []FileIsOfItsTime
<1>1. EventsIInv => FileIsOfItsTime
  <2> HAVE EventsIInv
  <2> SUFFICES ASSUME gen = "written", NEW h \in happened, NEW x \in Shown(h.event),
                      named_at[h.event.ino] <= h.event.at,
                      named_at[h.event.ino] = traced_at[h.event.ino]
               PROVE  x.file = h.name
    <3>1. nsecs \in Nat /\ MaxCalls \in Nat
      BY TimelineAssumption DEF EventsIInv, Types, SystemTypes
    <3>2. \A g \in happened : g.event.ino \in Inodes /\ g.event.at \in Int
      BY <3>1 DEF EventsIInv, EventInv, HappenedBefore, EventType
    <3>3. \A i \in Inodes : named_at[i] \in Int
      BY <3>1 DEF EventsIInv, NameInv
    <3>4. QED
      BY <3>2, <3>3 DEF FileIsOfItsTime
  <2>1. h.event \in EventType /\ h.event.ino \in Inodes
    BY DEF EventsIInv, EventInv, HappenedBefore, EventType
  <2>2. PICK k : x = InstantOf(h.event, k) /\ h.event.ino \in DOMAIN inodes
    BY <2>1, ShownIs
  <2>3. x.file = inodes[h.event.ino]
    BY <2>2 DEF InstantOf
  <2>4. inodes[h.event.ino] = name_of[h.event.ino]
    BY <2>1, <2>2 DEF EventsIInv, NameInv
  <2>5. name_of[h.event.ino] = h.name
    BY DEF EventsIInv, NameInv
  <2>6. QED
    BY <2>3, <2>4, <2>5
<1>2. QED
  BY <1>1, EventsIInvHolds, PTL

-----------------------------------------------------------------------------
(* The jobs.                                                               *)

Ended == [job : Started, end : Int, tid : Threads]

InTime(j) == IF j.traced THEN 1 <= j.start /\ j.start <= nsecs ELSE j.start < 0

(* A thread's jobs follow each other, and only the first is older than the *)
(* trace.                                                                  *)
JobTimes ==
  /\ ran \subseteq Ended /\ no_start \subseteq Started
  /\ \A j \in no_start : j.start <= nsecs
  /\ \A t \in Threads : job[t] # Idle => InTime(job[t])
  /\ \A r \in ran : InTime(r.job) /\ r.job.start < r.end /\ 1 <= r.end /\ r.end <= nsecs
  /\ \A r, q \in ran : r.end = q.end => r = q
  /\ \A r \in ran : job[r.tid] # Idle => job[r.tid].traced /\ r.end < job[r.tid].start

(* Every start that the maps of bpftrace have is of its job, or of a later *)
(* flush.                                                                  *)
Starts ==
  /\ \A t \in Threads :
       job[t] # Idle /\ job[t].kind = "compaction" =>
         /\ job[t].stats[1] = t
         /\ job[t].stats \in DOMAIN compaction_track <=> job[t].traced /\ job[t] \notin no_start
         /\ job[t].stats \in DOMAIN compaction_track =>
              compaction_track[job[t].stats] = job[t].start
  /\ flush_track = 0 \/ flush_track \in FlushStarts
  /\ \A t \in Threads :
       job[t] # Idle /\ job[t].kind = "flush" /\ job[t].traced => job[t].start <= flush_track

IsOf(key, r) ==
  key[1] = r.job.kind /\ key[3] = r.tid /\ key[2] + durations[key] = r.end

Overtaken(r) ==
  \E q \in ran : /\ q.tid = r.tid /\ q.job.kind = r.job.kind /\ r.end < q.end
                 /\ MissedStart(r) /\ MissedStart(q)

Durations ==
  /\ \A key \in DOMAIN durations : \E r \in ran : IsOf(key, r) /\ BeginIsKnown(key[2], r)
  /\ \A r \in ran :
       (\E key \in DOMAIN durations : IsOf(key, r)) \/ r.end \in no_end \/ Overtaken(r)

JobsInv == JobTimes /\ Starts /\ Durations

LEMMA JobKinds ==
  ASSUME Types
  PROVE  /\ \A t \in Threads : job[t] # Idle => job[t] \in Started
         /\ \A j \in Started : j # Idle /\ j.kind \in Jobs /\ j.start \in Int /\ j.traced \in BOOLEAN
         /\ Idle.kind = "idle" /\ "idle" \notin Jobs
         /\ \A j \in Started : j.kind = "compaction" => j.stats \in Stats
  BY DEF Types, SystemTypes, JobType, Started, Jobs, Idle

LEMMA InitJobsInv ==
  ASSUME TimelineAssumption, Init
  PROVE  JobsInv
<1>1. /\ ran = {} /\ no_start = {} /\ DOMAIN compaction_track = {} /\ flush_track = 0
      /\ DOMAIN durations = {}
  BY DEF Init
<1>2. PICK early \in [Threads -> Jobs \cup {"idle"}], id \in [Threads -> 1 .. Cardinality(Threads)],
           at \in [Threads -> Addresses] :
        job = JobsBefore(early, id, at)
  BY Zenon DEF Init
<1>3. \A t \in Threads : job[t] # Idle =>
        /\ job[t].traced = FALSE /\ job[t].start < 0
        /\ job[t].kind = "compaction" => job[t].stats[1] = t
  <2> SUFFICES ASSUME NEW t \in Threads, job[t] # Idle
               PROVE  /\ job[t].traced = FALSE /\ job[t].start < 0
                      /\ job[t].kind = "compaction" => job[t].stats[1] = t
    OBVIOUS
  <2>1. early[t] \in {"flush", "compaction", "idle"}
    BY DEF Jobs
  <2>2. \/ job[t] = Flush(-id[t], FALSE)
        \/ job[t] = Compaction(-id[t], FALSE, <<t, at[t]>>)
    BY <1>2, <2>1 DEF JobsBefore, JobBefore
  <2>3. id[t] \in 1 .. Cardinality(Threads)
    OBVIOUS
  <2>4. QED
    BY <2>2, <2>3 DEF Flush, Compaction
<1>4. QED
  BY <1>1, <1>3 DEF JobsInv, JobTimes, Starts, Durations, InTime

(* Time alone.                                                             *)
LEMMA JobsKept ==
  ASSUME JobsInv, nsecs \in Nat, nsecs' \in Nat, nsecs <= nsecs',
         UNCHANGED <<job, job_maps, ran, no_start, no_end>>,
         \A t \in Threads : job[t] # Idle => job[t].start \in Int,
         \A r \in ran : r.job.start \in Int /\ r.end \in Int,
         \A j \in no_start : j.start \in Int
  PROVE  JobsInv'
<1>1. UNCHANGED <<flush_track, compaction_track, durations>>
  BY DEF job_maps
<1>2. JobTimes'
  BY <1>1 DEF JobsInv, JobTimes, InTime
<1>3. FlushStarts' = FlushStarts
  BY DEF FlushStarts
<1>4. Starts'
  BY <1>1, <1>3 DEF JobsInv, Starts
<1>5. Durations'
  <2>1. \A begin, r : BeginIsKnown(begin, r)' <=> BeginIsKnown(begin, r)
    BY <1>3 DEF BeginIsKnown, MissedStart
  <2>2. \A key, r : IsOf(key, r)' <=> IsOf(key, r)
    BY <1>1 DEF IsOf
  <2>3. \A r : Overtaken(r)' <=> Overtaken(r)
    BY DEF Overtaken, MissedStart
  <2>4. QED
    BY <1>1, <2>1, <2>2, <2>3 DEF JobsInv, Durations
<1>6. QED
  BY <1>2, <1>4, <1>5 DEF JobsInv

(* What the records of ended jobs say stays true while others begin.       *)
LEMMA DurationsKept ==
  ASSUME JobsInv, UNCHANGED <<durations, ran, no_end>>,
         no_start \subseteq no_start',
         \A r \in ran : r.job \in no_start' => r.job \in no_start,
         FlushStarts \subseteq FlushStarts'
  PROVE  Durations'
<1>1. ASSUME NEW r \in ran, NEW begin, BeginIsKnown(begin, r)
      PROVE  BeginIsKnown(begin, r)'
  <2>1. r.job.kind \in {"flush", "compaction"}
    BY DEF JobsInv, JobTimes, Ended, Started, Jobs
  <2>2. CASE r.job.kind = "compaction"
    <3>1. r.job \in no_start' <=> r.job \in no_start
      OBVIOUS
    <3>2. QED
      BY <1>1, <2>2, <3>1 DEF BeginIsKnown, MissedStart
  <2>3. CASE r.job.kind = "flush"
    BY <1>1, <2>3 DEF BeginIsKnown
  <2>4. QED
    BY <2>1, <2>2, <2>3
<1>2. \A key, r : IsOf(key, r)' <=> IsOf(key, r)
  BY DEF IsOf
<1>3. \A r \in ran : Overtaken(r) => Overtaken(r)'
  BY DEF Overtaken, MissedStart
<1>4. QED
  BY <1>1, <1>2, <1>3 DEF JobsInv, Durations

LEMMA BeginFlushKeeps ==
  ASSUME TimelineAssumption, Types, JobsInv, NEW t \in Threads, BeginFlush(t)
  PROVE  JobsInv'
<1> DEFINE new == Flush(Now, TRUE)
<1>1. nsecs \in Nat /\ nsecs' = nsecs + 1 /\ Now = nsecs + 1
  BY DEF Types, SystemTypes, TimelineAssumption, BeginFlush, Call, Now
<1>2. /\ job[t] = Idle
      /\ job' = [job EXCEPT ![t] = new]
      /\ flush_track' = Now
      /\ UNCHANGED <<compaction_track, durations, ran, no_start, no_end>>
  BY DEF BeginFlush, full_maps
<1>3. \A u \in Threads : job'[u] = IF u = t THEN new ELSE job[u]
  BY <1>2 DEF Types, SystemTypes
<1>4. new.kind = "flush" /\ new.start = nsecs + 1 /\ new.traced = TRUE /\ new # Idle
  BY <1>1 DEF Flush, Idle
<1>5. new \in Started
  BY <1>1 DEF Flush, Started
<1> HIDE DEF new
<1>6. /\ \A u \in Threads : job[u] # Idle => job[u].start \in Int
      /\ \A r \in ran : r.job \in Started /\ r.job.start \in Int /\ r.end \in Int /\ r.tid \in Threads
      /\ \A j \in no_start : j.start \in Int
  BY JobKinds DEF JobsInv, JobTimes, Ended
<1>7. JobTimes'
  BY <1>1, <1>2, <1>3, <1>4, <1>6 DEF JobsInv, JobTimes, InTime
<1>8. FlushStarts \subseteq FlushStarts' /\ Now \in FlushStarts'
  <2>1. \A u \in Threads : job[u] # Idle => job'[u] = job[u]
    BY <1>2, <1>3
  <2>2. \A j \in {job[u] : u \in Threads} : j.kind = "flush" => j \in {job'[u] : u \in Threads}
    BY <2>1 DEF Idle
  <2>3. FlushStarts \subseteq FlushStarts'
    BY <1>2, <2>2 DEF FlushStarts
  <2>4. Now \in FlushStarts'
    BY <1>1, <1>3, <1>4 DEF FlushStarts
  <2>5. QED
    BY <2>3, <2>4
<1>9. Starts'
  BY <1>1, <1>2, <1>3, <1>4, <1>6, <1>8 DEF JobsInv, JobTimes, InTime, Starts
<1>10. Durations'
  BY <1>2, <1>8, DurationsKept
<1>11. QED
  BY <1>7, <1>9, <1>10 DEF JobsInv

LEMMA BeginCompactionKeeps ==
  ASSUME TimelineAssumption, Types, JobsInv, NEW t \in Threads, NEW s \in Stats,
         s[1] = t, BeginCompaction(t, s)
  PROVE  JobsInv'
<1> DEFINE new == Compaction(Now, TRUE, s)
<1>1. nsecs \in Nat /\ nsecs' = nsecs + 1 /\ Now = nsecs + 1
  BY DEF Types, SystemTypes, TimelineAssumption, BeginCompaction, Call, Now
<1>2. /\ job[t] = Idle
      /\ job' = [job EXCEPT ![t] = new]
      /\ UNCHANGED <<flush_track, durations, ran, no_end>>
      /\ \/ compaction_track' = WithEntry(compaction_track, s, Now) /\ no_start' = no_start
         \/ /\ compaction_track' = compaction_track /\ no_start' = no_start \cup {new}
            /\ s \notin DOMAIN compaction_track
  BY DEF BeginCompaction, HasRoom
<1>3. \A u \in Threads : job'[u] = IF u = t THEN new ELSE job[u]
  BY <1>2 DEF Types, SystemTypes
<1>4. new.kind = "compaction" /\ new.start = nsecs + 1 /\ new.traced = TRUE /\ new # Idle
      /\ new.stats = s
  BY <1>1 DEF Compaction, Idle
<1>5. new \in Started
  BY <1>1 DEF Compaction, Started
<1> HIDE DEF new
<1>6. /\ \A u \in Threads : job[u] # Idle => job[u].start \in Int
      /\ \A r \in ran : r.job \in Started /\ r.job.start \in Int /\ r.end \in Int /\ r.tid \in Threads
      /\ \A j \in no_start : j.start \in Int
  BY JobKinds DEF JobsInv, JobTimes, Ended
<1>7. /\ \A k : k # s => /\ k \in DOMAIN compaction_track' <=> k \in DOMAIN compaction_track
                         /\ k \in DOMAIN compaction_track =>
                              compaction_track'[k] = compaction_track[k]
      /\ \/ /\ s \in DOMAIN compaction_track' /\ compaction_track'[s] = Now
            /\ no_start' = no_start
         \/ s \notin DOMAIN compaction_track' /\ no_start' = no_start \cup {new}
  BY <1>2 DEF WithEntry
<1>8. new \notin no_start
  BY <1>1, <1>4, <1>6 DEF JobsInv, JobTimes
<1>9. JobTimes'
  BY <1>1, <1>2, <1>3, <1>4, <1>5, <1>6 DEF JobsInv, JobTimes, InTime
<1>10. FlushStarts \subseteq FlushStarts'
  <2>1. \A u \in Threads : job[u] # Idle => job'[u] = job[u]
    BY <1>2, <1>3
  <2>2. \A j \in {job[u] : u \in Threads} : j.kind = "flush" => j \in {job'[u] : u \in Threads}
    BY <2>1 DEF Idle
  <2>3. QED
    BY <1>2, <2>2 DEF FlushStarts
<1>11. \A u \in Threads : job[u] # Idle => job[u].start <= nsecs
  BY <1>1, <1>6 DEF JobsInv, JobTimes, InTime
<1>12. Starts'
  <2>1. ASSUME NEW u \in Threads, job'[u] # Idle, job'[u].kind = "compaction"
        PROVE  /\ job'[u].stats[1] = u
               /\ job'[u].stats \in DOMAIN compaction_track'
                    <=> job'[u].traced /\ job'[u] \notin no_start'
               /\ job'[u].stats \in DOMAIN compaction_track' =>
                    compaction_track'[job'[u].stats] = job'[u].start
    <3>1. CASE u = t
      BY <1>1, <1>3, <1>4, <1>7, <1>8, <3>1
    <3>2. CASE u # t
      <4>1. job'[u] = job[u] /\ job[u].start <= nsecs /\ job[u].start \in Int
        BY <1>3, <1>6, <1>11, <2>1, <3>2
      <4>2. job[u] # new
        BY <1>1, <1>4, <4>1
      <4>3. /\ job[u].stats[1] = u
            /\ job[u].stats \in DOMAIN compaction_track
                 <=> job[u].traced /\ job[u] \notin no_start
            /\ job[u].stats \in DOMAIN compaction_track =>
                 compaction_track[job[u].stats] = job[u].start
        BY <2>1, <4>1 DEF JobsInv, Starts
      <4>4. job[u].stats # s
        BY <3>2, <4>3
      <4>5. QED
        BY <1>7, <4>1, <4>2, <4>3, <4>4
    <3>3. QED
      BY <3>1, <3>2
  <2>2. QED
    BY <1>2, <1>3, <1>4, <1>10, <2>1 DEF JobsInv, Starts
<1>13. Durations'
  <2>1. \A r \in ran : r.job # new
    BY <1>1, <1>4, <1>6 DEF JobsInv, JobTimes
  <2>2. QED
    BY <1>2, <1>10, <2>1, DurationsKept
<1>14. QED
  BY <1>9, <1>12, <1>13 DEF JobsInv

(* What the end of a job finds as its start.                               *)
LEMMA FoundStart ==
  ASSUME TimelineAssumption, Types, JobsInv, NEW t \in Threads, job[t] # Idle
  PROVE  /\ StartOf(job[t]) \in 0 .. nsecs
         /\ job[t].kind = "compaction" =>
              StartOf(job[t]) = IF job[t].traced /\ job[t] \notin no_start THEN job[t].start ELSE 0
         /\ job[t].kind = "flush" =>
              /\ StartOf(job[t]) = flush_track
              /\ job[t].traced => job[t].start <= flush_track
              /\ flush_track = 0 \/ flush_track \in FlushStarts
<1>1. job[t].kind = "compaction" =>
        /\ job[t].stats \in DOMAIN compaction_track <=> job[t].traced /\ job[t] \notin no_start
        /\ job[t].stats \in DOMAIN compaction_track =>
             compaction_track[job[t].stats] = job[t].start
  BY DEF JobsInv, Starts
<1>2. job[t].kind = "flush" => StartOf(job[t]) = flush_track
  BY DEF StartOf
<1>3. job[t].kind = "compaction" =>
        StartOf(job[t]) = IF job[t].traced /\ job[t] \notin no_start THEN job[t].start ELSE 0
  BY <1>1 DEF StartOf
<1>4. QED
  BY <1>2, <1>3, StartOfType DEF JobsInv, Starts

LEMMA EndKeepsTimes ==
  ASSUME TimelineAssumption, Types, JobsInv, NEW t \in Threads, EndJob(t)
  PROVE  JobTimes' /\ Starts' /\ FlushStarts \subseteq FlushStarts'
<1> DEFINE q == [job |-> job[t], end |-> Now, tid |-> t]
<1>1. nsecs \in Nat /\ nsecs' = nsecs + 1 /\ Now = nsecs + 1
  BY DEF Types, SystemTypes, TimelineAssumption, EndJob, Call, Now
<1>2. /\ job[t] # Idle
      /\ job' = [job EXCEPT ![t] = Idle]
      /\ ran' = ran \cup {q}
      /\ UNCHANGED <<flush_track, compaction_track, no_start>>
  BY DEF EndJob
<1>3. \A u \in Threads : job'[u] = IF u = t THEN Idle ELSE job[u]
  BY <1>2 DEF Types, SystemTypes
<1>4. q.job = job[t] /\ q.end = nsecs + 1 /\ q.tid = t /\ job[t] \in Started /\ q \in Ended
  BY <1>1, <1>2, JobKinds DEF Ended
<1> HIDE DEF q
<1>5. /\ \A u \in Threads : job[u] # Idle => job[u].start \in Int
      /\ \A r \in ran : r.job \in Started /\ r.job.start \in Int /\ r.end \in Int /\ r.tid \in Threads
      /\ \A j \in no_start : j.start \in Int
  BY JobKinds DEF JobsInv, JobTimes, Ended
<1>6. JobTimes'
  <2>1. ran' \subseteq Ended /\ no_start' \subseteq Started /\ \A j \in no_start' : j.start <= nsecs'
    BY <1>1, <1>2, <1>4, <1>5 DEF JobsInv, JobTimes
  <2>2. \A u \in Threads : job'[u] # Idle => InTime(job[u])'
    BY <1>1, <1>3, <1>5 DEF JobsInv, JobTimes, InTime
  <2>3. ASSUME NEW r \in ran'
        PROVE  InTime(r.job)' /\ r.job.start < r.end /\ 1 <= r.end /\ r.end <= nsecs'
    <3>1. CASE r \in ran
      BY <1>1, <1>5, <3>1 DEF JobsInv, JobTimes, InTime
    <3>2. CASE r = q
      BY <1>1, <1>2, <1>4, <1>5, <3>2 DEF JobsInv, JobTimes, InTime
    <3>3. QED
      BY <1>2, <3>1, <3>2
  <2>4. \A r \in ran : r.end # q.end
    BY <1>1, <1>4, <1>5 DEF JobsInv, JobTimes
  <2>5. \A r, p \in ran' : r.end = p.end => r = p
    BY <1>2, <2>4 DEF JobsInv, JobTimes
  <2>6. \A r \in ran' : job'[r.tid] # Idle => job'[r.tid].traced /\ r.end < job'[r.tid].start
    BY <1>2, <1>3, <1>4, <1>5 DEF JobsInv, JobTimes
  <2>7. QED
    BY <2>1, <2>2, <2>3, <2>5, <2>6 DEF JobTimes
<1>7. FlushStarts \subseteq FlushStarts'
  <2>1. \A j \in {job[u] : u \in Threads} :
          j.kind = "flush" => j \in {job'[u] : u \in Threads} \cup {r.job : r \in ran'}
    BY <1>2, <1>3, <1>4
  <2>2. QED
    BY <1>2, <2>1 DEF FlushStarts
<1>8. Starts'
  BY <1>2, <1>3, <1>7 DEF JobsInv, Starts
<1>9. QED
  BY <1>6, <1>7, <1>8

LEMMA EndKeepsDurations ==
  ASSUME TimelineAssumption, Types, JobsInv, NEW t \in Threads, EndJob(t),
         FlushStarts \subseteq FlushStarts'
  PROVE  Durations'
<1>0. PICK q, start, key : /\ q = [job |-> job[t], end |-> Now, tid |-> t]
                           /\ start = StartOf(job[t])
                           /\ key = <<job[t].kind, start, t>>
  OBVIOUS
<1>1. nsecs \in Nat /\ nsecs' = nsecs + 1 /\ Now = nsecs + 1
  BY DEF Types, SystemTypes, TimelineAssumption, EndJob, Call, Now
<1>2. /\ job[t] # Idle /\ ran' = ran \cup {q} /\ no_start' = no_start
      /\ job[t].kind = "flush" => job[t].traced
  BY <1>0 DEF EndJob
<1>3. \/ durations' = WithEntry(durations, key, Now - start) /\ no_end' = no_end
      \/ durations' = durations /\ no_end' = no_end \cup {Now}
  BY <1>0 DEF EndJob, Duration
<1>4. /\ start \in 0 .. nsecs
      /\ job[t].kind = "compaction" =>
           start = IF job[t].traced /\ job[t] \notin no_start THEN job[t].start ELSE 0
      /\ job[t].kind = "flush" =>
           /\ start = flush_track
           /\ job[t].traced => job[t].start <= flush_track
           /\ flush_track = 0 \/ flush_track \in FlushStarts
  BY <1>0, <1>2, FoundStart
<1>5. /\ q.job = job[t] /\ q.end = nsecs + 1 /\ q.tid = t
      /\ job[t].kind \in {"flush", "compaction"} /\ job[t].start \in Int
  BY <1>0, <1>1, <1>2, JobKinds DEF Jobs
<1>6. key[1] = job[t].kind /\ key[2] = start /\ key[3] = t
  BY <1>0
<1>7. /\ InTime(job[t])
      /\ \A r \in ran : /\ InTime(r.job) /\ r.job.start < r.end /\ 1 <= r.end /\ r.end <= nsecs
                        /\ r.job.start \in Int /\ r.end \in Int
                        /\ r.job.kind \in {"flush", "compaction"}
      /\ \A r, p \in ran : r.end = p.end => r = p
      /\ \A r \in ran : r.tid = t => job[t].traced /\ r.end < job[t].start
  BY <1>2 DEF JobsInv, JobTimes, Ended, Started, Jobs
<1>8. ASSUME NEW r \in ran, NEW begin, BeginIsKnown(begin, r)
      PROVE  BeginIsKnown(begin, r)'
  <2>1. CASE r.job.kind = "compaction"
    BY <1>2, <1>8, <2>1 DEF BeginIsKnown, MissedStart
  <2>2. CASE r.job.kind = "flush"
    BY <1>8, <2>2 DEF BeginIsKnown
  <2>3. QED
    BY <1>7, <2>1, <2>2
<1>9. BeginIsKnown(start, q)'
  <2>1. CASE job[t].kind = "compaction"
    BY <1>2, <1>4, <1>5, <2>1 DEF BeginIsKnown, MissedStart
  <2>2. CASE job[t].kind = "flush"
    <3>1. \/ start = job[t].start
          \/ start \in FlushStarts /\ job[t].start < start /\ start < nsecs + 1
      BY <1>1, <1>2, <1>4, <1>5, <1>7, <2>2 DEF InTime
    <3>2. QED
      BY <1>5, <2>2, <3>1 DEF BeginIsKnown
  <2>3. QED
    BY <1>5, <2>1, <2>2
<1>10. \A r \in ran : Overtaken(r) => Overtaken(r)'
  BY <1>2 DEF Overtaken, MissedStart
<1>11. CASE durations' = durations /\ no_end' = no_end \cup {Now}
  <2>1. \A k, r : IsOf(k, r)' <=> IsOf(k, r)
    BY <1>11 DEF IsOf
  <2>2. q.end \in no_end'
    BY <1>1, <1>5, <1>11
  <2>3. QED
    BY <1>2, <1>8, <1>10, <1>11, <2>1, <2>2 DEF JobsInv, Durations
<1>12. CASE durations' = WithEntry(durations, key, Now - start) /\ no_end' = no_end
  <2>1. /\ DOMAIN durations' = DOMAIN durations \cup {key}
        /\ durations'[key] = Now - start
        /\ \A k \in DOMAIN durations : k # key => durations'[k] = durations[k]
    BY <1>12 DEF WithEntry
  <2>2. IsOf(key, q)'
    BY <1>1, <1>4, <1>5, <1>6, <2>1 DEF IsOf
  <2>3. \A k \in DOMAIN durations : \A r : k # key /\ IsOf(k, r) => IsOf(k, r)'
    BY <2>1 DEF IsOf
  <2>4. ASSUME NEW r \in ran, key \in DOMAIN durations, IsOf(key, r)
        PROVE  Overtaken(r)'
    <3>1. PICK p \in ran : IsOf(key, p) /\ BeginIsKnown(start, p)
      BY <1>6, <2>4 DEF JobsInv, Durations
    <3>2. BeginIsKnown(start, r)
      BY <1>7, <2>4, <3>1 DEF IsOf
    <3>3. r.tid = t /\ r.job.kind = job[t].kind
      BY <1>6, <2>4 DEF IsOf
    <3>4. job[t].traced /\ r.end < job[t].start
      BY <1>7, <3>3
    <3>5. CASE job[t].kind = "flush"
      <4>1. job[t].start <= start
        BY <1>4, <3>4, <3>5
      <4>2. start < r.end
        BY <1>7, <3>2, <3>3, <3>5 DEF BeginIsKnown
      <4>3. QED
        BY <1>1, <1>4, <1>5, <1>7, <3>4, <4>1, <4>2
    <3>6. CASE job[t].kind = "compaction"
      <4>1. start = IF r.job.traced /\ r.job \notin no_start THEN r.job.start ELSE 0
        BY <3>2, <3>3, <3>6 DEF BeginIsKnown, MissedStart
      <4>2. start = IF job[t].traced /\ job[t] \notin no_start THEN job[t].start ELSE 0
        BY <1>4, <3>6
      <4>3. MissedStart(r) /\ MissedStart(q)
        <5>1. 1 <= job[t].start
          BY <1>7, <3>4 DEF InTime
        <5>2. r.job.traced => 1 <= r.job.start
          BY <1>7 DEF InTime
        <5>3. r.job.start < job[t].start
          BY <1>5, <1>7, <3>4
        <5>4. job[t] \in no_start
          BY <1>5, <1>7, <3>4, <4>1, <4>2, <5>1, <5>3
        <5>5. ~(r.job.traced /\ r.job \notin no_start)
          BY <1>7, <3>4, <4>1, <4>2, <5>2, <5>4
        <5>6. QED
          BY <1>5, <5>4, <5>5 DEF MissedStart
      <4>4. r.end < q.end /\ q \in ran'
        BY <1>1, <1>2, <1>5, <1>7
      <4>5. MissedStart(r)' /\ MissedStart(q)'
        BY <1>2, <4>3 DEF MissedStart
      <4>6. QED
        BY <1>5, <3>3, <4>4, <4>5 DEF Overtaken
    <3>7. QED
      BY <1>5, <3>5, <3>6
  <2>5. ASSUME NEW k \in DOMAIN durations'
        PROVE  \E r \in ran' : IsOf(k, r)' /\ BeginIsKnown(k[2], r)'
    <3>1. CASE k = key
      BY <1>2, <1>6, <1>9, <2>2, <3>1
    <3>2. CASE k # key
      <4>1. k \in DOMAIN durations
        BY <2>1, <3>2
      <4>2. PICK r \in ran : IsOf(k, r) /\ BeginIsKnown(k[2], r)
        BY <4>1 DEF JobsInv, Durations
      <4>3. QED
        BY <1>2, <1>8, <2>3, <3>2, <4>1, <4>2
    <3>3. QED
      BY <3>1, <3>2
  <2>6. ASSUME NEW r \in ran'
        PROVE  (\E k \in DOMAIN durations' : IsOf(k, r)') \/ r.end \in no_end' \/ Overtaken(r)'
    <3>1. CASE r = q
      BY <2>1, <2>2, <3>1
    <3>2. CASE r \in ran
      <4>1. CASE \E k \in DOMAIN durations : IsOf(k, r)
        BY <2>1, <2>3, <2>4, <3>2, <4>1
      <4>2. CASE r.end \in no_end \/ Overtaken(r)
        BY <1>10, <1>12, <3>2, <4>2
      <4>3. QED
        BY <3>2, <4>1, <4>2 DEF JobsInv, Durations
    <3>3. QED
      BY <1>2, <3>1, <3>2
  <2>7. QED
    BY <2>5, <2>6 DEF Durations
<1>13. QED
  BY <1>3, <1>11, <1>12

LEMMA UnseenKeeps ==
  ASSUME TimelineAssumption, Types, JobsInv, NEW t \in Threads, EndUnseenFlush(t)
  PROVE  JobsInv'
<1>1. /\ job[t] # Idle /\ ~job[t].traced
      /\ job' = [job EXCEPT ![t] = Idle]
      /\ UNCHANGED <<nsecs, flush_track, compaction_track, durations, ran, no_start, no_end>>
  BY DEF EndUnseenFlush, job_maps, full_maps
<1>2. \A u \in Threads : job'[u] = IF u = t THEN Idle ELSE job[u]
  BY <1>1 DEF Types, SystemTypes
<1>3. JobTimes'
  BY <1>1, <1>2 DEF JobsInv, JobTimes, InTime, Ended
<1>4. FlushStarts \subseteq FlushStarts'
  <2>1. \A j \in {job[u] : u \in Threads} : j.traced => j \in {job'[u] : u \in Threads}
    BY <1>1, <1>2
  <2>2. QED
    BY <1>1, <2>1 DEF FlushStarts
<1>5. Starts'
  BY <1>1, <1>2, <1>4 DEF JobsInv, Starts
<1>6. Durations'
  BY <1>1, <1>4, DurationsKept
<1>7. QED
  BY <1>3, <1>5, <1>6 DEF JobsInv

LEMMA StepJobsInv ==
  ASSUME TimelineAssumption, Types, JobsInv, [Next]_vars
  PROVE  JobsInv'
<1>1. nsecs \in Nat /\ nsecs' \in Nat /\ nsecs <= nsecs'
  BY Frames DEF Types, SystemTypes, TimelineAssumption
<1>2. CASE UNCHANGED <<job, job_maps, ran, no_start, no_end>>
  <2>1. /\ \A t \in Threads : job[t] # Idle => job[t].start \in Int
        /\ \A r \in ran : r.job.start \in Int /\ r.end \in Int
        /\ \A j \in no_start : j.start \in Int
    BY JobKinds DEF JobsInv, JobTimes, Ended
  <2>2. QED
    BY <1>1, <1>2, <2>1, JobsKept
<1>3. ASSUME NEW t \in Threads, EndJob(t)
      PROVE  JobsInv'
  BY <1>3, EndKeepsTimes, EndKeepsDurations DEF JobsInv
<1>4. ASSUME NEW t \in Threads, NEW at \in Addresses, BeginCompaction(t, <<t, at>>)
      PROVE  JobsInv'
  <2>1. <<t, at>> \in Stats /\ <<t, at>>[1] = t
    BY DEF Stats
  <2>2. QED
    BY <1>4, <2>1, BeginCompactionKeeps
<1>5. QED
  BY <1>2, <1>3, <1>4, BeginFlushKeeps, UnseenKeeps, Frames

JobsIInv == EventsIInv /\ JobsInv

LEMMA JobsIInvHolds == Spec => []JobsIInv
<1>1. Init => JobsInv
  BY TimelineAssumption, InitJobsInv
<1>2. EventsIInv /\ JobsInv /\ [Next]_vars => JobsInv'
  BY TimelineAssumption, StepJobsInv DEF EventsIInv
<1>3. QED
  BY <1>1, <1>2, EventsIInvHolds, PTL DEF Spec, JobsIInv

(* A span shown is that of a job whose end was traced, with that end,      *)
(* although flushes share one start, starts are never deleted but          *)
(* replaced, maps are limited and jobs run before the trace: a compaction  *)
(* begins at its start or, when that was missed, at 0; a flush where it or *)
(* a later flush began.  And every job whose start and end were traced is  *)
(* shown, unless the map of the durations was full.                        *)
THEOREM JobsAreShown == Spec => []JobsShownWithTheirEnds
<1>1. JobsIInv => JobsShownWithTheirEnds
  <2> HAVE JobsIInv
  <2> SUFFICES ASSUME gen = "written"
               PROVE  /\ \A x \in {x \in timeline : x.ph = "B/E"} :
                           \E r \in ran : /\ r.job.kind = x.name /\ r.tid = x.tid /\ r.end = x.end
                                         /\ BeginIsKnown(x.begin, r)
                      /\ \A r \in ran : MissedStart(r) \/ r.end \in SpanEnds \/ r.end \in no_end
    BY DEF JobsShownWithTheirEnds
  <2>1. timeline = (UNION {Instants(l) : l \in Layers}) \cup Spans
    BY DEF JobsIInv, EventsIInv, Generated
  <2>2. \A l \in Layers : \A x \in Instants(l) : x.ph = "i"
    BY DEF Instants
  <2> DEFINE SpanOf(key) == [ph |-> "B/E", name |-> key[1], begin |-> key[2],
                             end |-> key[2] + durations[key], tid |-> key[3]]
  <2>3. Spans = {SpanOf(key) : key \in DOMAIN durations}
    BY DEF Spans
  <2>4. \A key : /\ SpanOf(key).ph = "B/E" /\ SpanOf(key).name = key[1]
                 /\ SpanOf(key).begin = key[2] /\ SpanOf(key).end = key[2] + durations[key]
                 /\ SpanOf(key).tid = key[3]
    OBVIOUS
  <2> HIDE DEF SpanOf
  <2>5. ASSUME NEW x \in timeline, x.ph = "B/E"
        PROVE  \E r \in ran : /\ r.job.kind = x.name /\ r.tid = x.tid /\ r.end = x.end
                             /\ BeginIsKnown(x.begin, r)
    <3>1. x \in Spans
      BY <2>1, <2>2, <2>5
    <3>2. PICK key \in DOMAIN durations : x = SpanOf(key)
      BY <2>3, <3>1
    <3>3. PICK r \in ran : IsOf(key, r) /\ BeginIsKnown(key[2], r)
      BY DEF JobsIInv, JobsInv, Durations
    <3>4. QED
      BY <2>4, <3>2, <3>3 DEF IsOf
  <2>6. ASSUME NEW r \in ran, NEW key \in DOMAIN durations, IsOf(key, r)
        PROVE  r.end \in SpanEnds
    <3>1. SpanOf(key) \in timeline
      BY <2>1, <2>3
    <3>2. QED
      BY <2>4, <2>6, <3>1 DEF IsOf, SpanEnds
  <2>7. \A r \in ran : (\E key \in DOMAIN durations : IsOf(key, r)) \/ r.end \in no_end \/ Overtaken(r)
    BY DEF JobsIInv, JobsInv, Durations
  <2>8. \A r \in ran : Overtaken(r) => MissedStart(r)
    BY DEF Overtaken
  <2>9. QED
    BY <2>5, <2>6, <2>7, <2>8
<1>2. QED
  BY <1>1, JobsIInvHolds, PTL
=============================================================================
