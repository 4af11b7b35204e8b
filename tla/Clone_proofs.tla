---------------------------- MODULE Clone_proofs ----------------------------
(***************************************************************************)
(* Proofs about the command line with the whole of stream_to inside, for   *)
(* any disk, table, volumes, sink and buffer: what Cli_proofs says of the  *)
(* guard and of the shadow map holds with every error of stream_to, for    *)
(* the map that stream_to is given; and what is written of a volume came   *)
(* from its own shadow copy or from the live disk, and when from which.    *)
(***************************************************************************)
EXTENDS Clone, Cli_proofs, ImageBuilder_proofs

LEMMA StreamIsStep ==
  ASSUME StartStream \/ StreamStep \/ StreamReturns
  PROVE  CliNext \/ UNCHANGED vars
<1>1. CASE StartStream
  BY <1>1 DEF StartStream, OpenSink, CloneStep, CliNext
<1>2. CASE StreamStep
  BY <1>2 DEF StreamStep
<1>3. CASE StreamReturns
  BY <1>3 DEF StreamReturns, OnError, Stream, CloneStep, CliNext
<1> QED
  BY <1>1, <1>2, <1>3

LEMMA AroundIsStep == Around => CliNext
BY DEF Around, OpenSink, CloneStep, CliNext

(* Every step of the clone is a step of Cli or, inside stream_to, none. *)
LEMMA IsCli == CloneSpec => CliSpec
<1>1. CloneInit => Init
  BY DEF CloneInit
<1>2. [CloneNext]_clonevars => [CliNext]_vars
  <2> SUFFICES ASSUME [CloneNext]_clonevars PROVE CliNext \/ UNCHANGED vars
    OBVIOUS
  <2>1. CASE Work
    BY <2>1, StreamIsStep, AroundIsStep DEF Work
  <2>2. CASE (MoveVolume \/ Kill \/ Over) /\ UNCHANGED <<table, streamvars>>
    BY <2>2 DEF CliNext
  <2>3. CASE UNCHANGED clonevars
    BY <2>3 DEF clonevars
  <2> QED
    BY <2>1, <2>2, <2>3 DEF CloneNext
<1> QED
  BY <1>1, <1>2, PTL DEF CloneSpec, CliSpec

(***************************************************************************)
(* Whatever stream_to answers, and wherever it panics: the snapshot is     *)
(* completed exactly once on every return of the process.                  *)
(***************************************************************************)
THEOREM CloneCompletesOnce == CloneSpec => []CompletedExactlyOnce
BY IsCli, CompletedOnceCorrect, PTL

(***************************************************************************)
(* The map stream_to reads by has the volumes it should have, each at its  *)
(* place, whatever has happened to the others.                             *)
(***************************************************************************)
THEOREM CloneMapsComplete == CloneSpec => []MapComplete
BY IsCli, MapCorrect, PTL

-----------------------------------------------------------------------------
(***************************************************************************)
(* What the two parts have to say to each other.  stream_to starts in a    *)
(* state ImageBuilder can start in, with the map and the table as they     *)
(* are, and nothing changes these any more; so its invariants hold from    *)
(* then on, and what it ended with is what the process goes by.            *)
(***************************************************************************)
StreamPcs == {"stream", "finish", "return", "unwind", "done", "failed", "aborted", "killed"}

Mapped ==
  \A v \in Volumes \ (moved \cup missed) :
    KeysOf(v) = IF Mappable(v) THEN {FirstExtent(v).off} ELSE {}

Streamed ==
  /\ pc \in StreamPcs
  /\ made
  /\ job.length = SourceLength /\ job.parts = table /\ job.excluded = {}
  /\ job.shadow = ShadowMap
  /\ StreamInv
  /\ ReportInv
  /\ pc \in {"finish", "return", "done"} => stage = "done"
  /\ Mapped

CloneInv ==
  /\ table \in Tables
  /\ DOMAIN shadow_map \subseteq Offsets
  /\ \/ NoStream /\ pc # "stream"
     \/ stage # "none" /\ Streamed

(* StreamInv and ReportInv hold in any state stream_to may start in. *)
LEMMA StartInv == StreamInit => StreamInv /\ ReportInv
BY InitInvariant, ReportInit

LEMMA NextStartInv == StreamInit' => StreamInv' /\ ReportInv'
BY StartInv, PTL

(* The map fits the jobs that are considered, wherever volumes lie. *)
LEMMA BuilderAmongJobs ==
  ASSUME TypeOK, CloneInv, NEW len \in BufferLengths
  PROVE  Builder(table, ShadowMap, len) \in Jobs
<1>1. \A off \in DOMAIN shadow_map : shadow_map[off] \in Volumes
  BY DEF TypeOK
<1>2. ShadowMap \in [DOMAIN shadow_map -> {Device(v) : v \in Volumes}]
  BY <1>1 DEF ShadowMap
<1>3. ShadowMap \in ShadowMaps
  BY <1>2 DEF ShadowMaps, CloneInv
<1> QED
  BY <1>3, CloneAssumption DEF Builders, CloneInv

(* Volumes move, and are missed, for good; the others stay where they are. *)
Moves ==
  /\ moved \subseteq moved' /\ missed \subseteq missed'
  /\ \A v \in Volumes \ moved' : extents'[v] = extents[v]

LEMMA MappedStays ==
  ASSUME Mapped, Moves, UNCHANGED <<supported, shadow_map>>
  PROVE  Mapped'
<1> SUFFICES ASSUME NEW v \in Volumes \ (moved' \cup missed')
             PROVE  (KeysOf(v) = IF Mappable(v) THEN {FirstExtent(v).off} ELSE {})'
  BY DEF Mapped
<1>1. v \in Volumes \ (moved \cup missed) /\ extents'[v] = extents[v]
  BY DEF Moves
<1>2. KeysOf(v)' = KeysOf(v) /\ FirstExtent(v)' = FirstExtent(v) /\ (Mappable(v)' <=> Mappable(v))
  BY <1>1, SamePlace DEF KeysOf, Mappable
<1> QED
  BY <1>1, <1>2 DEF Mapped

(* A step of the process that leaves stream_to alone. *)
LEMMA AloneInv ==
  ASSUME CloneInv, Moves, UNCHANGED <<table, streamvars, supported, shadow_map, made>>,
         NoStream => pc' # "stream",
         stage # "none" => /\ pc' \in StreamPcs
                           /\ pc' \in {"finish", "return", "done"} => stage = "done"
  PROVE  CloneInv'
<1>1. /\ job' = job /\ stage' = stage /\ table' = table /\ shadow_map' = shadow_map
      /\ streamvars' = streamvars
  BY DEF streamvars
<1>2. table' \in Tables /\ DOMAIN shadow_map' \subseteq Offsets
  BY <1>1 DEF CloneInv
<1>3. CASE NoStream /\ pc # "stream"
  <2>1. NoStream' /\ pc' # "stream"
    BY <1>3 DEF NoStream, streamvars, Builder
  <2> QED
    BY <1>2, <2>1 DEF CloneInv
<1>4. CASE stage # "none" /\ Streamed
  <2>1. StreamInv' /\ ReportInv'
    BY <1>1, <1>4, StepInvariant, ReportStep DEF Streamed
  <2>2. Mapped' /\ ShadowMap' = ShadowMap
    BY <1>1, <1>4, MappedStays DEF Streamed, ShadowMap
  <2>3. Streamed'
    BY <1>1, <1>4, <2>1, <2>2 DEF Streamed
  <2> QED
    BY <1>1, <1>2, <1>4, <2>3 DEF CloneInv
<1> QED
  BY <1>3, <1>4 DEF CloneInv

LEMMA StartStreamInv ==
  ASSUME TypeOK, IInv, MapComplete, CloneInv, StartStream
  PROVE  CloneInv'
<1>1. /\ pc = "sink" /\ pc' = "stream" /\ made /\ made' = made
      /\ UNCHANGED <<extents, supported, shadow_map, moved, missed, table>>
  BY DEF StartStream, Step, Goto, IInv, Counted, Held, guard, mapping, history
<1>2. NoStream
  BY <1>1 DEF CloneInv, Streamed, StreamPcs
<1>3. PICK len \in BufferLengths : /\ job' = Builder(table, ShadowMap, len)
                                   /\ buffer' = [b \in 0..(len - 1) |-> Zero]
  BY DEF StartStream
<1>4. job' \in Jobs
  BY <1>3, BuilderAmongJobs
<1>5. /\ job'.length = SourceLength /\ job'.parts = table /\ job'.excluded = {}
      /\ job'.shadow = ShadowMap /\ job'.buffer = len
  BY <1>3 DEF Builder
<1>6. StreamInit'
  BY <1>2, <1>3, <1>4, <1>5 DEF StreamInit, StartStream, NoStream, BufferSectors, DiskLength
<1>7. StreamInv' /\ ReportInv'
  BY <1>6, NextStartInv
<1>8. ShadowMap' = ShadowMap
  BY <1>1 DEF ShadowMap
<1>9. Mapped
  BY <1>1 DEF MapComplete, Mapped
<1>10. Mapped'
  BY <1>1, <1>9, MappedStays DEF Moves
<1>11. Streamed'
  BY <1>1, <1>5, <1>7, <1>8, <1>10 DEF Streamed, StreamPcs
<1>12. stage' # "none"
  BY DEF StartStream
<1> QED
  BY <1>1, <1>11, <1>12 DEF CloneInv

LEMMA StreamStepInv ==
  ASSUME CloneInv, StreamStep
  PROVE  CloneInv'
<1>1. /\ pc = "stream" /\ StreamNext
      /\ UNCHANGED <<pc, extents, supported, shadow_map, moved, missed, made, table>>
  BY DEF StreamStep, vars, guard, mapping, history
<1>2. stage # "none" /\ Streamed
  BY <1>1 DEF CloneInv
<1>3. StreamInv' /\ ReportInv'
  BY <1>1, <1>2, StepInvariant, ReportStep DEF Streamed
<1>4. job' = job
  BY <1>1, JobStays
<1>5. Mapped' /\ ShadowMap' = ShadowMap
  BY <1>1, <1>2, MappedStays DEF Streamed, Moves, ShadowMap
<1>6. Streamed'
  BY <1>1, <1>2, <1>3, <1>4, <1>5 DEF Streamed
<1>7. stage' # "none"
  BY <1>3 DEF StreamInv, StreamTypeOK, Locations
<1> QED
  BY <1>1, <1>2, <1>6, <1>7 DEF CloneInv

LEMMA StreamReturnsInv ==
  ASSUME CloneInv, StreamReturns
  PROVE  CloneInv'
<1>1. /\ pc = "stream" /\ pc' \in StreamPcs
      /\ pc' \in {"finish", "return", "done"} => stage = "done"
      /\ UNCHANGED <<table, streamvars, supported, shadow_map, made>> /\ Moves
  BY DEF StreamReturns, OnError, Step, Goto, StreamPcs, guard, mapping, history, Moves
<1>2. stage # "none"
  BY <1>1 DEF CloneInv
<1> QED
  BY <1>1, <1>2, AloneInv DEF NoStream

(* The map gets no key that is not the place of a volume. *)
LEMMA MapSnapshotInv ==
  ASSUME TypeOK, CloneInv, NEW v \in Volumes, MapSnapshot(v), UNCHANGED <<table, streamvars>>
  PROVE  CloneInv'
<1>1. /\ pc = "map" /\ pc' = pc
      /\ \/ shadow_map' = shadow_map
         \/ StartsOnDisk(v) /\ shadow_map' = Insert(FirstExtent(v).off, v)
  BY DEF MapSnapshot
<1>2. NoStream
  BY <1>1 DEF CloneInv, Streamed, StreamPcs
<1>3. NoStream'
  BY <1>2 DEF NoStream, streamvars, Builder
<1>4. DOMAIN shadow_map' \subseteq Offsets
  <2>1. StartsOnDisk(v) => FirstExtent(v).off \in Offsets
    <3> SUFFICES ASSUME StartsOnDisk(v) PROVE FirstExtent(v).off \in Offsets
      OBVIOUS
    <3>1. extents[v] \in ExtentLists /\ 1 \in DOMAIN extents[v]
      BY StartsIffLies, LiesFacts DEF TypeOK
    <3> QED
      BY <3>1 DEF Offsets, FirstExtent
  <2>2. DOMAIN Insert(FirstExtent(v).off, v) = DOMAIN shadow_map \cup {FirstExtent(v).off}
    BY DEF Insert
  <2> QED
    BY <1>1, <2>1, <2>2 DEF CloneInv
<1> QED
  BY <1>1, <1>3, <1>4 DEF CloneInv

LEMMA AroundInv ==
  ASSUME TypeOK, CloneInv, Around
  PROVE  CloneInv'
<1>1. UNCHANGED <<table, streamvars>>
  BY DEF Around
<1>2. CASE \E v \in Volumes : MapSnapshot(v)
  BY <1>1, <1>2, MapSnapshotInv
<1>3. CASE Finish \/ Drop
  <2>1. /\ UNCHANGED <<supported, shadow_map, made>> /\ Moves
        /\ \/ pc = "finish" /\ pc' \in {"return", "unwind"}
           \/ pc = "return" /\ pc' = "done"
           \/ pc = "unwind" /\ pc' = "failed"
    BY <1>3 DEF Finish, Drop, Goto, mapping, history, Moves
  <2>2. stage # "none" => Streamed
    BY DEF CloneInv, NoStream
  <2> QED
    BY <1>1, <2>1, <2>2, AloneInv DEF Streamed, StreamPcs
<1>4. CASE \/ CheckArgs \/ DebugVss \/ GetLayout \/ CreateForDisk \/ NewBuilder
           \/ DebugImage \/ Confirm \/ BadTarget \/ NoSink
  <2> DEFINE early == {"start", "create", "scan", "add", "created", "map", "sink"}
  <2>1. pc \in early /\ pc' # "stream" /\ shadow_map' = shadow_map
    <3>1. CASE CreateForDisk
      BY <3>1 DEF CreateForDisk, Enumerate, ScanVolume, StartSnapshotSet, AddVolume, DoSnapshotSet,
                  CreateFails, Goto, mapping
    <3>2. CASE ~CreateForDisk
      BY <1>4, <3>2 DEF CheckArgs, DebugVss, GetLayout, NewBuilder, DebugImage, Confirm, BadTarget,
                        NoSink, Step, Goto, mapping
    <3> QED
      BY <3>1, <3>2
  <2>2. NoStream
    BY <2>1 DEF CloneInv, Streamed, StreamPcs
  <2>3. NoStream'
    BY <1>1, <2>2 DEF NoStream, streamvars, Builder
  <2> QED
    BY <1>1, <2>1, <2>3 DEF CloneInv
<1> QED
  BY <1>2, <1>3, <1>4 DEF Around

LEMMA OtherInv ==
  ASSUME TypeOK, CloneInv,
         \/ (MoveVolume \/ Kill \/ Over) /\ UNCHANGED <<table, streamvars>>
         \/ UNCHANGED clonevars
  PROVE  CloneInv'
<1>1. UNCHANGED <<table, streamvars>>
  BY DEF clonevars
<1>2. UNCHANGED <<supported, shadow_map, made>> /\ (pc' = pc \/ pc' = "killed")
  BY DEF MoveVolume, Kill, Over, Goto, clonevars, vars, guard, mapping
<1>3. Moves
  <2>1. CASE MoveVolume
    BY <2>1 DEF MoveVolume, Moves, TypeOK
  <2>2. CASE Kill \/ Over \/ UNCHANGED clonevars
    BY <2>2 DEF Kill, Over, clonevars, vars, history, Moves
  <2> QED
    BY <2>1, <2>2
<1>4. NoStream => pc # "stream"
  BY DEF CloneInv, NoStream
<1>5. stage # "none" => Streamed
  BY DEF CloneInv, NoStream
<1> QED
  BY <1>1, <1>2, <1>3, <1>4, <1>5, AloneInv DEF Streamed, StreamPcs

(* CloneInv holds initially and every step keeps it, given what is known of Cli. *)
THEOREM CloneInductive == CloneSpec => [](TypeOK /\ IInv /\ CloneInv)
<1>1. CloneInit => CloneInv
  BY DEF CloneInit, CloneInv, Init
<1>2. TypeOK /\ IInv /\ MapComplete /\ CloneInv /\ [CloneNext]_clonevars => CloneInv'
  <2> SUFFICES ASSUME TypeOK, IInv, MapComplete, CloneInv, [CloneNext]_clonevars
               PROVE  CloneInv'
    OBVIOUS
  <2>1. CASE Work
    BY <2>1, AroundInv, StartStreamInv, StreamStepInv, StreamReturnsInv DEF Work
  <2>2. CASE ~Work
    BY <2>2, OtherInv DEF CloneNext
  <2> QED
    BY <2>1, <2>2
<1> QED
  BY <1>1, <1>2, IsCli, TypeCorrect, Inductive, MapCorrect, PTL DEF CloneSpec

(***************************************************************************)
(* Exit code 0 after a clone, for every disk, sink and buffer: the image   *)
(* is whole and laid out as the disk is, and the snapshot is given back.   *)
(***************************************************************************)
THEOREM SuccessCorrect == CloneSpec => []SuccessIsComplete
<1>1. IInv /\ CloneInv => SuccessIsComplete
  <2> SUFFICES ASSUME IInv, CloneInv, pc = "done", stage # "none"
               PROVE  /\ completes = 1
                      /\ total_written = SourceLength
                      /\ \A i \in DOMAIN image : image[i] \in PlanOf(i)
    BY DEF SuccessIsComplete
  <2>1. Streamed /\ stage = "done"
    BY DEF CloneInv, NoStream, Streamed
  <2>2. completes = 1
    BY <2>1 DEF Streamed, IInv, Counted, Held
  <2>3. /\ total_written = pos /\ pos = DiskLength /\ sink_pos = pos
        /\ LayoutPreserved /\ StreamTypeOK
    BY <2>1 DEF Streamed, StreamInv, Positions
  <2>4. DiskLength = SourceLength
    BY <2>1 DEF Streamed, DiskLength
  <2>5. \A i \in DOMAIN image : i < sink_pos
    BY <2>3, JobNumbers DEF StreamTypeOK
  <2> QED
    BY <2>2, <2>3, <2>4, <2>5 DEF LayoutPreserved
<1> QED
  BY <1>1, CloneInductive, PTL

(***************************************************************************)
(* As long as stream_to reads from a shadow copy, it is there: it belongs  *)
(* to the volume the map names, and the guard still holds its snapshot.    *)
(***************************************************************************)
THEOREM ShadowsCorrect == CloneSpec => []ShadowsReadAreThere
<1>1. TypeOK /\ IInv /\ CloneInv => ShadowsReadAreThere
  <2> SUFFICES ASSUME TypeOK, IInv, CloneInv, stage \in {"readShadow", "retryShadow"}, pc = "stream"
               PROVE  /\ held /\ completes = 0
                      /\ CopyOf(part) = shadow_map[table[part].start]
                      /\ CopyOf(part) \in shadows
    BY DEF ShadowsReadAreThere
  <2>1. held /\ completes = 0
    BY DEF IInv, Counted, Held
  <2>2. Streamed
    BY DEF CloneInv
  <2>3. HasShadow(part)
    BY <2>2 DEF Streamed, StreamInv, OnShadow
  <2>4. /\ table[part].start \in DOMAIN shadow_map
        /\ CopyOf(part) = shadow_map[table[part].start]
    BY <2>2, <2>3 DEF HasShadow, CopyOf, Parts, Streamed, ShadowMap, Device
  <2> QED
    BY <2>1, <2>4 DEF TypeOK
<1> QED
  BY <1>1, CloneInductive, PTL

-----------------------------------------------------------------------------
(* The plan for a sector of a volume that is where it was is about that volume alone. *)
LEMMA PlanInVolume ==
  ASSUME Streamed, NEW v, OwnKey(v), NEW i \in DOMAIN image, InVolume(v, i)
  PROVE  /\ PlanOf(i) = IF FirstExtent(v).off \in DOMAIN shadow_map
                        THEN {Shadow(v, VolumeSector(v, i)), Raw(i)}
                        ELSE {Raw(i)}
         /\ FirstExtent(v).off \in DOMAIN shadow_map /\ image[i] = Raw(i) => i \in emptied
<1> DEFINE off == FirstExtent(v).off
<1>1. StreamTypeOK /\ InMiddle(i) /\ LiesOnDisk(v)
  BY DEF Streamed, StreamInv, InVolume
<1>2. PICK k \in Used : FirstOwner(k, i) /\ table[k].start = off
  BY DEF InVolume
<1>3. Parts[k].start = off /\ ~Excluded(k)
  BY <1>2 DEF Streamed, Parts, Excluded
<1>4. k \in Owners(i) /\ Owners(i) \subseteq Nat
  BY <1>1, <1>2, JobNumbers DEF FirstOwner, StreamTypeOK, Owners, Used
<1>5. PlanOf(i) = PartitionPlan(k, i)
  <2>1. \A l \in Owners(i) : FirstOwner(l, i) => l = k
    BY <1>2, <1>4 DEF FirstOwner
  <2>2. {l \in Owners(i) : FirstOwner(l, i)} = {k}
    BY <1>2, <1>4, <2>1
  <2> QED
    BY <1>1, <1>4, <2>2 DEF PlanOf
<1>6. CASE off \in DOMAIN shadow_map
  <2>1. HasShadow(k) /\ CopyOf(k) = v
    BY <1>1, <1>3, <1>6 DEF HasShadow, CopyOf, Streamed, ShadowMap, Device, OwnKey
  <2>2. PlanOf(i) = {Shadow(v, VolumeSector(v, i)), Raw(i)}
    BY <1>3, <1>5, <2>1 DEF PartitionPlan, VolumeSector
  <2>3. image[i] = Raw(i) => i \in emptied
    BY <1>1, <1>2, <1>4, <2>1 DEF Streamed, ReportInv, FallbackInv, Reported, Told
  <2> QED
    BY <1>6, <2>2, <2>3
<1>7. CASE off \notin DOMAIN shadow_map
  <2>1. ~HasShadow(k)
    BY <1>3, <1>7 DEF HasShadow, Streamed, ShadowMap
  <2> QED
    BY <1>3, <1>5, <1>7, <2>1 DEF PartitionPlan
<1> QED
  BY <1>6, <1>7

Owned == \A v \in Volumes \ moved : OwnKey(v)

LEMMA OwnedAlways == CloneSpec => []Owned
BY IsCli, OwnKeys, PTL DEF Owned

(***************************************************************************)
(* For any volumes and any partition table: after a clone with exit code 0 *)
(* each sector of a volume nothing has happened to came from its own       *)
(* shadow copy, if the program could see the volume and VSS supports it,   *)
(* unless the copy was asked for the sector twice and gave nothing; and    *)
(* from the live disk otherwise.                                           *)
(***************************************************************************)
THEOREM FromShadowCorrect == CloneSpec => []SupportedFromShadow
<1>1. CloneInv /\ Owned => SupportedFromShadow
  <2> SUFFICES ASSUME CloneInv, Owned, pc = "done", stage # "none",
                      NEW v \in Volumes \ (moved \cup missed), NEW i \in DOMAIN image,
                      InVolume(v, i)
               PROVE  IF Mappable(v) THEN i \in emptied \/ image[i] = Shadow(v, VolumeSector(v, i))
                                     ELSE image[i] = Raw(i)
    BY DEF SupportedFromShadow
  <2>1. Streamed /\ stage = "done" /\ OwnKey(v) /\ LiesOnDisk(v)
    BY DEF CloneInv, NoStream, Streamed, Owned, InVolume
  <2>2. KeysOf(v) = IF Mappable(v) THEN {FirstExtent(v).off} ELSE {}
    BY <2>1 DEF Streamed, Mapped
  <2>3. FirstExtent(v).off \in DOMAIN shadow_map <=> Mappable(v)
    BY <2>1, <2>2 DEF OwnKey, KeysOf
  <2>4. pos = DiskLength /\ sink_pos = pos /\ LayoutPreserved /\ StreamTypeOK
    BY <2>1 DEF Streamed, StreamInv, Positions
  <2>5. image[i] \in PlanOf(i)
    BY <2>4, JobNumbers DEF StreamTypeOK, LayoutPreserved
  <2> QED
    BY <2>1, <2>3, <2>5, PlanInVolume
<1> QED
  BY <1>1, CloneInductive, OwnedAlways, PTL

(***************************************************************************)
(* And at any time, whatever calls have failed for it and wherever other   *)
(* volumes have moved to: what the image holds of a volume that has not    *)
(* moved is live data of its own or from its own shadow copy.              *)
(***************************************************************************)
THEOREM OwnCopyCorrect == CloneSpec => []OwnCopyOrLive
<1>1. CloneInv /\ Owned => OwnCopyOrLive
  <2> SUFFICES ASSUME CloneInv, Owned, NEW v \in Volumes \ moved, NEW i \in DOMAIN image,
                      InVolume(v, i)
               PROVE  image[i] \in {Unwritten, Shadow(v, VolumeSector(v, i)), Raw(i)}
    BY DEF OwnCopyOrLive
  <2>1. Streamed /\ OwnKey(v)
    <3>1. ~NoStream
      BY DEF NoStream
    <3> QED
      BY <3>1 DEF CloneInv, Owned
  <2>2. image[i] \in PlanOf(i) \cup {Unwritten}
    BY <2>1 DEF Streamed, StreamInv, LayoutPreserved
  <2> QED
    BY <2>1, <2>2, PlanInVolume
<1> QED
  BY <1>1, CloneInductive, OwnedAlways, PTL
=============================================================================
