-------------------------------- MODULE Clone --------------------------------
(***************************************************************************)
(* The command line and the image builder together: the shadow map that    *)
(* build_partition_shadow_map makes becomes the map stream_to reads by,    *)
(* and what stream_to answers decides how the snapshot is given back.      *)
(* Volumes may move and the process may be killed at any time.             *)
(***************************************************************************)
EXTENDS Cli, ImageBuilder

CONSTANTS
  SourceLength,   \* the length of the disk
  Tables,         \* its partition tables to consider
  VolumeLength,   \* for each volume, the length of its shadow copy device
  Sink,           \* the kind of sink the user has chosen
  BufferLengths   \* the lengths of the read buffer to consider, from --buffer-size

(***************************************************************************)
(* What ImageBuilder::new may put together, and what stream_to is given;   *)
(* the command line excludes nothing and passes no on_vss_fallback.        *)
(***************************************************************************)
Builder(parts, shadow, len) ==
  [length |-> SourceLength, parts |-> parts, shadow |-> shadow, excluded |-> {},
   sink |-> Sink, on_vss_fallback |-> "none", buffer |-> len]

Offsets == UNION {{e[i].off : i \in DOMAIN e} : e \in ExtentLists}

(* The shadow copy of a volume, which has the name of its volume, as a device. *)
Device(v) == [copy |-> v, len |-> VolumeLength[v]]

ShadowMaps == UNION {[offs -> {Device(v) : v \in Volumes}] : offs \in SUBSET Offsets}

Builders == {Builder(t, s, len) : t \in Tables, s \in ShadowMaps, len \in BufferLengths}

(* The clones of ImageBuilder that are considered include all of them. *)
ASSUME CloneAssumption == Builders \subseteq Jobs

VARIABLE table   \* the partition table of the disk; never changes

(* stream_to has not been called. *)
NoStream ==
  /\ stage = "none"
  /\ job = Builder(<<>>, <<>>, 0)
  /\ pos = 0 /\ total_written = 0 /\ to_write = 0 /\ n = 0 /\ part = 0 /\ sink_pos = 0
  /\ buffer = <<>> /\ image = <<>>
  /\ handle = "none"
  /\ stream_status = [source |-> "PrimaryGpt", part |-> 0]
  /\ fallbacks = {} /\ emptied = {}
  /\ double_close = FALSE /\ leaked = FALSE

clonevars == <<vars, table, streamvars>>

CloneInit == Init /\ table \in Tables /\ NoStream

(* Mutant: a key is the sector behind the one its partition starts at. *)
ShadowMapShifted == [off \in {o + 1 : o \in DOMAIN shadow_map} |-> Device(shadow_map[off - 1])]

(* self.shadow_map: the device each path leads to. *)
ShadowMap == [off \in DOMAIN shadow_map |-> Device(shadow_map[off])]

(* The sink is open and stream_to is called. *)
StartStream ==
  /\ Step("sink", "stream")
  /\ \E len \in BufferLengths :
       /\ job' = Builder(table, ShadowMap, len)
       /\ buffer' = [b \in 0..(len - 1) |-> Zero]
  /\ stage' = "sector0"
  /\ image' = [i \in 0..(SourceLength - 1) |-> Unwritten]
  /\ UNCHANGED <<table, pos, total_written, to_write, n, part, handle, stream_status, fallbacks,
                 emptied, sink_pos, double_close, leaked>>

StreamStep ==
  /\ pc = "stream"
  /\ ~StreamEnded
  /\ StreamNext
  /\ UNCHANGED <<vars, table>>

(* Mutant: an error of stream_to is printed, and the run goes on to finish. *)
ErrorPrinted == "finish"

OnError == "unwind"

StreamReturns ==
  /\ \/ stage = "done" /\ Step("stream", "finish")
     \/ stage \in {"failed", "incomplete"} /\ Step("stream", OnError)
     \/ stage = "panicked" /\ (Step("stream", "unwind") \/ Step("stream", "aborted"))
  /\ UNCHANGED <<table, streamvars>>

(* Everything else is as in Cli. *)
Around ==
  /\ \/ CheckArgs \/ DebugVss \/ GetLayout \/ CreateForDisk \/ NewBuilder
     \/ \E v \in Volumes : MapSnapshot(v)
     \/ DebugImage \/ Confirm \/ BadTarget \/ NoSink \/ Finish \/ Drop
  /\ UNCHANGED <<table, streamvars>>

Work == Around \/ StartStream \/ StreamStep \/ StreamReturns

CloneNext ==
  \/ Work
  \/ (MoveVolume \/ Kill \/ Over) /\ UNCHANGED <<table, streamvars>>

CloneSpec == CloneInit /\ [][CloneNext]_clonevars

-----------------------------------------------------------------------------
(***************************************************************************)
(* A clone that exits with success has written every sector, each at its   *)
(* own address with a content planned for it, and has completed its        *)
(* snapshot exactly once.                                                  *)
(***************************************************************************)
SuccessIsComplete ==
  pc = "done" /\ stage # "none" =>
    /\ completes = 1
    /\ total_written = SourceLength
    /\ \A i \in DOMAIN image : image[i] \in PlanOf(i)

(***************************************************************************)
(* Sector i of the disk is sector VolumeSector(v, i) of volume v: it is    *)
(* copied as part of the partition that starts where v lies.               *)
(***************************************************************************)
InVolume(v, i) ==
  /\ LiesOnDisk(v)
  /\ InMiddle(i)
  /\ \E k \in Used : FirstOwner(k, i) /\ table[k].start = FirstExtent(v).off

VolumeSector(v, i) == i - FirstExtent(v).off

(***************************************************************************)
(* When a clone has succeeded, a volume that has not moved and for which   *)
(* no call has failed without an error was copied from its own shadow      *)
(* copy, sector by sector, except where that was asked twice and gave      *)
(* nothing; but from the live disk if VSS does not support it or its       *)
(* extents do not fit the buffer they are asked for with.  Nobody is told. *)
(***************************************************************************)
SupportedFromShadow ==
  pc = "done" /\ stage # "none" =>
    \A v \in Volumes \ (moved \cup missed) : \A i \in DOMAIN image :
      InVolume(v, i) =>
        IF Mappable(v) THEN i \in emptied \/ image[i] = Shadow(v, VolumeSector(v, i))
                       ELSE image[i] = Raw(i)

(***************************************************************************)
(* Whatever call has failed with or without an error, and wherever other   *)
(* volumes have moved to: what is written of a volume that has not moved   *)
(* is its own, live or from its own shadow copy, and at its own place.     *)
(***************************************************************************)
OwnCopyOrLive ==
  \A v \in Volumes \ moved : \A i \in DOMAIN image :
    InVolume(v, i) => image[i] \in {Unwritten, Shadow(v, VolumeSector(v, i)), Raw(i)}

(***************************************************************************)
(* The device stream_to reads is a shadow copy that was made, that of the  *)
(* volume the map names for the partition, and not yet given back.         *)
(***************************************************************************)
ShadowsReadAreThere ==
  stage \in {"readShadow", "retryShadow"} /\ pc = "stream" =>
    /\ held
    /\ completes = 0
    /\ CopyOf(part) = shadow_map[table[part].start]
    /\ CopyOf(part) \in shadows
=============================================================================
