------------------------------ MODULE Diagram ------------------------------
(***************************************************************************)
(* build_diagram_regions (src/diagram.rs): the preview of a clone that is  *)
(* shown before the user confirms it.  It walks the used partitions in the *)
(* order of their addresses, fills the space between them with gaps and    *)
(* says of each partition whether its data will come from a shadow copy.   *)
(* stream_to makes that choice for itself, sector by sector: Geometry's    *)
(* PlanOf.                                                                 *)
(***************************************************************************)
EXTENDS Geometry

VARIABLES
  stage,    \* "primary", "partitions" or "done"
  left,     \* the partition entries the loop has not come to
  pos,      \* the disk address up to which there are regions
  regions   \* the regions pushed so far

vars == <<job, stage, left, pos, regions>>

-----------------------------------------------------------------------------
(***************************************************************************)
(* num is the partition's number and path the key of shadow_map whose path *)
(* the region carries, as a set of at most one; 0 and {} elsewhere.        *)
(***************************************************************************)
Region(start, end, source, num, path) ==
  [start |-> start, end |-> end, source |-> source, num |-> num, path |-> path]

Area(start, end, source) == Region(start, end, source, 0, {})

(* Mutant: the partitions in the order of the layout, not sorted. *)
NextPartitionUnsorted(k) == k \in left /\ \A l \in left : k <= l

(* The first of those left in a stable sort by starting_offset. *)
NextPartition(k) ==
  /\ k \in left
  /\ \A l \in left : \/ Parts[k].start < Parts[l].start
                     \/ Parts[k].start = Parts[l].start /\ k <= l

(* Mutant: no `gap_end > pos`. *)
GapBeforeUnguarded(start) ==
  IF pos < start THEN <<Area(pos, IF start < BackupStart THEN start ELSE BackupStart, "Gap")>>
                 ELSE <<>>

(* The gap in front of a partition, cut off where the backup area starts. *)
GapBefore(start) ==
  LET gap_end == IF start < BackupStart THEN start ELSE BackupStart
  IN IF pos < start /\ pos < gap_end THEN <<Area(pos, gap_end, "Gap")>> ELSE <<>>

(* Mutant: the keys behind the start and up to the end of the partition. *)
ShadowPathsLate(k) ==
  IF HasShadow(k) THEN {{Parts[k].start}}
  ELSE LET inside == {off \in DOMAIN job.shadow : Parts[k].start < off /\ off <= PartEnd(k)}
       IN IF inside = {} THEN {{}} ELSE {{off} : off \in inside}

(***************************************************************************)
(* The key of shadow_map taken for a partition: its start, or else any key *)
(* inside the partition, which one being up to the order of the HashMap.   *)
(***************************************************************************)
ShadowPaths(k) ==
  IF HasShadow(k) THEN {{Parts[k].start}}
  ELSE LET inside == {off \in DOMAIN job.shadow : Parts[k].start <= off /\ off < PartEnd(k)}
       IN IF inside = {} THEN {{}} ELSE {{off} : off \in inside}

(* Mutant: a partition that reaches the backup area is left out. *)
IsShownBeforeBackup(k) == PartEnd(k) < BackupStart

IsShown(k) == Parts[k].start < BackupStart

(* Mutant: no gap behind the last partition. *)
ClosingRegionsNoGap ==
  IF BackupStart < DiskLength THEN <<Area(BackupStart, DiskLength, "GptBackup")>> ELSE <<>>

ClosingRegions ==
  (IF pos < BackupStart THEN <<Area(pos, BackupStart, "Gap")>> ELSE <<>>)
  \o (IF BackupStart < DiskLength THEN <<Area(BackupStart, DiskLength, "GptBackup")>> ELSE <<>>)

-----------------------------------------------------------------------------
Init ==
  /\ job \in Jobs
  /\ stage = "primary"
  /\ left = Used
  /\ pos = 0
  /\ regions = <<>>

PushPrimary ==
  /\ stage = "primary"
  /\ regions' = <<Area(0, GptSectors, "GptPrimary")>>
  /\ pos' = GptSectors
  /\ stage' = "partitions"
  /\ UNCHANGED <<job, left>>

(* One turn of the loop, for a partition that starts in front of the backup area ... *)
PushPartition(k) ==
  /\ stage = "partitions"
  /\ NextPartition(k)
  /\ IsShown(k)
  /\ \E path \in ShadowPaths(k) :
       regions' = regions \o GapBefore(Parts[k].start)
                  \o <<Region(Parts[k].start, PartEnd(k),
                              IF path = {} THEN "PartitionRaw" ELSE "PartitionShadow",
                              Parts[k].num, path)>>
  /\ pos' = PartEnd(k)
  /\ left' = left \ {k}
  /\ UNCHANGED <<job, stage>>

(* ... and for any other, which leaves a gap at most. *)
SkipPartition(k) ==
  /\ stage = "partitions"
  /\ NextPartition(k)
  /\ ~IsShown(k)
  /\ regions' = regions \o GapBefore(Parts[k].start)
  /\ pos' = IF GapBefore(Parts[k].start) = <<>> THEN pos ELSE BackupStart
  /\ left' = left \ {k}
  /\ UNCHANGED <<job, stage>>

PushClosing ==
  /\ stage = "partitions"
  /\ left = {}
  /\ regions' = regions \o ClosingRegions
  /\ stage' = "done"
  /\ UNCHANGED <<job, left, pos>>

Returned == stage = "done" /\ UNCHANGED vars

Next ==
  \/ PushPrimary \/ PushClosing \/ Returned
  \/ \E k \in left : PushPartition(k) \/ SkipPartition(k)

Spec == Init /\ [][Next]_vars

-----------------------------------------------------------------------------
RegionSources == {"GptPrimary", "GptBackup", "Gap", "PartitionShadow", "PartitionRaw"}

Regions == [start : Nat, end : Nat, source : RegionSources, num : Nat,
            path : SUBSET DOMAIN job.shadow]

(* The range of every variable; no region is empty or inside out, so sizes do not underflow. *)
TypeOK ==
  /\ stage \in {"primary", "partitions", "done"}
  /\ left \subseteq Used
  /\ pos \in Nat
  /\ regions \in Seq(Regions)
  /\ \A x \in DOMAIN regions : regions[x].start < regions[x].end

Shows(x, i) == regions[x].start <= i /\ i < regions[x].end

(***************************************************************************)
(* The preview has no holes, whatever the layout (nested or overlapping    *)
(* partitions, out of order, past the end of the disk): each sector of the *)
(* disk is in some region.                                                 *)
(***************************************************************************)
RegionsCover ==
  stage = "done" => \A i \in 0..(DiskLength - 1) : \E x \in DOMAIN regions : Shows(x, i)

(***************************************************************************)
(* A partition the stream reads from is shown, under its number: the user  *)
(* gets to see it, and to exclude it, before any of it is copied.          *)
(***************************************************************************)
PartitionsShown ==
  stage = "done" => \A k \in Used :
    (\E i \in Parts[k].start..(PartEnd(k) - 1) : InMiddle(i) /\ FirstOwner(k, i)) =>
      \E x \in DOMAIN regions : /\ regions[x].source \in {"PartitionShadow", "PartitionRaw"}
                                /\ regions[x].num = Parts[k].num
                                /\ regions[x].start = Parts[k].start
                                /\ regions[x].end = PartEnd(k)

(***************************************************************************)
(* The layout of a GPT disk: room for both areas, partitions between them  *)
(* that do not overlap, shadow copies of whole partitions only.            *)
(***************************************************************************)
Regular ==
  /\ 2 * GptSectors <= DiskLength
  /\ \A k \in Used : GptSectors <= Parts[k].start /\ PartEnd(k) <= BackupStart
  /\ \A k, l \in Used :
       k # l => PartEnd(k) <= Parts[l].start \/ PartEnd(l) <= Parts[k].start
  /\ \A off \in DOMAIN job.shadow, k \in Used :
       Parts[k].start <= off /\ off < PartEnd(k) => off = Parts[k].start

(* On a regular disk the regions follow one another from the first sector to the last. *)
RegionsTile ==
  stage = "done" /\ Regular =>
    /\ regions[1].start = 0
    /\ regions[Len(regions)].end = DiskLength
    /\ \A x \in 1..(Len(regions) - 1) : regions[x].end = regions[x + 1].start

(* A partition with a shadow copy comes from its place on the copy whose path is shown. *)
RegionContents(r, i) ==
  CASE r.source \in {"GptPrimary", "GptBackup", "PartitionRaw"} -> {Raw(i)}
    [] r.source = "PartitionShadow" ->
         {Shadow(job.shadow[off].copy, i - r.start) : off \in r.path} \cup {Raw(i)}
    [] r.source = "Gap" -> {Zero}

(***************************************************************************)
(* On a regular disk the preview is true: what it says of a sector is what *)
(* stream_to plans for it, unless the user excludes the partition.         *)
(***************************************************************************)
PreviewMatchesPlan ==
  stage = "done" /\ Regular =>
    \A x \in DOMAIN regions : \A i \in regions[x].start..(regions[x].end - 1) :
      PlanOf(i) = IF regions[x].source \in {"PartitionShadow", "PartitionRaw"}
                     /\ regions[x].num \in job.excluded
                  THEN {Zero}
                  ELSE RegionContents(regions[x], i)
=============================================================================
