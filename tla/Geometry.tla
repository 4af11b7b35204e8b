------------------------------ MODULE Geometry ------------------------------
(***************************************************************************)
(* What a clone starts from: the drive layout of the source disk           *)
(* (src/disk.rs), the shadow map (src/vss.rs) and the partitions the user  *)
(* leaves out; and what stream_to (src/image_builder.rs) makes of them: to *)
(* which region a sector of the disk belongs and what is planned for it.   *)
(*                                                                         *)
(* The unit of every length and address is one sector of 512 bytes.  The   *)
(* content of a sector is a tag: which device it was read from (the raw    *)
(* disk, one of the shadow copies, or none for the zero fill) and which    *)
(* sector of that device it was.                                           *)
(***************************************************************************)
EXTENDS Integers, Sequences

CONSTANTS
  GptSectors,   \* GPT_HEADER_SECTORS (34 in the program)
  Jobs          \* the clones to consider, see IsJob

(* What a path of the shadow map never leads to. *)
NotACopy == {"raw", "zero", "unwritten"}

(***************************************************************************)
(* The length of the disk; its partition entries in the order of the drive *)
(* layout (an unused entry has length 0); for each disk offset that is a   *)
(* key of shadow_map, the shadow copy its path leads to and the length of  *)
(* that device; the excluded partition numbers.  A job may have more       *)
(* fields.                                                                 *)
(***************************************************************************)
IsJob(j) ==
  /\ j.length \in Nat
  /\ j.parts \in Seq([num : Nat, start : Nat, len : Nat])
  /\ DOMAIN j.shadow \subseteq Nat
  /\ \A off \in DOMAIN j.shadow :
       j.shadow[off].copy \notin NotACopy /\ j.shadow[off].len \in Nat
  /\ j.excluded \subseteq Nat

ASSUME GeometryAssumption ==
  /\ GptSectors \in Nat \ {0}
  /\ \A j \in Jobs : IsJob(j)

VARIABLE job   \* self.layout, self.shadow_map, excluded_partitions, ...; never changes

-----------------------------------------------------------------------------
(* Contents of a sector. *)
Raw(i)       == [src |-> "raw", at |-> i]
Shadow(c, i) == [src |-> c, at |-> i]
Zero         == [src |-> "zero", at |-> 0]
Unwritten    == [src |-> "unwritten", at |-> 0]

ShadowCopies == {job.shadow[off].copy : off \in DOMAIN job.shadow}

Written == [src : {"raw", "zero"} \cup ShadowCopies, at : Nat]

(* Geometry of the disk. *)
DiskLength    == job.length
BackupStart   == IF DiskLength < GptSectors THEN 0 ELSE DiskLength - GptSectors
Parts         == job.parts
PartEnd(k)    == Parts[k].start + Parts[k].len
Used          == {k \in DOMAIN Parts : Parts[k].len > 0}

Owners(i)        == {k \in Used : Parts[k].start <= i /\ i < PartEnd(k)}
FirstOwner(k, i) == k \in Owners(i) /\ \A l \in Owners(i) : k <= l
Excluded(k)      == Parts[k].num \in job.excluded
HasShadow(k)     == Parts[k].start \in DOMAIN job.shadow
CopyOf(k)        == job.shadow[Parts[k].start].copy

InPrimary(i) == i < GptSectors
InBackup(i)  == i >= GptSectors /\ i >= BackupStart
InMiddle(i)  == i >= GptSectors /\ i < BackupStart

(***************************************************************************)
(* What each sector of the image may hold, from the job alone: the GPT     *)
(* areas come from the raw disk; a sector of no partition or of an         *)
(* excluded one is zero; a sector of a partition with a shadow copy comes  *)
(* from its place there, or from the raw disk when the shadow copy gave    *)
(* nothing; any other comes from the same address of the raw disk.         *)
(***************************************************************************)
PartitionPlan(k, i) ==
  IF Excluded(k) THEN {Zero}
  ELSE IF HasShadow(k) THEN {Shadow(CopyOf(k), i - Parts[k].start), Raw(i)} ELSE {Raw(i)}

PlanOf(i) ==
  IF ~InMiddle(i) THEN {Raw(i)}
  ELSE IF Owners(i) = {} THEN {Zero}
  ELSE UNION {PartitionPlan(k, i) : k \in {l \in Owners(i) : FirstOwner(l, i)}}

=============================================================================
