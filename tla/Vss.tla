-------------------------------- MODULE Vss --------------------------------
(***************************************************************************)
(* VssSnapshot (src/vss.rs): how the snapshot of a disk is made, how its   *)
(* shadow map is built, and how it is given back.  The operations are      *)
(* actions that move pc along; the caller (Cli) owns the states between.   *)
(*                                                                         *)
(* Windows is the environment: where volumes lie may change at any time,   *)
(* every call may fail, and an asynchronous operation may have failed, or  *)
(* not have ended, although the wait for it answers Ok: wait_vss_async     *)
(* never asks for its status.  A shadow copy is named by the volume it was *)
(* made of.                                                                *)
(***************************************************************************)
EXTENDS Integers, Sequences

CONSTANTS
  Disk,         \* the source disk
  Volumes,      \* the volumes of the machine
  ExtentLists,  \* the lists of extents [disk, off] a volume may have
  MaxExtents    \* how many of them the buffer of get_volume_disk_extents holds

ASSUME VssAssumption ==
  /\ MaxExtents \in Nat \ {0}
  /\ \A e \in ExtentLists : e \in Seq([disk : {e[i].disk : i \in DOMAIN e}, off : Nat])

VARIABLES
  extents,          \* where each volume lies now; <<>> when it is offline
  supported,        \* the volumes VSS can make a shadow copy of
  pc,               \* where the program is
  to_scan,          \* the volumes enumerated and not yet looked at
  volumes_on_disk,
  to_add,           \* the volumes not yet offered to the snapshot set
  snapshot_ids,     \* the volumes added to the snapshot set
  shadows,          \* the volumes that do have a shadow copy
  held,             \* a VssSnapshot is alive and its backup_components is Some
  made,             \* create_for_disk has returned Ok
  completes,        \* how often backup_complete was called
  to_map,           \* the snapshots build_partition_shadow_map has not come to
  shadow_map,       \* from disk offsets to volumes
  moved,            \* history: the volumes that have moved
  missed            \* history: the volumes a call has failed for without an error

creating == <<to_scan, volumes_on_disk, to_add, snapshot_ids>>
mapping  == <<to_map, shadow_map>>
guard    == <<held, made, completes>>
history  == <<moved, missed>>
vars     == <<extents, supported, pc, creating, shadows, guard, mapping, history>>

-----------------------------------------------------------------------------
(* No two volumes share a place on a disk. *)
Apart(x) ==
  \A v, w \in Volumes : v # w =>
    \A i \in DOMAIN x[v], k \in DOMAIN x[w] : x[v][i] # x[w][k]

FirstExtent(v) == extents[v][1]

(* Where volume v begins: the disk is this one, whatever the program finds out about it. *)
LiesOnDisk(v) == extents[v] # <<>> /\ FirstExtent(v).disk = Disk

TooManyExtents(v) == Len(extents[v]) > MaxExtents

(* get_volume_disk_extents answers None for a volume that is offline or does not fit its buffer. *)
HasExtents(v) == extents[v] # <<>> /\ ~TooManyExtents(v)

(* What the program takes for a volume on the disk. *)
StartsOnDisk(v) == HasExtents(v) /\ FirstExtent(v).disk = Disk

Init ==
  /\ extents \in [Volumes -> ExtentLists]
  /\ Apart(extents)
  /\ supported \in SUBSET Volumes
  /\ pc = "start"
  /\ to_scan = {}
  /\ volumes_on_disk = {}
  /\ to_add = {}
  /\ snapshot_ids = {}
  /\ shadows = {}
  /\ held = FALSE
  /\ made = FALSE
  /\ completes = 0
  /\ to_map = {}
  /\ shadow_map = [off \in {} |-> 0]
  /\ moved = {}
  /\ missed = {}

(* The user or Windows takes a volume offline, brings it back or extends it. *)
MoveVolume ==
  /\ \E v \in Volumes, e \in ExtentLists :
       /\ extents' = [extents EXCEPT ![v] = e]
       /\ moved' = moved \cup {v}
  /\ Apart(extents')
  /\ UNCHANGED <<supported, pc, creating, shadows, guard, mapping, missed>>

Goto(l) == pc' = l

(* An error before the VssSnapshot exists: the components are released, nothing is completed. *)
CreateFails ==
  /\ Goto("failed")
  /\ UNCHANGED <<extents, supported, creating, shadows, guard, mapping, history>>

(***************************************************************************)
(* enumerate_all_volumes takes any failure of FindNextVolumeW for the end  *)
(* of the list.                                                            *)
(***************************************************************************)
Enumerate ==
  /\ pc = "create"
  /\ \/ /\ to_scan' \in SUBSET Volumes \ {{}}
        /\ missed' = missed \cup (Volumes \ to_scan')
        /\ Goto("scan")
        /\ UNCHANGED <<extents, supported, volumes_on_disk, to_add, snapshot_ids, shadows,
                       guard, mapping, moved>>
     \/ CreateFails

(***************************************************************************)
(* get_volumes_on_disk, one volume after the other.  One that cannot be    *)
(* opened or queried is taken for one that is not on the disk.             *)
(***************************************************************************)
ScanVolume(v) ==
  /\ pc = "scan"
  /\ v \in to_scan
  /\ to_scan' = to_scan \ {v}
  /\ \/ /\ volumes_on_disk' = volumes_on_disk \cup (IF StartsOnDisk(v) THEN {v} ELSE {})
        /\ UNCHANGED missed
     \/ /\ missed' = missed \cup {v}
        /\ UNCHANGED volumes_on_disk
  /\ UNCHANGED <<extents, supported, pc, to_add, snapshot_ids, shadows, guard, mapping, moved>>

(* The components are made ready and the snapshot set is started; any call may fail. *)
StartSnapshotSet ==
  /\ pc = "scan"
  /\ to_scan = {}
  /\ \/ /\ volumes_on_disk # {}
        /\ to_add' = volumes_on_disk
        /\ Goto("add")
        /\ UNCHANGED <<extents, supported, to_scan, volumes_on_disk, snapshot_ids, shadows,
                       guard, mapping, history>>
     \/ CreateFails

(* Mutant: the snapshot set holds one volume, the last one added. *)
AddedAlone(v) == {v}

Added(v) == snapshot_ids \cup {v}

AddVolume(v) ==
  /\ pc = "add"
  /\ v \in to_add
  /\ \/ /\ to_add' = to_add \ {v}
        /\ snapshot_ids' = IF v \in supported THEN Added(v) ELSE snapshot_ids
        /\ UNCHANGED <<extents, supported, pc, to_scan, volumes_on_disk, shadows, guard,
                       mapping, history>>
     \/ CreateFails

(***************************************************************************)
(* prepare_for_backup and do_snapshot_set, each with its wait.  The wait   *)
(* for the second may answer Ok although some of the shadow copies, or     *)
(* all, never come to be; a copy that comes only later is one whose        *)
(* properties cannot be had yet in MapSnapshot.  It may also be the wait   *)
(* that fails: then there may be shadow copies and there is no VssSnapshot *)
(* to complete them.                                                       *)
(***************************************************************************)
DoSnapshotSet ==
  /\ pc = "add"
  /\ to_add = {}
  /\ \/ /\ snapshot_ids # {}
        /\ shadows' \in SUBSET snapshot_ids
        /\ missed' = missed \cup (snapshot_ids \ shadows')
        /\ held' = TRUE
        /\ made' = TRUE
        /\ Goto("created")
        /\ UNCHANGED <<extents, supported, creating, completes, mapping, moved>>
     \/ /\ snapshot_ids # {}
        /\ shadows' \in SUBSET snapshot_ids
        /\ Goto("failed")
        /\ UNCHANGED <<extents, supported, creating, guard, mapping, history>>
     \/ CreateFails

CreateForDisk ==
  \/ Enumerate \/ StartSnapshotSet \/ DoSnapshotSet
  \/ \E v \in Volumes : ScanVolume(v) \/ AddVolume(v)

-----------------------------------------------------------------------------
(* Mutant: every offset gets the path of one and the same snapshot. *)
InsertOfOne(off, v) ==
  [o \in DOMAIN shadow_map \cup {off} |-> IF o = off THEN CHOOSE w \in snapshot_ids : TRUE
                                                    ELSE shadow_map[o]]

(* offset_to_path.insert *)
Insert(off, v) == [o \in DOMAIN shadow_map \cup {off} |-> IF o = off THEN v ELSE shadow_map[o]]

(***************************************************************************)
(* build_partition_shadow_map, one snapshot after the other.  Its          *)
(* properties may not be had, certainly not those of a shadow copy that    *)
(* does not exist; then, and when the volume is no longer found on the     *)
(* disk, it is skipped.                                                    *)
(***************************************************************************)
MapSnapshot(v) ==
  /\ pc = "map"
  /\ v \in to_map
  /\ to_map' = to_map \ {v}
  /\ \/ /\ v \in shadows
        /\ shadow_map' = IF StartsOnDisk(v) THEN Insert(FirstExtent(v).off, v) ELSE shadow_map
        /\ UNCHANGED missed
     \/ /\ missed' = missed \cup {v}
        /\ UNCHANGED shadow_map
  /\ UNCHANGED <<extents, supported, pc, creating, shadows, guard, moved>>

(* backup_components.take(), and backup_complete on what was taken. *)
Complete ==
  /\ held' = FALSE
  /\ completes' = IF held THEN completes + 1 ELSE completes

(***************************************************************************)
(* finish: the error of backup_complete is returned, that of the wait for  *)
(* it is ignored.  Either way the VssSnapshot is dropped next.             *)
(***************************************************************************)
Finish ==
  /\ pc = "finish"
  /\ Complete
  /\ Goto("return") \/ Goto("unwind")
  /\ UNCHANGED <<extents, supported, creating, shadows, made, mapping, history>>

(* Mutant: no Drop, the components go as they are. *)
DropNothing == held' = FALSE /\ UNCHANGED completes

(* Drop for VssSnapshot: backup_complete for what finish has not taken. *)
DropGuard ==
  /\ held' = FALSE
  /\ completes' = IF held THEN completes + 1 ELSE completes

Drop ==
  /\ \/ pc = "return" /\ Goto("done")
     \/ pc = "unwind" /\ Goto("failed")
  /\ DropGuard
  /\ UNCHANGED <<extents, supported, creating, shadows, made, mapping, history>>

=============================================================================
