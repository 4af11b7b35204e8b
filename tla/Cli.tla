-------------------------------- MODULE Cli --------------------------------
(***************************************************************************)
(* The command line (src/main.rs), from its arguments to the end of the    *)
(* process, with the VssSnapshot it holds: the clone and the two options   *)
(* that only print.  What stream_to does in between is ImageBuilder's.     *)
(***************************************************************************)
EXTENDS Vss

Step(from, to) ==
  /\ pc = from
  /\ Goto(to)
  /\ UNCHANGED <<extents, supported, creating, shadows, guard, mapping, history>>

(* Options that do not fit together end the process; --debug-vss makes no snapshot. *)
CheckArgs == Step("start", "exited")

DebugVss == Step("start", "done") \/ Step("start", "failed")

(* get_disk_layout_from_disk; there is no snapshot yet. *)
GetLayout == Step("start", "create") \/ Step("start", "failed")

(* ImageBuilder::new: the disk is opened and its layout read again, then comes the map. *)
NewBuilder ==
  \/ Step("created", "unwind")
  \/ /\ pc = "created"
     /\ Goto("map")
     /\ to_map' = snapshot_ids
     /\ UNCHANGED <<extents, supported, creating, shadows, guard, shadow_map, history>>

(* --debug-image: debug_image_diag in the place of the clone. *)
DebugImage == to_map = {} /\ (Step("map", "finish") \/ Step("map", "unwind"))

(* Mutant: ImageBuilder::new takes the snapshot by value and drops it with its map. *)
ConfirmDropped ==
  /\ to_map = {}
  /\ pc = "map"
  /\ Goto("sink")
  /\ DropGuard
  /\ UNCHANGED <<extents, supported, creating, shadows, made, mapping, history>>

(* The layout is printed, and Enter starts the clone. *)
Confirm == to_map = {} /\ Step("map", "sink")

(* A target that is not user@host: process::exit(1), which runs no Drop. *)
BadTarget == Step("sink", "exited")

(***************************************************************************)
(* The destination is looked at here for the first time; to open it may    *)
(* fail.  A panic ends the process where it is, as the release profile     *)
(* says panic = "abort": here for a path that is not Unicode, in stream_to *)
(* for a buffer shorter than the GPT area.                                 *)
(***************************************************************************)
NoSink == Step("sink", "unwind") \/ Step("sink", "aborted")

OpenSink == BadTarget \/ NoSink \/ Step("sink", "stream")

Stream == Step("stream", "finish") \/ Step("stream", "unwind") \/ Step("stream", "aborted")

Ended == pc \in {"done", "failed", "exited", "aborted", "killed"}

(* Ctrl+C, or the end of the session. *)
Kill ==
  /\ ~Ended
  /\ Goto("killed")
  /\ UNCHANGED <<extents, supported, creating, shadows, guard, mapping, history>>

CloneStep ==
  \/ CheckArgs \/ DebugVss \/ GetLayout \/ CreateForDisk \/ NewBuilder
  \/ \E v \in Volumes : MapSnapshot(v)
  \/ DebugImage \/ Confirm \/ OpenSink \/ Stream \/ Finish \/ Drop

Over == Ended /\ UNCHANGED vars

CliNext == CloneStep \/ MoveVolume \/ Kill \/ Over

CliSpec == Init /\ [][CliNext]_vars

-----------------------------------------------------------------------------
Pcs == {"start", "create", "scan", "add", "created", "map", "sink", "stream", "finish",
        "return", "unwind", "done", "failed", "exited", "aborted", "killed"}

(* The range of every variable. *)
TypeOK ==
  /\ extents \in [Volumes -> ExtentLists]
  /\ supported \subseteq Volumes
  /\ pc \in Pcs
  /\ to_scan \subseteq Volumes
  /\ volumes_on_disk \subseteq Volumes
  /\ to_add \subseteq volumes_on_disk
  /\ snapshot_ids \subseteq volumes_on_disk
  /\ shadows \subseteq snapshot_ids
  /\ held \in BOOLEAN
  /\ made \in BOOLEAN
  /\ completes \in 0..1
  /\ to_map \subseteq snapshot_ids
  /\ DOMAIN shadow_map \subseteq Nat
  /\ \A off \in DOMAIN shadow_map : shadow_map[off] \in shadows
  /\ moved \subseteq Volumes
  /\ missed \subseteq Volumes

(***************************************************************************)
(* "VSS snapshot guard - ensures proper cleanup when dropped"              *)
(* (src/vss.rs:257): a snapshot that was made is completed exactly once,   *)
(* whichever call fails and wherever, finish included; one whose making    *)
(* failed is not.  Being killed is no way of dropping it.                  *)
(***************************************************************************)
CompletedExactlyOnce ==
  /\ pc \in {"done", "failed"} => completes = IF made THEN 1 ELSE 0
  /\ held => made /\ completes = 0

(***************************************************************************)
(* "The VSS snapshot must be kept alive during the build"                  *)
(* (src/image_builder.rs:100): while the map is built and the image is     *)
(* streamed nothing has completed it.                                      *)
(***************************************************************************)
AliveDuringBuild == pc \in {"map", "sink", "stream", "finish"} => held

(***************************************************************************)
(* What the stream finds in the map of a volume that has not moved and for *)
(* which no call has failed without an error, whatever has become of the   *)
(* others: its shadow copy, under the place where it lies on the disk and  *)
(* under no other, if it is supported and its extents fit the buffer they  *)
(* are asked for with; and nothing otherwise.                              *)
(***************************************************************************)
KeysOf(v) == {off \in DOMAIN shadow_map : shadow_map[off] = v}

Mappable(v) == v \in supported /\ LiesOnDisk(v) /\ ~TooManyExtents(v)

MapComplete ==
  pc = "sink" => \A v \in Volumes \ (moved \cup missed) :
    KeysOf(v) = IF Mappable(v) THEN {FirstExtent(v).off} ELSE {}
=============================================================================
