-------------------------- MODULE MCGuiExclusions --------------------------
(* Gui with a history of the disk whose partitions were last ticked. *)
EXTENDS MCGui

VARIABLE ticked   \* the disk on display when the exclusions were made

TicksInit == Init /\ ticked = None

TicksNext ==
  /\ Next
  /\ ticked' = IF excluded_partitions' = {} THEN None
               ELSE IF excluded_partitions' = excluded_partitions THEN ticked ELSE diagram_regions

TicksSpec == TicksInit /\ [][TicksNext]_<<vars, ticked>>

(***************************************************************************)
(* "Partition numbers to exclude from clone (write zeros instead)"         *)
(* (diskclone-visual/src/main.rs:92): the partitions a preview shows, and  *)
(* the clone takes, as excluded were ticked in a preview of that disk, and *)
(* are not numbers left from the clone of another.                         *)
(***************************************************************************)
ExclusionsOfPreview ==
  phase = "Confirm" /\ excluded_partitions # {} => ticked = diagram_regions
=============================================================================
