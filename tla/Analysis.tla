------------------------------ MODULE Analysis ------------------------------
(***************************************************************************)
(* analyze_snapshot_support (src/vss.rs): what the user is told, when a    *)
(* disk is selected, about the shadow copies of its partitions; and the    *)
(* clone of Cli that comes after it and shows whether it was true.         *)
(*                                                                         *)
(* The analysis and the clone share nothing but the volumes of Windows, so *)
(* the clone starts when the analysis has ended.                           *)
(***************************************************************************)
EXTENDS Cli

CONSTANT Layouts   \* the partition tables to consider: sequences of [start, len]

ASSUME AnalysisAssumption ==
  \A t \in Layouts : \A k \in DOMAIN t : t[k].start \in Nat /\ t[k].len \in Nat

VARIABLES
  parts,        \* the partition table of the disk; never changes
  step,         \* where the analysis is
  to_look_at,   \* the volumes its current loop has still to come to
  found,        \* its volumes_on_disk
  volume_info,  \* from offsets to volumes
  vss_supported,  \* from offsets to what VSS said of the volume there
  answers       \* from partition entries to what the user is told

(* Nothing has moved, and no call has failed without an error. *)
Undisturbed == moved = {} /\ missed = {}

analysing == <<step, to_look_at, found, volume_info, vss_supported, answers>>
allvars   == <<vars, parts, analysing>>

AnalysisInit ==
  /\ Init
  /\ parts \in Layouts
  /\ step = "enumerate"
  /\ to_look_at = {}
  /\ found = {}
  /\ volume_info = <<>>
  /\ vss_supported = <<>>
  /\ answers = <<>>

With(f, off, x) == [o \in DOMAIN f \cup {off} |-> IF o = off THEN x ELSE f[o]]

Untouched == UNCHANGED <<extents, supported, pc, creating, shadows, guard, mapping, parts>>

Looked(v) == v \in to_look_at /\ to_look_at' = to_look_at \ {v}

(* The end of a loop over all volumes, and the start of the next one. *)
NextLoop(from, to) ==
  /\ step = from
  /\ to_look_at = {}
  /\ step' = to
  /\ to_look_at' = found
  /\ UNCHANGED <<history, found, volume_info, vss_supported, answers>>

LookAtVolumes ==
  /\ step = "enumerate"
  /\ to_look_at' \in SUBSET Volumes \ {{}}
  /\ missed' = missed \cup (Volumes \ to_look_at')
  /\ step' = "scan"
  /\ UNCHANGED <<moved, found, volume_info, vss_supported, answers>>

(* In each of the loops a volume whose extents cannot be had is passed over. *)
NotQueried(v) ==
  /\ missed' = missed \cup {v}
  /\ UNCHANGED <<found, volume_info, vss_supported>>

Find(v) ==
  /\ step = "scan"
  /\ Looked(v)
  /\ \/ /\ found' = found \cup (IF StartsOnDisk(v) THEN {v} ELSE {})
        /\ UNCHANGED <<missed, volume_info, vss_supported>>
     \/ NotQueried(v)
  /\ UNCHANGED <<moved, step, answers>>

(* The extents are asked for again, and the disk they are on is not looked at. *)
Inform(v) ==
  /\ step = "info"
  /\ Looked(v)
  /\ \/ /\ volume_info' = IF HasExtents(v) THEN With(volume_info, FirstExtent(v).off, v)
                                           ELSE volume_info
        /\ UNCHANGED <<missed, found, vss_supported>>
     \/ NotQueried(v)
  /\ UNCHANGED <<moved, step, answers>>

(* And again, with the question to VSS; an error of it is taken for a no. *)
AskVss(v) ==
  /\ step = "support"
  /\ Looked(v)
  /\ \/ \E yes \in BOOLEAN :
          /\ yes => v \in supported
          /\ vss_supported' = IF HasExtents(v) THEN With(vss_supported, FirstExtent(v).off, yes)
                                               ELSE vss_supported
          /\ missed' = IF yes = (v \in supported) THEN missed ELSE missed \cup {v}
          /\ UNCHANGED <<found, volume_info>>
     \/ NotQueried(v)
  /\ UNCHANGED <<moved, step, answers>>

Inside(off, k) == parts[k].start <= off /\ off < parts[k].start + parts[k].len

(* Mutant: any key inside the partition will do. *)
KeysInside(f, k) == {off \in DOMAIN f : Inside(off, k)}

(***************************************************************************)
(* The key a partition is looked up with: its start, or else any key       *)
(* inside it, whichever the HashMap comes to first.                        *)
(***************************************************************************)
Keys(f, k) ==
  IF parts[k].start \in DOMAIN f THEN {parts[k].start} ELSE {off \in DOMAIN f : Inside(off, k)}

Verdicts(k) ==
  IF Keys(vss_supported, k) = {} THEN {FALSE}
  ELSE {vss_supported[off] : off \in Keys(vss_supported, k)}

(* Mutant: a volume VSS was not asked about counts as supported. *)
AnswersUnasked(k) ==
  IF Keys(volume_info, k) = {} THEN {[volumes |-> {}, vss_supported |-> FALSE]}
  ELSE {[volumes |-> {volume_info[off]}, vss_supported |-> TRUE] : off \in Keys(volume_info, k)}

Answers(k) ==
  IF Keys(volume_info, k) = {} THEN {[volumes |-> {}, vss_supported |-> FALSE]}
  ELSE {[volumes |-> {volume_info[off]}, vss_supported |-> yes] :
           off \in Keys(volume_info, k), yes \in Verdicts(k)}

Analysed == {k \in DOMAIN parts : parts[k].len > 0}

Answer ==
  /\ step = "answer"
  /\ \E f \in [Analysed -> UNION {Answers(k) : k \in Analysed}] :
        (\A k \in Analysed : f[k] \in Answers(k)) /\ answers' = f
  /\ step' = "done"
  /\ UNCHANGED <<history, to_look_at, found, volume_info, vss_supported>>

(* Any call may fail; then the user is told nothing. *)
AnalysisFails ==
  /\ step # "done"
  /\ step' = "done"
  /\ answers' = <<>>
  /\ UNCHANGED <<history, to_look_at, found, volume_info, vss_supported>>

AnalysisStep ==
  /\ \/ LookAtVolumes
     \/ \E v \in Volumes : Find(v) \/ Inform(v) \/ AskVss(v)
     \/ NextLoop("scan", "info") \/ NextLoop("info", "support") \/ NextLoop("support", "answer")
     \/ Answer \/ AnalysisFails
  /\ Untouched

(* What becomes of the clone once something has moved or failed unnoticed is Cli's. *)
Clone == step = "done" /\ Undisturbed /\ CloneStep /\ UNCHANGED <<parts, analysing>>

Settled == step = "done" /\ (~Undisturbed \/ Ended) /\ UNCHANGED allvars

AnalysisNext ==
  \/ AnalysisStep
  \/ step # "done" /\ MoveVolume /\ UNCHANGED <<parts, analysing>>
  \/ Clone \/ Settled

AnalysisSpec == AnalysisInit /\ [][AnalysisNext]_allvars

-----------------------------------------------------------------------------
(***************************************************************************)
(* The range of the analysis' own variables; only partitions in use get an *)
(* answer.                                                                 *)
(***************************************************************************)
AnalysisTypeOK ==
  /\ parts \in Layouts
  /\ to_look_at \subseteq Volumes
  /\ found \subseteq Volumes
  /\ \A off \in DOMAIN volume_info : volume_info[off] \in found
  /\ \A off \in DOMAIN vss_supported : vss_supported[off] \in BOOLEAN
  /\ DOMAIN answers \subseteq {k \in DOMAIN parts : parts[k].len > 0}

(* The clone is about to stream, and nothing has moved or failed unnoticed since the analysis. *)
Comparable == pc = "sink" /\ Undisturbed

HasShadowCopy(k) == parts[k].start \in DOMAIN shadow_map

(* Each volume that starts on the disk starts where exactly one partition does, and alone. *)
Regular ==
  \A v \in Volumes : StartsOnDisk(v) =>
    \E k \in Analysed : /\ parts[k].start = FirstExtent(v).off
                        /\ \A l \in Analysed : Inside(FirstExtent(v).off, l) => l = k

(***************************************************************************)
(* Where volumes and partitions correspond, what the user was told of a    *)
(* partition is what the clone does: it says supported of those partitions *)
(* the stream will read from a shadow copy, and names that copy's volume.  *)
(***************************************************************************)
PredictionHolds ==
  Comparable /\ Regular =>
    \A k \in DOMAIN answers :
      /\ answers[k].vss_supported <=> HasShadowCopy(k)
      /\ HasShadowCopy(k) => answers[k].volumes = {shadow_map[parts[k].start]}

(***************************************************************************)
(* On any partition table, with nested entries or volumes that start       *)
(* inside a partition, the analysis errs to one side only: a partition the *)
(* stream reads from a shadow copy was announced, with the right volume.   *)
(***************************************************************************)
NeverUnderstated ==
  Comparable =>
    \A k \in DOMAIN answers : HasShadowCopy(k) =>
      answers[k].vss_supported /\ answers[k].volumes = {shadow_map[parts[k].start]}
=============================================================================
