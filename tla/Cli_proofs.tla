----------------------------- MODULE Cli_proofs -----------------------------
(***************************************************************************)
(* Proofs about the snapshot guard for any number of volumes, wherever     *)
(* they lie and move: a snapshot lives as long as the build needs it and   *)
(* is completed exactly once, and the shadow map names only shadow copies  *)
(* that exist, all of them when nothing has moved or failed unnoticed.     *)
(* Then about the analysis before the clone, on any partition table: what  *)
(* the user is told of a partition is what the clone will do with it.      *)
(***************************************************************************)
EXTENDS Analysis, SequenceTheorems, TLAPS

(***************************************************************************)
(* The two invariants speak of the places where they matter; between them  *)
(* what counts is whether the guard still holds the components: while it   *)
(* does nothing has been completed, and once it does not all has.          *)
(***************************************************************************)
Counted ==
  /\ held \in BOOLEAN
  /\ made \in BOOLEAN
  /\ held => made
  /\ completes = IF made /\ ~held THEN 1 ELSE 0

Held ==
  /\ pc \in {"created", "map", "sink", "stream", "finish"} => held
  /\ pc \in {"done", "failed"} => ~held
  /\ pc \in {"start", "create", "scan", "add"} => ~made

IInv == Counted /\ Held

LEMMA InitIInv == Init => IInv
BY DEF Init, IInv, Counted, Held

(* A step that leaves the guard alone and ends where it has to be in the state it is in. *)
LEMMA GuardKept ==
  ASSUME IInv, UNCHANGED guard,
         pc' \in {"created", "map", "sink", "stream", "finish"} => held,
         pc' \in {"done", "failed"} => ~held,
         pc' \in {"start", "create", "scan", "add"} => ~made
  PROVE  IInv'
BY DEF IInv, Counted, Held, guard

LEMMA CreateIInv == IInv /\ CreateForDisk => IInv'
<1> SUFFICES ASSUME IInv, CreateForDisk PROVE IInv'
  OBVIOUS
<1>1. ASSUME pc \in {"create", "scan", "add"}, CreateFails PROVE IInv'
  BY <1>1, GuardKept DEF CreateFails, Goto, IInv, Counted, Held
<1>2. CASE Enumerate
  BY <1>1, <1>2, GuardKept DEF Enumerate, Goto, IInv, Held
<1>3. CASE StartSnapshotSet
  BY <1>1, <1>3, GuardKept DEF StartSnapshotSet, Goto, IInv, Held
<1>4. CASE DoSnapshotSet
  <2>1. CASE CreateFails
    BY <1>1, <1>4, <2>1 DEF DoSnapshotSet
  <2>2. CASE pc = "add" /\ pc' = "failed" /\ UNCHANGED guard
    BY <2>2, GuardKept DEF IInv, Counted, Held
  <2>3. CASE pc = "add" /\ pc' = "created" /\ held' = TRUE /\ made' = TRUE /\ completes' = completes
    BY <2>3 DEF IInv, Counted, Held
  <2> QED
    BY <1>4, <2>1, <2>2, <2>3 DEF DoSnapshotSet, Goto
<1>5. ASSUME NEW v \in Volumes, ScanVolume(v) PROVE IInv'
  BY <1>5, GuardKept DEF ScanVolume, IInv, Held
<1>6. ASSUME NEW v \in Volumes, AddVolume(v) PROVE IInv'
  <2>1. CASE CreateFails
    BY <1>1, <1>6, <2>1 DEF AddVolume
  <2>2. CASE ~CreateFails
    BY <1>6, <2>2, GuardKept DEF AddVolume, IInv, Held
  <2> QED
    BY <2>1, <2>2
<1> QED
  BY <1>2, <1>3, <1>4, <1>5, <1>6 DEF CreateForDisk

LEMMA BuildIInv ==
  IInv /\ (CheckArgs \/ DebugVss \/ GetLayout \/ NewBuilder \/ DebugImage \/ Confirm \/ OpenSink
           \/ Stream) => IInv'
<1> SUFFICES ASSUME IInv,
                    CheckArgs \/ DebugVss \/ GetLayout \/ NewBuilder \/ DebugImage \/ Confirm
                      \/ OpenSink \/ Stream
             PROVE  IInv'
  OBVIOUS
<1> USE DEF Step, Goto, IInv, Held
<1>1. CASE CheckArgs \/ DebugVss \/ GetLayout
  BY <1>1, GuardKept DEF CheckArgs, DebugVss, GetLayout, Counted
<1>2. CASE NewBuilder
  BY <1>2, GuardKept DEF NewBuilder
<1>3. CASE DebugImage \/ Confirm
  BY <1>3, GuardKept DEF DebugImage, Confirm
<1>4. CASE OpenSink
  BY <1>4, GuardKept DEF OpenSink, BadTarget, NoSink
<1>5. CASE Stream
  BY <1>5, GuardKept DEF Stream
<1> QED
  BY <1>1, <1>2, <1>3, <1>4, <1>5

LEMMA MapIInv == ASSUME NEW v PROVE IInv /\ MapSnapshot(v) => IInv'
BY GuardKept DEF MapSnapshot, IInv, Held

(* Both ways of giving the components back count once, and only if they were held. *)
LEMMA GuardGone ==
  ASSUME IInv, held' = FALSE, made' = made,
         completes' = IF held THEN completes + 1 ELSE completes,
         pc' \notin {"start", "create", "scan", "add", "created", "map", "sink", "stream", "finish"}
  PROVE  IInv'
<1>1. Held'
  BY DEF Held
<1>2. CASE held
  <2>1. made = TRUE /\ completes = 0
    BY <1>2 DEF IInv, Counted
  <2>2. completes' = 1 /\ made' = TRUE
    BY <1>2, <2>1
  <2> QED
    BY <1>1, <2>2 DEF IInv, Counted
<1>3. CASE ~held
  <2>1. held = FALSE /\ completes' = completes
    BY <1>3 DEF IInv, Counted
  <2> QED
    BY <1>1, <2>1 DEF IInv, Counted
<1> QED
  BY <1>2, <1>3

LEMMA FinishIInv == IInv /\ Finish => IInv'
BY GuardGone DEF Finish, Complete, Goto

LEMMA DropIInv == IInv /\ Drop => IInv'
BY GuardGone DEF Drop, DropGuard, Goto

LEMMA OtherIInv == IInv /\ (MoveVolume \/ Kill \/ Over \/ UNCHANGED vars) => IInv'
<1> SUFFICES ASSUME IInv, MoveVolume \/ Kill \/ Over \/ UNCHANGED vars PROVE IInv'
  OBVIOUS
<1>1. CASE Kill
  BY <1>1, GuardKept DEF Kill, Goto, IInv, Held
<1>2. CASE MoveVolume \/ Over \/ UNCHANGED vars
  BY <1>2, GuardKept DEF MoveVolume, Over, vars, vars, IInv, Held
<1> QED
  BY <1>1, <1>2

LEMMA StepIInv == IInv /\ [CliNext]_vars => IInv'
BY CreateIInv, BuildIInv, MapIInv, FinishIInv, DropIInv, OtherIInv DEF CliNext, CloneStep

(* IInv holds initially and every step keeps it. *)
THEOREM Inductive == CliSpec => []IInv
BY InitIInv, StepIInv, PTL DEF CliSpec

(* A snapshot that was made is completed exactly once on every return, one that was not never. *)
THEOREM CompletedOnceCorrect == CliSpec => []CompletedExactlyOnce
<1>1. IInv => CompletedExactlyOnce
  BY DEF IInv, Counted, Held, CompletedExactlyOnce
<1> QED
  BY <1>1, Inductive, PTL

(* The snapshot is alive while the map is built and the image is streamed. *)
THEOREM AliveCorrect == CliSpec => []AliveDuringBuild
<1>1. IInv => AliveDuringBuild
  BY DEF IInv, Held, AliveDuringBuild
<1> QED
  BY <1>1, Inductive, PTL
-----------------------------------------------------------------------------
(* Extents are records. *)
LEMMA ExtentFacts ==
  ASSUME NEW e \in ExtentLists
  PROVE  /\ Len(e) \in Nat
         /\ DOMAIN e = 1..Len(e)
         /\ \A i \in DOMAIN e : e[i].off \in Nat /\ e[i] = [disk |-> e[i].disk, off |-> e[i].off]
<1> DEFINE D == {e[i].disk : i \in DOMAIN e}
<1>1. e \in Seq([disk : D, off : Nat])
  BY VssAssumption
<1> HIDE DEF D
<1>2. \A i \in 1..Len(e) : e[i] \in [disk : D, off : Nat]
  BY <1>1, ElementOfSeq
<1>3. Len(e) \in Nat /\ DOMAIN e = 1..Len(e)
  BY <1>1, LenProperties
<1> QED
  BY <1>2, <1>3

(* A volume that lies on the disk has a first extent there. *)
LEMMA LiesFacts ==
  ASSUME extents \in [Volumes -> ExtentLists], NEW v \in Volumes, LiesOnDisk(v)
  PROVE  /\ 1 \in DOMAIN extents[v]
         /\ FirstExtent(v).off \in Nat
         /\ FirstExtent(v) = [disk |-> Disk, off |-> FirstExtent(v).off]
<1>1. extents[v] \in ExtentLists /\ extents[v] # <<>>
  BY DEF LiesOnDisk
<1>2. DOMAIN extents[v] = 1..Len(extents[v]) /\ Len(extents[v]) \in Nat
  BY <1>1, ExtentFacts
<1>3. Len(extents[v]) # 0
  <2> DEFINE D == {extents[v][i].disk : i \in DOMAIN extents[v]}
  <2>1. extents[v] \in Seq([disk : D, off : Nat])
    BY <1>1, VssAssumption
  <2> HIDE DEF D
  <2> QED
    BY <1>1, <2>1, EmptySeq
<1>4. 1 \in DOMAIN extents[v]
  BY <1>2, <1>3
<1> QED
  BY <1>1, <1>4, ExtentFacts DEF LiesOnDisk, FirstExtent

(* Two volumes that lie on the disk begin at different places. *)
LEMMA LieApart ==
  ASSUME extents \in [Volumes -> ExtentLists], Apart(extents),
         NEW v \in Volumes, NEW w \in Volumes, v # w, LiesOnDisk(v), LiesOnDisk(w)
  PROVE  FirstExtent(v).off # FirstExtent(w).off
<1>1. FirstExtent(v) # FirstExtent(w)
  BY LiesFacts DEF Apart, FirstExtent
<1> QED
  BY <1>1, LiesFacts

LEMMA StartsIffLies ==
  ASSUME NEW v
  PROVE  StartsOnDisk(v) <=> (LiesOnDisk(v) /\ ~TooManyExtents(v))
BY DEF StartsOnDisk, LiesOnDisk, HasExtents

(***************************************************************************)
(* The sets the program works through, in the order it comes to them: no   *)
(* shadow copies before they are made, nothing in the map before it is.    *)
(***************************************************************************)
Steps ==
  /\ pc \in {"start", "create", "scan", "add"} => shadows = {}
  /\ pc \in {"start", "create", "scan", "add", "created"} => DOMAIN shadow_map = {} /\ to_map = {}
  /\ pc \in {"start", "create", "scan"} => snapshot_ids = {} /\ to_add = {}
  /\ pc \in {"start", "create"} => volumes_on_disk = {}
  /\ pc = "sink" => to_map = {}

Typed == TypeOK /\ Apart(extents) /\ Steps

(***************************************************************************)
(* What each loop has done so far with a volume that has not moved and     *)
(* that no call has passed over is what its place calls for.               *)
(***************************************************************************)
ExactOf(v) ==
  /\ pc = "scan" => (v \in volumes_on_disk <=> (StartsOnDisk(v) /\ v \notin to_scan))
  /\ pc = "add" => (v \in volumes_on_disk <=> StartsOnDisk(v))
  /\ pc = "add" => (v \in snapshot_ids <=> (StartsOnDisk(v) /\ v \in supported /\ v \notin to_add))
  /\ pc \in {"created", "map", "sink"} =>
       (v \in snapshot_ids <=> (StartsOnDisk(v) /\ v \in supported))
  /\ pc \in {"created", "map", "sink"} => (v \in snapshot_ids => v \in shadows)
  /\ pc \in {"map", "sink"} =>
       KeysOf(v) = IF v \in snapshot_ids \ to_map THEN {FirstExtent(v).off} ELSE {}

(* Where a volume that has not moved lies the map names no other. *)
OwnKey(v) ==
  LiesOnDisk(v) /\ FirstExtent(v).off \in DOMAIN shadow_map => shadow_map[FirstExtent(v).off] = v

Exact ==
  /\ \A v \in Volumes \ (moved \cup missed) : ExactOf(v)
  /\ \A v \in Volumes \ moved : OwnKey(v)

LEMMA InitTyped == Init => Typed /\ Exact
<1> SUFFICES ASSUME Init PROVE Typed /\ Exact
  OBVIOUS
<1>1. DOMAIN shadow_map = {} /\ pc = "start" /\ Apart(extents)
  BY DEF Init
<1>2. TypeOK
  <2>1. pc \in Pcs /\ DOMAIN shadow_map \subseteq Nat /\ supported \subseteq Volumes
    BY <1>1 DEF Init, Pcs
  <2>2. completes \in 0..1
    BY DEF Init
  <2>3. \A off \in DOMAIN shadow_map : shadow_map[off] \in shadows
    BY <1>1
  <2> HIDE <1>1
  <2> QED
    BY <2>1, <2>2, <2>3 DEF Init, TypeOK
<1>3. Steps
  BY <1>1 DEF Init, Steps
<1>4. Exact
  BY <1>1 DEF Exact, ExactOf, OwnKey
<1> QED
  BY <1>1, <1>2, <1>3, <1>4 DEF Typed

(* A volume that stays where it is stays known by its place. *)
LEMMA SamePlace ==
  ASSUME NEW v, extents'[v] = extents[v]
  PROVE  /\ FirstExtent(v)' = FirstExtent(v)
         /\ LiesOnDisk(v)' <=> LiesOnDisk(v)
         /\ TooManyExtents(v)' <=> TooManyExtents(v)
         /\ HasExtents(v)' <=> HasExtents(v)
         /\ StartsOnDisk(v)' <=> StartsOnDisk(v)
BY DEF StartsOnDisk, HasExtents, TooManyExtents, LiesOnDisk, FirstExtent

LEMMA SameOwnKey ==
  ASSUME NEW v, extents'[v] = extents[v], UNCHANGED shadow_map, OwnKey(v)
  PROVE  OwnKey(v)'
BY SamePlace DEF OwnKey

(* A step that touches nothing but pc and the guard, and goes on, back nowhere. *)
LEMMA Onward ==
  ASSUME Typed, Exact,
         UNCHANGED <<extents, supported, creating, shadows, mapping, history>>,
         pc' \in Pcs, held' \in BOOLEAN, made' \in BOOLEAN, completes' \in 0..1,
         \/ pc' \notin {"start", "create", "scan", "add", "created", "map", "sink"}
         \/ pc = "start" /\ pc' = "create"
         \/ pc = "map" /\ pc' = "sink" /\ to_map = {}
         \/ pc' = pc
  PROVE  Typed' /\ Exact'
<1> USE DEF creating, mapping, history
<1>1. TypeOK'
  BY DEF Typed, TypeOK
<1>2. Apart(extents)' /\ Steps'
  BY DEF Typed, Steps
<1>3. ASSUME NEW v \in Volumes \ (moved \cup missed) PROVE ExactOf(v)'
  <2>1. ExactOf(v) /\ KeysOf(v)' = KeysOf(v)
    BY DEF Exact, KeysOf
  <2> QED
    BY <2>1, SamePlace DEF ExactOf
<1>4. ASSUME NEW v \in Volumes \ moved PROVE OwnKey(v)'
  BY SameOwnKey DEF Exact
<1>5. Exact'
  BY <1>3, <1>4 DEF Exact
<1> QED
  BY <1>1, <1>2, <1>5 DEF Typed

LEMMA FailsTyped ==
  ASSUME Typed, Exact, CreateFails
  PROVE  Typed' /\ Exact'
BY Onward DEF CreateFails, Goto, Pcs, guard, Typed, TypeOK

(* While the snapshot is made there is no map, and volumes stay where they are. *)
LEMMA NoKeysYet ==
  ASSUME Typed, pc \in {"create", "scan", "add"}, UNCHANGED <<extents, to_map, shadow_map>>
  PROVE  /\ \A v : OwnKey(v)'
         /\ \A v : FirstExtent(v)' = FirstExtent(v)
         /\ \A v : StartsOnDisk(v)' <=> StartsOnDisk(v)
         /\ Apart(extents)'
<1>1. DOMAIN shadow_map' = {}
  BY DEF Typed, Steps
<1> QED
  BY <1>1, SamePlace DEF OwnKey, Typed

LEMMA EnumerateTyped == Typed /\ Exact /\ Enumerate => Typed' /\ Exact'
<1> SUFFICES ASSUME Typed, Exact, Enumerate, ~CreateFails PROVE Typed' /\ Exact'
  BY FailsTyped
<1>1. /\ pc = "create" /\ pc' = "scan" /\ to_scan' \subseteq Volumes
      /\ missed' = missed \cup (Volumes \ to_scan')
      /\ UNCHANGED <<extents, supported, volumes_on_disk, to_add, snapshot_ids, shadows, held, made,
                     completes, to_map, shadow_map, moved>>
  BY DEF Enumerate, Goto, guard, mapping
<1>2. TypeOK'
  BY <1>1 DEF Typed, TypeOK, Pcs
<1>3. Steps'
  BY <1>1 DEF Typed, Steps
<1>4. ASSUME NEW v \in Volumes \ (moved' \cup missed') PROVE ExactOf(v)'
  <2>1. v \in to_scan' /\ volumes_on_disk' = {}
    BY <1>1 DEF Typed, Steps
  <2> QED
    BY <1>1, <2>1 DEF ExactOf
<1> QED
  BY <1>1, <1>2, <1>3, <1>4, NoKeysYet DEF Typed, Exact

LEMMA ScanTyped ==
  ASSUME Typed, Exact, NEW v \in Volumes, ScanVolume(v)
  PROVE  Typed' /\ Exact'
<1>1. /\ pc = "scan" /\ v \in to_scan /\ to_scan' = to_scan \ {v}
      /\ \/ /\ volumes_on_disk' = volumes_on_disk \cup (IF StartsOnDisk(v) THEN {v} ELSE {})
            /\ missed' = missed
         \/ volumes_on_disk' = volumes_on_disk /\ missed' = missed \cup {v}
      /\ UNCHANGED <<extents, supported, pc, to_add, snapshot_ids, shadows, held, made, completes,
                     to_map, shadow_map, moved>>
  BY DEF ScanVolume, guard, mapping
<1>2. TypeOK'
  BY <1>1 DEF Typed, TypeOK
<1>3. Steps'
  BY <1>1 DEF Typed, Steps
<1>4. ASSUME NEW w \in Volumes \ (moved' \cup missed') PROVE ExactOf(w)'
  <2>1. w \in volumes_on_disk <=> (StartsOnDisk(w) /\ w \notin to_scan)
    BY <1>1 DEF Exact, ExactOf
  <2>2. w \in volumes_on_disk' <=> (StartsOnDisk(w) /\ w \notin to_scan')
    BY <1>1, <2>1
  <2> QED
    BY <1>1, <2>2, NoKeysYet DEF ExactOf
<1> QED
  BY <1>1, <1>2, <1>3, <1>4, NoKeysYet DEF Typed, Exact

LEMMA StartTyped == Typed /\ Exact /\ StartSnapshotSet => Typed' /\ Exact'
<1> SUFFICES ASSUME Typed, Exact, StartSnapshotSet, ~CreateFails PROVE Typed' /\ Exact'
  BY FailsTyped
<1>1. /\ pc = "scan" /\ to_scan = {} /\ pc' = "add" /\ to_add' = volumes_on_disk
      /\ UNCHANGED <<extents, supported, to_scan, volumes_on_disk, snapshot_ids, shadows, held, made,
                     completes, to_map, shadow_map, moved, missed>>
  BY DEF StartSnapshotSet, Goto, guard, mapping, history
<1>2. TypeOK'
  BY <1>1 DEF Typed, TypeOK, Pcs
<1>3. Steps'
  BY <1>1 DEF Typed, Steps
<1>4. ASSUME NEW w \in Volumes \ (moved \cup missed) PROVE ExactOf(w)'
  <2>1. (w \in volumes_on_disk <=> StartsOnDisk(w)) /\ snapshot_ids = {}
    BY <1>1 DEF Exact, ExactOf, Typed, Steps
  <2> QED
    BY <1>1, <2>1, NoKeysYet DEF ExactOf
<1> QED
  BY <1>1, <1>2, <1>3, <1>4, NoKeysYet DEF Typed, Exact

LEMMA AddTyped ==
  ASSUME Typed, Exact, NEW v \in Volumes, AddVolume(v)
  PROVE  Typed' /\ Exact'
<1> SUFFICES ASSUME ~CreateFails PROVE Typed' /\ Exact'
  BY FailsTyped
<1>1. /\ pc = "add" /\ v \in to_add /\ to_add' = to_add \ {v}
      /\ snapshot_ids' = IF v \in supported THEN snapshot_ids \cup {v} ELSE snapshot_ids
      /\ UNCHANGED <<extents, supported, pc, to_scan, volumes_on_disk, shadows, held, made,
                     completes, to_map, shadow_map, moved, missed>>
  BY DEF AddVolume, Added, guard, mapping, history
<1>2. TypeOK'
  BY <1>1 DEF Typed, TypeOK
<1>3. Steps'
  BY <1>1 DEF Typed, Steps
<1>4. ASSUME NEW w \in Volumes \ (moved \cup missed) PROVE ExactOf(w)'
  <2>1. /\ w \in volumes_on_disk <=> StartsOnDisk(w)
        /\ w \in snapshot_ids <=> (StartsOnDisk(w) /\ w \in supported /\ w \notin to_add)
        /\ to_add \subseteq volumes_on_disk
    BY <1>1 DEF Exact, ExactOf, Typed, TypeOK
  <2>2. w \in snapshot_ids' <=> (StartsOnDisk(w) /\ w \in supported /\ w \notin to_add')
    BY <1>1, <2>1
  <2> QED
    BY <1>1, <2>1, <2>2, NoKeysYet DEF ExactOf
<1> QED
  BY <1>1, <1>2, <1>3, <1>4, NoKeysYet DEF Typed, Exact

LEMMA DoTyped == Typed /\ Exact /\ DoSnapshotSet => Typed' /\ Exact'
<1> SUFFICES ASSUME Typed, Exact, DoSnapshotSet, ~CreateFails PROVE Typed' /\ Exact'
  BY FailsTyped
<1>1. /\ pc = "add" /\ to_add = {} /\ shadows' \subseteq snapshot_ids /\ snapshot_ids # {}
      /\ \/ /\ pc' = "created" /\ held' = TRUE /\ made' = TRUE
            /\ missed' = missed \cup (snapshot_ids \ shadows')
         \/ pc' = "failed" /\ UNCHANGED <<held, made, missed>>
      /\ UNCHANGED <<extents, supported, to_scan, volumes_on_disk, to_add, snapshot_ids, completes,
                     to_map, shadow_map, moved>>
  BY DEF DoSnapshotSet, Goto, creating, mapping, guard, history
<1>2. TypeOK'
  <2>1. DOMAIN shadow_map' = {}
    BY <1>1 DEF Typed, Steps
  <2>2. missed' \subseteq Volumes
    BY <1>1 DEF Typed, TypeOK
  <2> QED
    BY <1>1, <2>1, <2>2 DEF Typed, TypeOK, Pcs
<1>3. Steps'
  BY <1>1 DEF Typed, Steps
<1>4. ASSUME NEW w \in Volumes \ (moved' \cup missed') PROVE ExactOf(w)'
  <2>1. w \in snapshot_ids <=> (StartsOnDisk(w) /\ w \in supported)
    BY <1>1 DEF Exact, ExactOf
  <2>2. pc' = "created" => (w \in snapshot_ids => w \in shadows')
    BY <1>1
  <2> QED
    BY <1>1, <2>1, <2>2, NoKeysYet DEF ExactOf
<1> QED
  BY <1>1, <1>2, <1>3, <1>4, NoKeysYet DEF Typed, Exact

LEMMA BuilderTyped == Typed /\ Exact /\ NewBuilder => Typed' /\ Exact'
<1> SUFFICES ASSUME Typed, Exact, NewBuilder PROVE Typed' /\ Exact'
  OBVIOUS
<1>0. held \in BOOLEAN /\ made \in BOOLEAN /\ completes \in 0..1
  BY DEF Typed, TypeOK
<1>1. CASE Step("created", "unwind")
  BY <1>0, <1>1, Onward DEF Step, Goto, Pcs, guard
<1>2. CASE /\ pc = "created" /\ pc' = "map" /\ to_map' = snapshot_ids
           /\ UNCHANGED <<extents, supported, to_scan, volumes_on_disk, to_add, snapshot_ids, shadows,
                          held, made, completes, shadow_map, moved, missed>>
  <2>1. TypeOK'
    BY <1>2 DEF Typed, TypeOK, Pcs
  <2>2. Apart(extents)' /\ Steps'
    BY <1>2 DEF Typed, Steps
  <2>3. DOMAIN shadow_map' = {} /\ snapshot_ids' \ to_map' = {}
    BY <1>2 DEF Typed, Steps
  <2>4. ASSUME NEW v \in Volumes \ (moved \cup missed) PROVE ExactOf(v)'
    <3>1. /\ v \in snapshot_ids <=> (StartsOnDisk(v) /\ v \in supported)
          /\ v \in snapshot_ids => v \in shadows
      BY <1>2 DEF Exact, ExactOf
    <3>2. KeysOf(v)' = {}
      BY <2>3 DEF KeysOf
    <3> QED
      BY <1>2, <2>3, <3>1, <3>2, SamePlace DEF ExactOf
  <2>5. \A v : OwnKey(v)'
    BY <2>3 DEF OwnKey
  <2> QED
    BY <1>2, <2>1, <2>2, <2>4, <2>5 DEF Typed, Exact
<1> QED
  BY <1>1, <1>2 DEF NewBuilder, Goto, creating, guard, history

LEMMA MapTyped ==
  ASSUME Typed, Exact, NEW v \in Volumes, MapSnapshot(v)
  PROVE  Typed' /\ Exact'
<1>1. /\ pc = "map" /\ v \in to_map /\ to_map' = to_map \ {v}
      /\ UNCHANGED <<extents, supported, pc, to_scan, volumes_on_disk, to_add, snapshot_ids, shadows,
                     held, made, completes, moved>>
  BY DEF MapSnapshot, creating, guard
<1>2. Apart(extents)' /\ Steps' /\ to_map \subseteq snapshot_ids
  BY <1>1 DEF Typed, Steps, TypeOK
<1>3. \A w : /\ FirstExtent(w)' = FirstExtent(w)
             /\ LiesOnDisk(w)' <=> LiesOnDisk(w)
             /\ StartsOnDisk(w)' <=> StartsOnDisk(w)
  BY <1>1, SamePlace
(* Where nothing enters the map, the volume was missed or is not on the disk. *)
<1>4. ASSUME UNCHANGED shadow_map, missed \subseteq missed', missed' \subseteq missed \cup {v},
             v \in missed' \/ ~StartsOnDisk(v)
      PROVE  Typed' /\ Exact'
  <2>1. TypeOK'
    BY <1>1, <1>4 DEF Typed, TypeOK
  <2>2. ASSUME NEW w \in Volumes \ (moved' \cup missed') PROVE ExactOf(w)'
    <3>1. ExactOf(w)
      BY <1>1, <1>4, <2>2 DEF Exact
    <3>2. w # v
      BY <1>1, <1>2, <1>4, <3>1 DEF ExactOf
    <3>3. KeysOf(w)' = KeysOf(w) /\ (w \in snapshot_ids \ to_map' <=> w \in snapshot_ids \ to_map)
      BY <1>1, <1>4, <3>2 DEF KeysOf
    <3> QED
      BY <1>1, <1>3, <3>1, <3>3 DEF ExactOf
  <2>3. ASSUME NEW w \in Volumes \ moved' PROVE OwnKey(w)'
    BY <1>1, <1>3, <1>4 DEF Exact, OwnKey
  <2> QED
    BY <1>2, <2>1, <2>2, <2>3 DEF Typed, Exact
<1>5. CASE missed' = missed \cup {v} /\ UNCHANGED shadow_map
  BY <1>4, <1>5
<1>6. CASE v \in shadows /\ UNCHANGED <<shadow_map, missed>> /\ ~StartsOnDisk(v)
  BY <1>4, <1>6
<1>7. CASE /\ v \in shadows /\ UNCHANGED missed /\ StartsOnDisk(v)
           /\ shadow_map' = Insert(FirstExtent(v).off, v)
  <2> DEFINE off == FirstExtent(v).off
  <2>0. extents \in [Volumes -> ExtentLists] /\ Apart(extents) /\ LiesOnDisk(v)
    BY <1>7, StartsIffLies DEF Typed, TypeOK
  <2>1. off \in Nat
    BY <2>0, LiesFacts
  <2>2. /\ DOMAIN shadow_map' = DOMAIN shadow_map \cup {off}
        /\ shadow_map'[off] = v
        /\ \A o \in DOMAIN shadow_map : o # off => shadow_map'[o] = shadow_map[o]
    BY <1>7 DEF Insert
  <2>3. TypeOK'
    <3>1. DOMAIN shadow_map' \subseteq Nat
      BY <2>1, <2>2 DEF Typed, TypeOK
    <3>2. \A o \in DOMAIN shadow_map' : shadow_map'[o] \in shadows'
      BY <1>1, <1>7, <2>2 DEF Typed, TypeOK
    <3> QED
      BY <1>1, <1>7, <3>1, <3>2 DEF Typed, TypeOK
  <2>4. ASSUME NEW w \in Volumes, w # v, LiesOnDisk(w) PROVE FirstExtent(w).off # off
    BY <2>0, <2>4, LieApart
  <2>5. ASSUME NEW w \in Volumes \ (moved \cup missed) PROVE ExactOf(w)'
    <3>1. ExactOf(w)
      BY <2>5 DEF Exact
    <3>2. KeysOf(w) = IF w \in snapshot_ids \ to_map THEN {FirstExtent(w).off} ELSE {}
      BY <1>1, <3>1 DEF ExactOf
    <3>3. KeysOf(w)' = IF w \in snapshot_ids \ to_map' THEN {FirstExtent(w).off} ELSE {}
      <4>1. CASE w = v
        <5>1. KeysOf(w) = {} /\ w \in snapshot_ids \ to_map'
          BY <1>1, <1>2, <3>2, <4>1
        <5>2. KeysOf(w)' = {off}
          BY <2>2, <4>1, <5>1 DEF KeysOf
        <5> QED
          BY <4>1, <5>1, <5>2
      <4>2. CASE w # v
        <5>1. off \notin KeysOf(w)
          <6>1. CASE w \in snapshot_ids
            BY <1>1, <2>4, <3>1, <3>2, <4>2, <6>1, StartsIffLies DEF ExactOf
          <6>2. CASE w \notin snapshot_ids
            BY <3>2, <6>2
          <6> QED
            BY <6>1, <6>2
        <5>2. KeysOf(w)' = KeysOf(w)
          BY <2>2, <4>2, <5>1 DEF KeysOf
        <5> QED
          BY <1>1, <3>2, <4>2, <5>2
      <4> QED
        BY <4>1, <4>2
    <3> QED
      BY <1>1, <1>3, <3>1, <3>3 DEF ExactOf
  <2>6. ASSUME NEW w \in Volumes \ moved PROVE OwnKey(w)'
    <3>1. OwnKey(w)
      BY <2>6 DEF Exact
    <3>2. CASE w = v
      BY <1>3, <2>2, <3>2 DEF OwnKey
    <3>3. CASE w # v
      BY <1>3, <2>2, <2>4, <3>1, <3>3 DEF OwnKey
    <3> QED
      BY <3>2, <3>3
  <2> QED
    BY <1>1, <1>2, <1>7, <2>3, <2>5, <2>6 DEF Typed, Exact
<1> QED
  BY <1>5, <1>6, <1>7 DEF MapSnapshot

LEMMA MoveTyped == Typed /\ Exact /\ MoveVolume => Typed' /\ Exact'
<1> SUFFICES ASSUME Typed, Exact, MoveVolume PROVE Typed' /\ Exact'
  OBVIOUS
<1>1. PICK v \in Volumes, e \in ExtentLists :
        extents' = [extents EXCEPT ![v] = e] /\ moved' = moved \cup {v}
  BY DEF MoveVolume
<1>2. UNCHANGED <<supported, pc, to_scan, volumes_on_disk, to_add, snapshot_ids, shadows, held, made,
                  completes, to_map, shadow_map, missed>>
  BY DEF MoveVolume, creating, guard, mapping
<1>3. TypeOK'
  BY <1>1, <1>2 DEF Typed, TypeOK
<1>4. Apart(extents)' /\ Steps'
  BY <1>2 DEF MoveVolume, Typed, Steps, Apart
<1>5. \A w \in Volumes \ moved' : w \notin moved /\ extents'[w] = extents[w]
  BY <1>1 DEF Typed, TypeOK
<1>6. ASSUME NEW w \in Volumes \ (moved' \cup missed') PROVE ExactOf(w)'
  <2>1. ExactOf(w) /\ KeysOf(w)' = KeysOf(w)
    BY <1>2, <1>5, <1>6 DEF Exact, KeysOf
  <2> QED
    BY <1>2, <1>5, <1>6, <2>1, SamePlace DEF ExactOf
<1>7. ASSUME NEW w \in Volumes \ moved' PROVE OwnKey(w)'
  BY <1>2, <1>5, <1>7, SameOwnKey DEF Exact
<1> QED
  BY <1>3, <1>4, <1>6, <1>7 DEF Typed, Exact

(* The steps that only go on, or give the snapshot back. *)
LEMMA OtherTyped ==
  ASSUME Typed, Exact, IInv', UNCHANGED <<extents, supported, creating, shadows, mapping, history>>,
         \/ CheckArgs \/ DebugVss \/ GetLayout \/ DebugImage \/ Confirm \/ OpenSink \/ Stream
         \/ Finish \/ Drop \/ Kill \/ Over \/ UNCHANGED vars
  PROVE  Typed' /\ Exact'
<1>1. held' \in BOOLEAN /\ made' \in BOOLEAN /\ completes' \in 0..1
  BY DEF IInv, Counted
<1>2. pc \in Pcs
  BY DEF Typed, TypeOK
<1>3. CASE CheckArgs \/ DebugVss \/ GetLayout
  BY <1>1, <1>3, Onward DEF CheckArgs, DebugVss, GetLayout, Step, Goto, Pcs
<1>4. CASE DebugImage \/ Confirm
  BY <1>1, <1>4, Onward DEF DebugImage, Confirm, Step, Goto, Pcs
<1>5. CASE OpenSink \/ Stream
  BY <1>1, <1>5, Onward DEF OpenSink, BadTarget, NoSink, Stream, Step, Goto, Pcs
<1>6. CASE Finish \/ Drop \/ Kill
  BY <1>1, <1>6, Onward DEF Finish, Drop, Kill, Goto, Pcs
<1>7. CASE Over \/ UNCHANGED vars
  BY <1>1, <1>2, <1>7, Onward DEF Over, vars
<1> QED
  BY <1>3, <1>4, <1>5, <1>6, <1>7

LEMMA StepTyped ==
  ASSUME Typed, Exact, IInv', [CliNext]_vars
  PROVE  Typed' /\ Exact'
<1>1. CASE CreateForDisk
  BY <1>1, EnumerateTyped, ScanTyped, StartTyped, AddTyped, DoTyped DEF CreateForDisk
<1>2. CASE NewBuilder \/ MoveVolume \/ \E v \in Volumes : MapSnapshot(v)
  BY <1>2, BuilderTyped, MapTyped, MoveTyped
<1>3. CASE \/ CheckArgs \/ DebugVss \/ GetLayout \/ DebugImage \/ Confirm \/ OpenSink \/ Stream
           \/ Finish \/ Drop \/ Kill \/ Over \/ UNCHANGED vars
  <2>1. UNCHANGED <<extents, supported, creating, shadows, mapping, history>>
    BY <1>3 DEF CheckArgs, DebugVss, GetLayout, DebugImage, Confirm, OpenSink, BadTarget, NoSink,
                Stream, Step, Finish, Drop, Kill, Over, vars
  <2> QED
    BY <1>3, <2>1, OtherTyped
<1> QED
  BY <1>1, <1>2, <1>3 DEF CliNext, CloneStep

(* Typed and Exact hold initially and every step keeps them. *)
THEOREM TypedAndExact == CliSpec => [](Typed /\ Exact)
<1>1. Typed /\ Exact /\ IInv' /\ [CliNext]_vars => Typed' /\ Exact'
  BY StepTyped
<1> QED
  BY <1>1, InitTyped, Inductive, PTL DEF CliSpec

(* The ranges of all variables: the shadow map names only shadow copies that exist. *)
THEOREM TypeCorrect == CliSpec => []TypeOK
BY TypedAndExact, PTL DEF Typed

(***************************************************************************)
(* However many volumes there are and however many extents they have, and  *)
(* whatever has moved or failed unnoticed: what the stream finds in the    *)
(* map of a volume nothing has happened to is its shadow copy at its place *)
(* if the program could see it there, and nothing otherwise.               *)
(***************************************************************************)
THEOREM MapCorrect == CliSpec => []MapComplete
<1>1. Typed /\ Exact => MapComplete
  <2> SUFFICES ASSUME Typed, Exact, pc = "sink", NEW v \in Volumes \ (moved \cup missed)
               PROVE  KeysOf(v) = IF Mappable(v) THEN {FirstExtent(v).off} ELSE {}
    BY DEF MapComplete
  <2>1. to_map = {} /\ ExactOf(v)
    BY DEF Typed, Steps, Exact
  <2>2. v \in snapshot_ids \ to_map <=> Mappable(v)
    BY <2>1, StartsIffLies DEF ExactOf, Mappable
  <2> QED
    BY <2>1, <2>2 DEF ExactOf
<1> QED
  BY <1>1, TypedAndExact, PTL

(* At the place of a volume that has not moved the map names that volume or none. *)
THEOREM OwnKeys == CliSpec => [](\A v \in Volumes \ moved : OwnKey(v))
BY TypedAndExact, PTL DEF Exact
-----------------------------------------------------------------------------
(* Undisturbed is about what the two history variables say, and no more. *)
USE DEF Undisturbed, history

(***************************************************************************)
(* The analysis.  It runs before the clone, from which it is told apart by *)
(* pc, and each of its loops starts where the one before has ended.        *)
(***************************************************************************)
Phases ==
  /\ step \in {"enumerate", "scan", "info", "support", "answer", "done"}
  /\ step # "done" => pc = "start"
  /\ to_look_at \subseteq Volumes
  /\ found \subseteq Volumes
  /\ step = "enumerate" => found = {}
  /\ step \in {"enumerate", "scan"} => DOMAIN volume_info = {}
  /\ step \in {"enumerate", "scan", "info"} => DOMAIN vss_supported = {}
  /\ step \in {"info", "support"} => to_look_at \subseteq found

OnDisk == {v \in Volumes : StartsOnDisk(v)}

Informed(seen) ==
  /\ DOMAIN volume_info = {FirstExtent(v).off : v \in seen}
  /\ \A v \in seen : volume_info[FirstExtent(v).off] = v

Asked(seen) ==
  /\ DOMAIN vss_supported = {FirstExtent(v).off : v \in seen}
  /\ \A v \in seen : /\ vss_supported[FirstExtent(v).off] \in BOOLEAN
                     /\ vss_supported[FirstExtent(v).off] = TRUE <=> v \in supported

Answered ==
  /\ DOMAIN answers = Analysed
  /\ \A k \in Analysed : answers[k] \in Answers(k)

(***************************************************************************)
(* What the analysis knows of the volumes it has looked at so far is true  *)
(* as long as nothing has moved or failed unnoticed.                       *)
(***************************************************************************)
Learnt ==
  Undisturbed =>
    /\ step = "scan" => found = OnDisk \ to_look_at
    /\ step \in {"info", "support", "answer"} => found = OnDisk
    /\ step = "info" => Informed(OnDisk \ to_look_at)
    /\ step \in {"support", "answer"} => Informed(OnDisk)
    /\ step = "support" => Asked(OnDisk \ to_look_at)
    /\ step = "answer" => Asked(OnDisk)
    /\ step = "done" => \/ DOMAIN answers = {}
                        \/ Informed(OnDisk) /\ Asked(OnDisk) /\ Answered

Histories == moved \subseteq Volumes /\ missed \subseteq Volumes

AInv == IInv /\ Typed /\ Exact /\ Phases /\ Learnt

LEMMA InitAInv == AnalysisInit => AInv
BY InitIInv, InitTyped DEF AnalysisInit, AInv, Phases, Learnt, Init

(* Where nothing the volumes are known by has changed, what is known of them has not. *)
LEMMA SameVolumes ==
  ASSUME UNCHANGED <<extents, supported, parts, volume_info, vss_supported>>, NEW seen
  PROVE  /\ OnDisk' = OnDisk
         /\ Informed(seen) => Informed(seen)'
         /\ Asked(seen) => Asked(seen)'
         /\ answers' = answers => (Answered => Answered')
<1>1. OnDisk' = OnDisk
  BY SamePlace DEF OnDisk
<1>2. Informed(seen) => Informed(seen)'
  BY DEF Informed, FirstExtent
<1>3. Asked(seen) => Asked(seen)'
  BY DEF Asked, FirstExtent
<1>4. ASSUME answers' = answers, Answered PROVE Answered'
  <2>1. Analysed' = Analysed
    BY DEF Analysed
  <2>2. \A k : Answers(k)' = Answers(k)
    BY DEF Answers, Verdicts, Keys, Inside
  <2> QED
    BY <1>4, <2>1, <2>2 DEF Answered
<1> QED
  BY <1>1, <1>2, <1>3, <1>4

(* The analysis leaves the clone where it is, before its start. *)
LEMMA BeforeClone ==
  ASSUME AInv, UNCHANGED <<supported, pc, creating, shadows, guard, mapping>>, pc = "start",
         extents' \in [Volumes -> ExtentLists], Apart(extents)', Histories'
  PROVE  IInv' /\ Typed' /\ Exact'
<1>1. IInv'
  BY GuardKept DEF AInv, IInv, Held
<1>2. TypeOK'
  BY DEF AInv, Typed, TypeOK, creating, guard, mapping, Histories
<1>3. Steps'
  BY DEF AInv, Typed, Steps, creating, mapping
<1>4. Exact'
  <2>1. DOMAIN shadow_map' = {}
    BY DEF AInv, Typed, Steps, mapping
  <2> QED
    BY <2>1 DEF Exact, ExactOf, OwnKey
<1> QED
  BY <1>1, <1>2, <1>3, <1>4 DEF Typed

(* A volume whose extents could not be had: from here on nothing is promised any more. *)
LEMMA PassedOver ==
  ASSUME AInv, Untouched, NEW v \in Volumes, Looked(v), NotQueried(v),
         step \in {"scan", "info", "support"}, UNCHANGED <<moved, step, answers>>
  PROVE  Phases' /\ Learnt' /\ Histories'
<1>1. ~Undisturbed'
  BY DEF NotQueried
<1>2. Learnt'
  BY <1>1 DEF Learnt
<1>3. Phases'
  BY DEF AInv, Phases, Looked, NotQueried, Untouched
<1> QED
  BY <1>2, <1>3 DEF AInv, Typed, TypeOK, Histories, NotQueried

LEMMA FindAInv ==
  ASSUME AInv, Untouched, NEW v \in Volumes, Find(v)
  PROVE  Phases' /\ Learnt' /\ Histories'
<1> SUFFICES ASSUME ~NotQueried(v) PROVE Phases' /\ Learnt' /\ Histories'
  BY PassedOver DEF Find
<1>1. /\ step = "scan" /\ step' = step /\ v \in to_look_at /\ to_look_at' = to_look_at \ {v}
      /\ found' = found \cup (IF StartsOnDisk(v) THEN {v} ELSE {})
      /\ UNCHANGED <<extents, supported, pc, parts, history, volume_info, vss_supported, answers>>
  BY DEF Find, Looked, Untouched
<1>2. Phases'
  BY <1>1 DEF AInv, Phases
<1>3. OnDisk' = OnDisk
  BY <1>1, SameVolumes
<1>4. found = OnDisk \ to_look_at => found' = OnDisk \ to_look_at'
  BY <1>1 DEF OnDisk
<1>5. Learnt'
  BY <1>1, <1>3, <1>4 DEF AInv, Learnt
<1> QED
  BY <1>1, <1>2, <1>5 DEF AInv, Typed, TypeOK, Histories

(* A loop over what was found has come to one volume more. *)
LEMMA OneMoreSeen ==
  ASSUME AInv, Undisturbed, step \in {"info", "support"}, NEW v \in to_look_at
  PROVE  /\ v \in Volumes /\ StartsOnDisk(v) /\ HasExtents(v)
         /\ OnDisk \ (to_look_at \ {v}) = (OnDisk \ to_look_at) \cup {v}
         /\ \A w \in OnDisk \ to_look_at : FirstExtent(w).off # FirstExtent(v).off
<1>1. to_look_at \subseteq found /\ found = OnDisk
  BY DEF AInv, Phases, Learnt
<1>2. v \in Volumes /\ StartsOnDisk(v)
  BY <1>1 DEF OnDisk
<1>3. extents \in [Volumes -> ExtentLists] /\ Apart(extents)
  BY DEF AInv, Typed, TypeOK
<1>4. ASSUME NEW w \in OnDisk \ to_look_at PROVE FirstExtent(w).off # FirstExtent(v).off
  <2>1. w \in Volumes /\ StartsOnDisk(w) /\ w # v
    BY <1>4 DEF OnDisk
  <2> QED
    BY <1>2, <1>3, <2>1, StartsIffLies, LieApart
<1> QED
  BY <1>1, <1>2, <1>4 DEF StartsOnDisk

LEMMA InformAInv ==
  ASSUME AInv, Untouched, NEW v \in Volumes, Inform(v)
  PROVE  Phases' /\ Learnt' /\ Histories'
<1> SUFFICES ASSUME ~NotQueried(v) PROVE Phases' /\ Learnt' /\ Histories'
  BY PassedOver DEF Inform
<1>1. /\ step = "info" /\ step' = step /\ v \in to_look_at /\ to_look_at' = to_look_at \ {v}
      /\ volume_info' = IF HasExtents(v) THEN With(volume_info, FirstExtent(v).off, v)
                                         ELSE volume_info
      /\ UNCHANGED <<extents, supported, pc, parts, history, found, vss_supported, answers>>
  BY DEF Inform, Looked, Untouched
<1>2. Phases'
  BY <1>1 DEF AInv, Phases
<1>3. OnDisk' = OnDisk /\ \A w : FirstExtent(w)' = FirstExtent(w)
  BY <1>1, SamePlace DEF OnDisk
<1>4. ASSUME Undisturbed PROVE Informed(OnDisk \ to_look_at)'
  <2> DEFINE seen == OnDisk \ to_look_at
  <2> DEFINE off == FirstExtent(v).off
  <2>1. Informed(seen)
    BY <1>1, <1>4 DEF AInv, Learnt
  <2>2. /\ HasExtents(v) /\ OnDisk \ to_look_at' = seen \cup {v}
        /\ \A w \in seen : FirstExtent(w).off # off
    BY <1>1, <1>4, OneMoreSeen
  <2>3. /\ DOMAIN volume_info' = DOMAIN volume_info \cup {off}
        /\ volume_info'[off] = v
        /\ \A o \in DOMAIN volume_info : o # off => volume_info'[o] = volume_info[o]
    BY <1>1, <2>2 DEF With
  <2>4. DOMAIN volume_info' = {FirstExtent(w).off : w \in seen \cup {v}}
    BY <2>1, <2>3 DEF Informed
  <2>5. \A w \in seen \cup {v} : volume_info'[FirstExtent(w).off] = w
    BY <2>1, <2>2, <2>3 DEF Informed
  <2>6. OnDisk' \ to_look_at' = seen \cup {v}
    BY <1>3, <2>2
  <2> QED
    BY <1>3, <2>4, <2>5, <2>6 DEF Informed
<1>5. Learnt'
  BY <1>1, <1>3, <1>4 DEF AInv, Learnt
<1> QED
  BY <1>1, <1>2, <1>5 DEF AInv, Typed, TypeOK, Histories

LEMMA AskAInv ==
  ASSUME AInv, Untouched, NEW v \in Volumes, AskVss(v)
  PROVE  Phases' /\ Learnt' /\ Histories'
<1> SUFFICES ASSUME ~NotQueried(v) PROVE Phases' /\ Learnt' /\ Histories'
  BY PassedOver DEF AskVss
<1>1. PICK yes \in BOOLEAN :
        /\ yes => v \in supported
        /\ vss_supported' = IF HasExtents(v) THEN With(vss_supported, FirstExtent(v).off, yes)
                                             ELSE vss_supported
        /\ missed' = IF yes = (v \in supported) THEN missed ELSE missed \cup {v}
        /\ UNCHANGED <<moved, found, volume_info>>
  BY DEF AskVss
<1>2. /\ step = "support" /\ step' = step /\ v \in to_look_at /\ to_look_at' = to_look_at \ {v}
      /\ UNCHANGED <<extents, supported, pc, parts, found, volume_info, answers>>
  BY <1>1 DEF AskVss, Looked, Untouched
<1>3. Phases'
  BY <1>2 DEF AInv, Phases
<1>4. OnDisk' = OnDisk /\ \A w : FirstExtent(w)' = FirstExtent(w)
  BY <1>2, SamePlace DEF OnDisk
<1>5. Histories'
  BY <1>1 DEF AInv, Typed, TypeOK, Histories
<1>6. ASSUME Undisturbed' PROVE Undisturbed /\ (yes = TRUE <=> v \in supported)
  BY <1>1, <1>5, <1>6
<1>7. ASSUME Undisturbed' PROVE Asked(OnDisk \ to_look_at)'
  <2> DEFINE seen == OnDisk \ to_look_at
  <2> DEFINE off == FirstExtent(v).off
  <2>1. Asked(seen)
    BY <1>2, <1>6, <1>7 DEF AInv, Learnt
  <2>2. /\ HasExtents(v) /\ OnDisk \ to_look_at' = seen \cup {v}
        /\ \A w \in seen : FirstExtent(w).off # off
    BY <1>2, <1>6, <1>7, OneMoreSeen
  <2>3. /\ DOMAIN vss_supported' = DOMAIN vss_supported \cup {off}
        /\ vss_supported'[off] = yes
        /\ \A o \in DOMAIN vss_supported : o # off => vss_supported'[o] = vss_supported[o]
    BY <1>1, <2>2 DEF With
  <2>4. DOMAIN vss_supported' = {FirstExtent(w).off : w \in seen \cup {v}}
    BY <2>1, <2>3 DEF Asked
  <2>5. ASSUME NEW w \in seen \cup {v}
        PROVE  /\ vss_supported'[FirstExtent(w).off] \in BOOLEAN
               /\ vss_supported'[FirstExtent(w).off] = TRUE <=> w \in supported
    <3>1. CASE w \in seen
      <4>1. /\ FirstExtent(w).off \in DOMAIN vss_supported /\ FirstExtent(w).off # off
            /\ vss_supported[FirstExtent(w).off] \in BOOLEAN
            /\ vss_supported[FirstExtent(w).off] = TRUE <=> w \in supported
        BY <2>1, <2>2, <3>1 DEF Asked
      <4>2. vss_supported'[FirstExtent(w).off] = vss_supported[FirstExtent(w).off]
        BY <2>3, <4>1
      <4> QED
        BY <4>1, <4>2
    <3>2. CASE w = v
      BY <1>6, <1>7, <2>3, <3>2
    <3> QED
      BY <3>1, <3>2
  <2>6. OnDisk' \ to_look_at' = seen \cup {v}
    BY <1>4, <2>2
  <2> QED
    BY <1>2, <1>4, <2>4, <2>5, <2>6 DEF Asked
<1>8. ASSUME Undisturbed' PROVE Informed(OnDisk)' /\ found' = OnDisk'
  <2>1. Informed(OnDisk) /\ found = OnDisk
    BY <1>2, <1>6, <1>8 DEF AInv, Learnt
  <2> QED
    BY <1>2, <1>4, <2>1 DEF Informed
<1>9. Learnt'
  BY <1>2, <1>7, <1>8 DEF Learnt
<1> QED
  BY <1>3, <1>5, <1>9

(* The steps that begin a loop, and those that end the analysis. *)
LEMMA LoopAInv ==
  ASSUME AInv, Untouched,
         \/ LookAtVolumes
         \/ NextLoop("scan", "info") \/ NextLoop("info", "support") \/ NextLoop("support", "answer")
  PROVE  Phases' /\ Learnt' /\ Histories'
<1>1. UNCHANGED <<extents, supported, pc, parts>> /\ Histories /\ OnDisk \subseteq Volumes
  BY DEF Untouched, AInv, Typed, TypeOK, OnDisk, Histories
<1>2. CASE LookAtVolumes
  <2>1. OnDisk' = OnDisk
    BY <1>1, <1>2, SameVolumes DEF LookAtVolumes
  <2>2. Phases'
    BY <1>1, <1>2 DEF LookAtVolumes, AInv, Phases
  <2>3. Learnt'
    <3> SUFFICES ASSUME Undisturbed' PROVE found' = OnDisk' \ to_look_at'
      BY <1>2 DEF LookAtVolumes, Learnt
    <3>1. found' = {} /\ to_look_at' = Volumes
      BY <1>2 DEF LookAtVolumes, AInv, Phases
    <3> QED
      BY <1>1, <2>1, <3>1
  <2> QED
    BY <1>1, <1>2, <2>2, <2>3 DEF LookAtVolumes, Histories
<1>3. ASSUME to_look_at = {}, to_look_at' = found,
             UNCHANGED <<history, found, volume_info, vss_supported, answers>>
      PROVE  /\ OnDisk \ to_look_at = OnDisk
             /\ \A seen : Informed(seen) => Informed(seen)'
             /\ \A seen : Asked(seen) => Asked(seen)'
             /\ OnDisk' = OnDisk
  BY <1>1, <1>3, SameVolumes
<1>4. ASSUME Undisturbed, found = OnDisk
      PROVE  /\ DOMAIN volume_info = {} => Informed(OnDisk \ found)
             /\ DOMAIN vss_supported = {} => Asked(OnDisk \ found)
  BY <1>4 DEF Informed, Asked
<1>5. CASE NextLoop("scan", "info")
  <2>1. Phases'
    BY <1>1, <1>5 DEF NextLoop, AInv, Phases
  <2>2. ASSUME Undisturbed' PROVE found' = OnDisk' /\ Informed(OnDisk \ to_look_at)'
    <3>1. found = OnDisk
      BY <1>5, <2>2 DEF NextLoop, AInv, Learnt
    <3>2. DOMAIN volume_info = {} /\ OnDisk' = OnDisk
      BY <1>3, <1>5 DEF NextLoop, AInv, Phases
    <3> QED
      BY <1>5, <3>1, <3>2 DEF NextLoop, Informed
  <2> QED
    BY <1>1, <1>5, <2>1, <2>2 DEF NextLoop, Learnt, Histories
<1>6. CASE NextLoop("info", "support")
  <2>1. Phases'
    BY <1>1, <1>6 DEF NextLoop, AInv, Phases
  <2>2. ASSUME Undisturbed'
        PROVE  found' = OnDisk' /\ Informed(OnDisk)' /\ Asked(OnDisk \ to_look_at)'
    <3>1. found = OnDisk /\ Informed(OnDisk \ to_look_at)
      BY <1>6, <2>2 DEF NextLoop, AInv, Learnt
    <3>2. DOMAIN vss_supported = {} /\ OnDisk' = OnDisk /\ Informed(OnDisk)'
      BY <1>3, <1>6, <3>1 DEF NextLoop, AInv, Phases, Informed
    <3> QED
      BY <1>6, <3>1, <3>2 DEF NextLoop, Asked
  <2> QED
    BY <1>1, <1>6, <2>1, <2>2 DEF NextLoop, Learnt, Histories
<1>7. CASE NextLoop("support", "answer")
  <2>1. Phases'
    BY <1>1, <1>7 DEF NextLoop, AInv, Phases
  <2>2. ASSUME Undisturbed' PROVE found' = OnDisk' /\ Informed(OnDisk)' /\ Asked(OnDisk)'
    <3>1. found = OnDisk /\ Informed(OnDisk) /\ Asked(OnDisk \ to_look_at)
      BY <1>7, <2>2 DEF NextLoop, AInv, Learnt
    <3>2. OnDisk' = OnDisk /\ OnDisk \ to_look_at = OnDisk /\ found' = found
      BY <1>3, <1>7 DEF NextLoop
    <3>3. Informed(OnDisk)' /\ Asked(OnDisk)'
      BY <1>1, <1>7, <3>1, <3>2, SameVolumes DEF NextLoop, Informed, Asked, FirstExtent
    <3> QED
      BY <3>1, <3>2, <3>3
  <2> QED
    BY <1>1, <1>7, <2>1, <2>2 DEF NextLoop, Learnt, Histories
<1> QED
  BY <1>2, <1>5, <1>6, <1>7

LEMMA EndAInv ==
  ASSUME AInv, Untouched, Answer \/ AnalysisFails
  PROVE  Phases' /\ Learnt' /\ Histories'
<1>1. /\ step' = "done"
      /\ UNCHANGED <<extents, supported, pc, parts, history, to_look_at, found, volume_info,
                     vss_supported>>
  BY DEF Untouched, Answer, AnalysisFails
<1>2. Phases' /\ Histories'
  BY <1>1 DEF AInv, Phases, Typed, TypeOK, Histories
<1>3. CASE Answer
  <2>1. Answered'
    <3>1. DOMAIN answers' = Analysed /\ \A k \in Analysed : answers'[k] \in Answers(k)
      BY <1>3 DEF Answer
    <3>2. Analysed' = Analysed
      BY <1>1 DEF Analysed
    <3>3. \A k : Answers(k)' = Answers(k)
      BY <1>1 DEF Answers, Verdicts, Keys, Inside
    <3> QED
      BY <3>1, <3>2, <3>3 DEF Answered
  <2>2. ASSUME Undisturbed' PROVE Informed(OnDisk)' /\ Asked(OnDisk)'
    <3>1. Informed(OnDisk) /\ Asked(OnDisk)
      BY <1>1, <1>3, <2>2 DEF Answer, AInv, Learnt
    <3>2. OnDisk' = OnDisk
      BY <1>1, SameVolumes
    <3> QED
      BY <1>1, <3>1, <3>2 DEF Informed, Asked, FirstExtent
  <2> QED
    BY <1>1, <1>2, <2>1, <2>2 DEF Learnt
<1>4. CASE AnalysisFails
  BY <1>1, <1>2, <1>4 DEF AnalysisFails, Learnt
<1> QED
  BY <1>3, <1>4

LEMMA AnalysisAInv == AInv /\ AnalysisStep => AInv'
<1> SUFFICES ASSUME AInv, AnalysisStep PROVE AInv'
  OBVIOUS
<1>1. Untouched
  BY DEF AnalysisStep
<1>3. Phases' /\ Learnt' /\ Histories' /\ step # "done"
  <2>1. CASE \/ LookAtVolumes
             \/ NextLoop("scan", "info") \/ NextLoop("info", "support")
             \/ NextLoop("support", "answer")
    BY <1>1, <2>1, LoopAInv DEF LookAtVolumes, NextLoop
  <2>2. CASE Answer \/ AnalysisFails
    BY <1>1, <2>2, EndAInv DEF Answer, AnalysisFails
  <2>3. ASSUME NEW v \in Volumes, Find(v) \/ Inform(v) \/ AskVss(v)
        PROVE  Phases' /\ Learnt' /\ Histories' /\ step # "done"
    BY <1>1, <2>3, FindAInv, InformAInv, AskAInv DEF Find, Inform, AskVss
  <2> QED
    BY <2>1, <2>2, <2>3 DEF AnalysisStep
<1>4. pc = "start" /\ extents \in [Volumes -> ExtentLists] /\ Apart(extents)
  BY <1>3 DEF AInv, Phases, Typed, TypeOK
<1>5. IInv' /\ Typed' /\ Exact'
  <2>1. extents' \in [Volumes -> ExtentLists] /\ Apart(extents)'
    BY <1>1, <1>4 DEF Untouched
  <2> QED
    BY <1>1, <1>3, <1>4, <2>1, BeforeClone DEF Untouched
<1> QED
  BY <1>3, <1>5 DEF AInv

(* The clone moves nothing, and what it meets unnoticed it does not forget. *)
LEMMA CloneMovesNothing ==
  ASSUME CloneStep
  PROVE  UNCHANGED <<extents, supported>> /\ (Undisturbed' => Undisturbed)
<1>1. ASSUME CreateForDisk PROVE UNCHANGED <<extents, supported>> /\ (Undisturbed' => Undisturbed)
  <2>1. CASE Enumerate
    BY <2>1 DEF CreateFails, Enumerate
  <2>2. CASE StartSnapshotSet
    BY <2>2 DEF CreateFails, StartSnapshotSet
  <2>3. CASE DoSnapshotSet
    BY <2>3 DEF CreateFails, DoSnapshotSet
  <2>4. ASSUME NEW v \in Volumes, ScanVolume(v) \/ AddVolume(v)
        PROVE  UNCHANGED <<extents, supported>> /\ (Undisturbed' => Undisturbed)
    BY <2>4 DEF CreateFails, ScanVolume, AddVolume
  <2> QED
    BY <1>1, <2>1, <2>2, <2>3, <2>4 DEF CreateForDisk
<1>2. ASSUME NewBuilder \/ (\E v \in Volumes : MapSnapshot(v)) \/ Finish \/ Drop
      PROVE  UNCHANGED <<extents, supported>> /\ (Undisturbed' => Undisturbed)
  BY <1>2 DEF NewBuilder, Step, MapSnapshot, Finish, Drop
<1>3. ASSUME CheckArgs \/ DebugVss \/ GetLayout \/ DebugImage \/ Confirm \/ OpenSink \/ Stream
      PROVE  UNCHANGED <<extents, supported>> /\ (Undisturbed' => Undisturbed)
  BY <1>3 DEF CheckArgs, DebugVss, GetLayout, DebugImage, Confirm, OpenSink, BadTarget, NoSink,
              Stream, Step
<1> QED
  BY <1>1, <1>2, <1>3 DEF CloneStep

LEMMA CloneAInv == AInv /\ (Clone \/ Settled \/ UNCHANGED allvars) => AInv'
<1> SUFFICES ASSUME AInv, Clone \/ Settled \/ UNCHANGED allvars PROVE AInv'
  OBVIOUS
<1>1. CASE Clone
  <2>1. /\ step = "done" /\ [CliNext]_vars
        /\ UNCHANGED <<parts, step, to_look_at, found, volume_info, vss_supported, answers>>
        /\ UNCHANGED <<extents, supported>> /\ (Undisturbed' => Undisturbed)
    BY <1>1, CloneMovesNothing DEF Clone, CliNext, analysing, AInv, Typed, TypeOK
  <2>2. IInv' /\ Typed' /\ Exact'
    BY <2>1, StepIInv, StepTyped DEF AInv
  <2>3. Phases'
    BY <2>1 DEF AInv, Phases
  <2>4. Learnt'
    <3> SUFFICES ASSUME Undisturbed', DOMAIN answers # {}
                 PROVE  Informed(OnDisk)' /\ Asked(OnDisk)' /\ Answered'
      BY <2>1 DEF Learnt
    <3>1. Informed(OnDisk) /\ Asked(OnDisk) /\ Answered
      BY <2>1 DEF AInv, Learnt
    <3>2. OnDisk' = OnDisk /\ Answered'
      BY <2>1, <3>1, SameVolumes
    <3>3. Informed(OnDisk)' /\ Asked(OnDisk)'
      BY <2>1, <3>1, <3>2 DEF Informed, Asked, FirstExtent
    <3> QED
      BY <3>2, <3>3
  <2> QED
    BY <2>2, <2>3, <2>4 DEF AInv
<1>2. CASE Settled \/ UNCHANGED allvars
  <2>1. UNCHANGED <<vars, parts, step, to_look_at, found, volume_info, vss_supported, answers>>
    BY <1>2 DEF Settled, allvars, analysing
  <2>2. IInv' /\ Typed' /\ Exact'
    BY <2>1, StepIInv, StepTyped DEF AInv
  <2>3. Phases'
    BY <2>1 DEF AInv, Phases, vars
  <2>4. UNCHANGED <<extents, supported, history>>
    BY <2>1 DEF vars
  <2>5. OnDisk' = OnDisk /\ (Answered => Answered')
    BY <2>1, <2>4, SameVolumes
  <2>6. \A seen : (Informed(seen) => Informed(seen)') /\ (Asked(seen) => Asked(seen)')
    BY <2>1, <2>4, SameVolumes
  <2>7. Informed(OnDisk) = Informed(OnDisk)' /\ Asked(OnDisk) = Asked(OnDisk)'
        /\ Informed(OnDisk \ to_look_at) = Informed(OnDisk \ to_look_at)'
        /\ Asked(OnDisk \ to_look_at) = Asked(OnDisk \ to_look_at)'
    BY <2>1, <2>4, <2>5 DEF Informed, Asked, FirstExtent
  <2>8. Learnt'
    BY <2>1, <2>4, <2>5, <2>7 DEF AInv, Learnt
  <2> QED
    BY <2>2, <2>3, <2>8 DEF AInv
<1> QED
  BY <1>1, <1>2

LEMMA MoveAInv ==
  AInv /\ step # "done" /\ MoveVolume /\ UNCHANGED <<parts, analysing>> => AInv'
<1> SUFFICES ASSUME AInv, step # "done", MoveVolume, UNCHANGED <<parts, analysing>> PROVE AInv'
  OBVIOUS
<1>1. UNCHANGED <<supported, pc, creating, shadows, guard, mapping>> /\ pc = "start"
  BY DEF MoveVolume, AInv, Phases
<1>2. extents' \in [Volumes -> ExtentLists] /\ Apart(extents)' /\ Histories' /\ ~Undisturbed'
  BY DEF MoveVolume, AInv, Typed, TypeOK, Apart, Histories
<1>3. Phases' /\ Learnt'
  BY <1>1, <1>2 DEF AInv, Phases, Learnt, analysing
<1> QED
  BY <1>1, <1>2, <1>3, BeforeClone DEF AInv

(* AInv holds initially and every step of the analysis and of the clone after it keeps it. *)
THEOREM AnalysisInductive == AnalysisSpec => []AInv
<1>1. AInv /\ [AnalysisNext]_allvars => AInv'
  BY AnalysisAInv, CloneAInv, MoveAInv DEF AnalysisNext
<1> QED
  BY <1>1, InitAInv, PTL DEF AnalysisSpec

LEMMA RangesKept ==
  ASSUME AInv, AnalysisTypeOK, [AnalysisNext]_allvars
  PROVE  AnalysisTypeOK'
<1> USE DEF AnalysisTypeOK
<1>1. to_look_at \subseteq found \/ step \notin {"info", "support"}
  BY DEF AInv, Phases
<1>2. CASE AnalysisStep
  <2>1. parts' = parts
    BY <1>2 DEF AnalysisStep, Untouched
  <2>2. CASE LookAtVolumes
    BY <2>1, <2>2 DEF LookAtVolumes
  <2>3. ASSUME NEW v \in Volumes, Find(v) PROVE AnalysisTypeOK'
    BY <2>1, <2>3 DEF Find, Looked, NotQueried
  <2>4. ASSUME NEW v \in Volumes, Inform(v) PROVE AnalysisTypeOK'
    <3>1. v \in found
      BY <1>1, <2>4 DEF Inform, Looked
    <3> QED
      BY <2>1, <2>4, <3>1 DEF Inform, Looked, NotQueried, With
  <2>5. ASSUME NEW v \in Volumes, AskVss(v) PROVE AnalysisTypeOK'
    BY <2>1, <2>5 DEF AskVss, Looked, NotQueried, With
  <2>6. CASE NextLoop("scan", "info") \/ NextLoop("info", "support") \/ NextLoop("support", "answer")
    BY <2>1, <2>6 DEF NextLoop
  <2>7. CASE Answer \/ AnalysisFails
    <3>1. DOMAIN answers' \subseteq Analysed
      BY <2>7 DEF Answer, AnalysisFails
    <3>2. UNCHANGED <<to_look_at, found, volume_info, vss_supported>>
      BY <2>7 DEF Answer, AnalysisFails
    <3> QED
      BY <2>1, <3>1, <3>2 DEF Analysed
  <2> QED
    BY <1>2, <2>2, <2>3, <2>4, <2>5, <2>6, <2>7 DEF AnalysisStep
<1>3. CASE UNCHANGED <<parts, analysing>>
  BY <1>3 DEF analysing
<1> QED
  BY <1>2, <1>3 DEF AnalysisNext, Clone, Settled, allvars

(* What the analysis keeps is about the volumes it found, and answers are about partitions in use. *)
THEOREM AnalysisTypeCorrect == AnalysisSpec => []AnalysisTypeOK
<1>1. AnalysisInit => AnalysisTypeOK
  BY DEF AnalysisInit, AnalysisTypeOK
<1>2. AInv /\ AnalysisTypeOK /\ [AnalysisNext]_allvars => AnalysisTypeOK'
  BY RangesKept
<1> QED
  BY <1>1, <1>2, AnalysisInductive, PTL DEF AnalysisSpec

-----------------------------------------------------------------------------
(***************************************************************************)
(* What the invariant says when the clone is about to stream: the map and  *)
(* the analysis hold the same volumes at the same places.                  *)
(***************************************************************************)
LEMMA SameKeys ==
  ASSUME AInv, Comparable, NEW k \in DOMAIN answers
  PROVE  /\ Informed(OnDisk) /\ Asked(OnDisk) /\ Answered
         /\ DOMAIN shadow_map = {FirstExtent(v).off : v \in OnDisk \cap supported}
         /\ \A v \in OnDisk \cap supported : shadow_map[FirstExtent(v).off] = v
<1>1. pc = "sink" /\ Undisturbed
  BY DEF Comparable
<1>2. step = "done" /\ to_map = {}
  BY <1>1 DEF AInv, Phases, Typed, Steps
<1>3. Informed(OnDisk) /\ Asked(OnDisk) /\ Answered
  BY <1>1, <1>2 DEF AInv, Learnt
<1>4. ASSUME NEW v \in Volumes
      PROVE  KeysOf(v) = IF v \in OnDisk \cap supported THEN {FirstExtent(v).off} ELSE {}
  <2>1. ExactOf(v)
    BY <1>1 DEF AInv, Exact
  <2> QED
    BY <1>1, <1>2, <2>1 DEF ExactOf, OnDisk
<1>5. \A off \in DOMAIN shadow_map : shadow_map[off] \in Volumes /\ off \in KeysOf(shadow_map[off])
  BY DEF AInv, Typed, TypeOK, KeysOf
<1>6. \A v \in OnDisk \cap supported :
        FirstExtent(v).off \in DOMAIN shadow_map /\ shadow_map[FirstExtent(v).off] = v
  BY <1>4 DEF OnDisk, KeysOf
<1>7. \A off \in DOMAIN shadow_map :
        /\ shadow_map[off] \in OnDisk \cap supported
        /\ off = FirstExtent(shadow_map[off]).off
  BY <1>4, <1>5
<1> QED
  BY <1>3, <1>6, <1>7

(* What is said of a partition that starts where a volume does is about that volume alone. *)
LEMMA Announced ==
  ASSUME AInv, Comparable, NEW k \in DOMAIN answers, HasShadowCopy(k)
  PROVE  answers[k].vss_supported = TRUE /\ answers[k].volumes = {shadow_map[parts[k].start]}
<1> DEFINE start == parts[k].start
<1>1. /\ Informed(OnDisk) /\ Asked(OnDisk) /\ Answered
      /\ DOMAIN shadow_map = {FirstExtent(v).off : v \in OnDisk \cap supported}
      /\ \A v \in OnDisk \cap supported : shadow_map[FirstExtent(v).off] = v
  BY SameKeys
<1>2. PICK v \in OnDisk \cap supported : start = FirstExtent(v).off
  BY <1>1 DEF HasShadowCopy
<1>3. start \in DOMAIN volume_info /\ volume_info[start] = v
  BY <1>1, <1>2 DEF Informed
<1>4. start \in DOMAIN vss_supported /\ vss_supported[start] = TRUE
  BY <1>1, <1>2 DEF Asked
<1>5. Keys(volume_info, k) = {start} /\ Keys(vss_supported, k) = {start}
  BY <1>3, <1>4 DEF Keys
<1>6. Verdicts(k) = {TRUE}
  BY <1>4, <1>5 DEF Verdicts
<1>7. Answers(k) = {[volumes |-> {v}, vss_supported |-> TRUE]}
  BY <1>3, <1>5, <1>6 DEF Answers
<1>8. answers[k] = [volumes |-> {v}, vss_supported |-> TRUE]
  BY <1>1, <1>7 DEF Answered
<1>9. shadow_map[start] = v
  BY <1>1, <1>2
<1> QED
  BY <1>8, <1>9

(***************************************************************************)
(* However many volumes and partitions there are, and however the entries  *)
(* of the table overlap: a partition that the stream will read from a      *)
(* shadow copy was announced to the user, with the right volume.           *)
(***************************************************************************)
THEOREM NeverUnderstatedCorrect == AnalysisSpec => []NeverUnderstated
<1>1. AInv => NeverUnderstated
  BY Announced DEF NeverUnderstated
<1> QED
  BY <1>1, AnalysisInductive, PTL

(* Where every volume is alone in a partition that starts with it, a yes has its shadow copy. *)
LEMMA YesIsTrue ==
  ASSUME AInv, Comparable, Regular, NEW k \in DOMAIN answers, answers[k].vss_supported = TRUE
  PROVE  HasShadowCopy(k)
<1>1. /\ Informed(OnDisk) /\ Asked(OnDisk) /\ Answered
      /\ DOMAIN shadow_map = {FirstExtent(v).off : v \in OnDisk \cap supported}
  BY SameKeys
<1>2. k \in Analysed /\ answers[k] \in Answers(k)
  BY <1>1 DEF Answered
<1>3. PICK yes \in Verdicts(k) : yes = TRUE
  BY <1>2 DEF Answers
<1>4. PICK off \in Keys(vss_supported, k) : vss_supported[off] = TRUE
  BY <1>3 DEF Verdicts
<1>5. off \in DOMAIN vss_supported
  BY <1>4 DEF Keys
<1>6. PICK v \in OnDisk : off = FirstExtent(v).off
  BY <1>1, <1>5 DEF Asked
<1>7. v \in supported
  BY <1>1, <1>4, <1>6 DEF Asked
<1>8. off = parts[k].start
  <2> SUFFICES ASSUME off # parts[k].start PROVE FALSE
    OBVIOUS
  <2>1. Inside(off, k)
    BY <1>4 DEF Keys
  <2>2. PICK l \in Analysed : /\ parts[l].start = off
                              /\ \A m \in Analysed : Inside(off, m) => m = l
    BY <1>6 DEF Regular, OnDisk
  <2> QED
    BY <1>2, <2>1, <2>2
<1> QED
  BY <1>1, <1>6, <1>7, <1>8 DEF HasShadowCopy

(***************************************************************************)
(* And where volumes and partitions correspond, what the user was told is  *)
(* what the clone does, of every partition that got an answer.             *)
(***************************************************************************)
THEOREM PredictionCorrect == AnalysisSpec => []PredictionHolds
<1>1. AInv => PredictionHolds
  BY Announced, YesIsTrue DEF PredictionHolds
<1> QED
  BY <1>1, AnalysisInductive, PTL
=============================================================================
