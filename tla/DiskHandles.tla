---------------------------- MODULE DiskHandles ----------------------------
(***************************************************************************)
(* Who has a physical disk open, and how (src/disk.rs, ImageBuilder::new   *)
(* and Drop, LocalDiskSink): the list of disks, the threads that analyse a *)
(* disk and the threads that clone one, each of them a thread here.        *)
(*                                                                         *)
(* Windows lets a disk be opened only if what is asked for is shared by    *)
(* every handle that is open, and what they do is shared by the new one.   *)
(***************************************************************************)
EXTENDS Integers

CONSTANTS
  Disks,     \* the physical disks
  Threads,   \* the analyses and clones that are started
  None       \* no disk

ASSUME HandlesAssumption == None \notin Disks /\ None \notin Threads

VARIABLES
  handles,   \* the open handles: [disk, by, use]
  at,        \* for each thread, where it is
  source,    \* for each thread, the disk it analyses or clones
  to_list,   \* the disks list_physical_disks has still to come to
  listing    \* the disk it has open, or None

vars == <<handles, at, source, to_list, listing>>

Uses == {"list", "layout", "builder", "sink"}

Handle(d, t, use) == [disk |-> d, by |-> t, use |-> use]

Access(use) == IF use = "sink" THEN {"write"} ELSE {"read"}

(* Mutant: everything is shared, as is the advice for disk devices. *)
ShareAll(use) == {"read", "write"}

(* open_physical_disk shares reading, LocalDiskSink::new writing. *)
Share(use) == IF use = "sink" THEN {"write"} ELSE {"read"}

Shareable(d, use) ==
  \A h \in handles : h.disk = d =>
    Access(use) \subseteq Share(h.use) /\ Access(h.use) \subseteq Share(use)

Open(d, t, use) ==
  /\ Shareable(d, use)
  /\ handles' = handles \cup {Handle(d, t, use)}

Goto(t, l) == at' = [at EXCEPT ![t] = l]

Init ==
  /\ handles = {}
  /\ at = [t \in Threads |-> "start"]
  /\ source \in [Threads -> Disks]
  /\ to_list = Disks
  /\ listing = None

-----------------------------------------------------------------------------
(* list_physical_disks: each disk in turn, in any order here, is opened if it can be. *)
ListOpen(d) ==
  /\ listing = None
  /\ d \in to_list
  /\ to_list' = to_list \ {d}
  /\ \/ Open(d, None, "list") /\ listing' = d
     \/ UNCHANGED <<handles, listing>>
  /\ UNCHANGED <<at, source>>

(* Mutant: the disk is closed only when its size could be had. *)
ListCloseIfSized == \/ handles' = handles \ {Handle(listing, None, "list")}
                    \/ UNCHANGED handles

ListClosed == handles' = handles \ {Handle(listing, None, "list")}

ListClose ==
  /\ listing # None
  /\ ListClosed
  /\ listing' = None
  /\ UNCHANGED <<at, source, to_list>>

-----------------------------------------------------------------------------
Thread(t) == UNCHANGED <<source, to_list, listing>>

(* get_disk_layout_from_disk; any call may fail, and then the thread ends. *)
OpenForLayout(t) ==
  /\ at[t] = "start"
  /\ \/ Open(source[t], t, "layout") /\ Goto(t, "layout")
     \/ Goto(t, "ended") /\ UNCHANGED handles
  /\ Thread(t)

(* The handle is closed behind the query, which an error of the query skips. *)
LayoutOk(t) ==
  /\ at[t] = "layout"
  /\ handles' = handles \ {Handle(source[t], t, "layout")}
  /\ Goto(t, "builder") \/ Goto(t, "ended")   \* a clone goes on, an analysis does not
  /\ Thread(t)

QueryFails(t) ==
  /\ at[t] \in {"layout", "new"}
  /\ Goto(t, "failed")
  /\ UNCHANGED handles
  /\ Thread(t)

(* ImageBuilder::new, after the snapshot was made or not. *)
OpenForBuilder(t) ==
  /\ at[t] = "builder"
  /\ \/ Open(source[t], t, "builder") /\ Goto(t, "new")
     \/ Goto(t, "ended") /\ UNCHANGED handles
  /\ Thread(t)

(* The layout and the shadow map are there: from now on Drop closes the handle. *)
BuilderMade(t) ==
  /\ at[t] = "new"
  /\ Goto(t, "made")
  /\ UNCHANGED handles
  /\ Thread(t)

(* LocalDiskSink::new on any disk, the source included. *)
OpenTarget(t, d) ==
  /\ at[t] = "made"
  /\ Open(d, t, "sink")
  /\ Goto(t, "stream")
  /\ Thread(t)

SinkDropped(t) ==
  /\ at[t] = "stream"
  /\ handles' = {h \in handles : ~(h.by = t /\ h.use = "sink")}
  /\ Goto(t, "made")
  /\ Thread(t)

(* After a clone, to wherever it was, or without one. *)
BuilderDropped(t) ==
  /\ at[t] = "made"
  /\ handles' = handles \ {Handle(source[t], t, "builder")}
  /\ Goto(t, "ended")
  /\ Thread(t)

ThreadStep(t) ==
  \/ OpenForLayout(t) \/ LayoutOk(t) \/ QueryFails(t) \/ OpenForBuilder(t) \/ BuilderMade(t)
  \/ (\E d \in Disks : OpenTarget(t, d)) \/ SinkDropped(t) \/ BuilderDropped(t)

Over ==
  /\ to_list = {}
  /\ listing = None
  /\ \A t \in Threads : at[t] \in {"ended", "failed"}
  /\ UNCHANGED vars

Next ==
  \/ \E d \in Disks : ListOpen(d)
  \/ ListClose
  \/ \E t \in Threads : ThreadStep(t)
  \/ Over

Spec == Init /\ [][Next]_vars

-----------------------------------------------------------------------------
(* The range of every variable. *)
TypeOK ==
  /\ handles \subseteq [disk : Disks, by : Threads \cup {None}, use : Uses]
  /\ at \in [Threads -> {"start", "layout", "builder", "new", "made", "stream", "ended", "failed"}]
  /\ source \in [Threads -> Disks]
  /\ to_list \subseteq Disks
  /\ listing \in (Disks \cup {None}) \ to_list

(***************************************************************************)
(* While an image is built of a disk nobody has it open for writing:       *)
(* neither another clone that has it for its target, nor the same one, for *)
(* which nothing else keeps the target from being the source.              *)
(***************************************************************************)
SourceProtected ==
  \A g, h \in handles : g.disk = h.disk /\ g.use = "builder" => "write" \notin Access(h.use)

(***************************************************************************)
(* A handle stays open behind the code that opened it only when a query of *)
(* the layout or the shadow map has failed.                                *)
(***************************************************************************)
InUse(h) ==
  \/ h.use = "list"    /\ listing = h.disk
  \/ h.use = "layout"  /\ at[h.by] = "layout"
  \/ h.use = "builder" /\ at[h.by] \in {"new", "made", "stream"}
  \/ h.use = "sink"    /\ at[h.by] = "stream"

LostOnlyByFailedQuery == \A h \in handles : InUse(h) \/ (h.by # None /\ at[h.by] = "failed")
=============================================================================
