-------------------------------- MODULE Gui --------------------------------
(***************************************************************************)
(* DiskClone Visual (diskclone-visual/src/main.rs): the window, which runs *)
(* update once per frame on its own thread; the worker thread each clone   *)
(* starts; the two channels between them; the analysis thread each choice  *)
(* of a source disk starts.                                                *)
(*                                                                         *)
(* One frame is four steps: the worker's messages, the source disk row,    *)
(* the answer of the analysis, the controls of the phase.  The threads run *)
(* between any two of them.  Texts (status, error, paths, credentials) and *)
(* the progress counter are left out.                                      *)
(***************************************************************************)
EXTENDS Integers, Sequences

CONSTANTS
  Disks,      \* the physical drives of the machine
  PartNums,   \* the partition numbers in use
  Workers,    \* names for worker threads; an ended thread's name is used again
  None        \* Rust's None

ASSUME GuiAssumption == None \notin Disks \cup PartNums \cup Workers

VARIABLES
  frame,                \* the next step of update
  disks,                \* the drives found by "Load disks"
  phase,
  selected_source,
  dest_mode,
  target_disk,
  excluded_partitions,
  diagram_regions,      \* the disk whose layout the window shows
  snapshot_analysis,    \* the disk whose analysis the window shows
  analysis_rx,          \* the analysis waited for: None or [disk, state]
  worker_rx,            \* the worker whose messages the window reads
  confirm_tx,           \* the worker the window can still confirm to
  current,              \* the worker the last click on "Create snapshot" started
  worker,               \* for each worker [pc, source, config, finished]
  messages,             \* the channel of WorkerMsg of each worker, Status left out
  confirm               \* the channel to each worker: [open, queue]

shown   == <<disks, selected_source, dest_mode, target_disk, excluded_partitions>>
results == <<diagram_regions, snapshot_analysis, analysis_rx>>
links   == <<worker_rx, confirm_tx, current>>
threads == <<worker, messages, confirm>>
vars    == <<frame, phase, shown, results, links, threads>>

DestModes == {"Ssh", "LocalFile", "LocalDisk"}

Phases == {"Idle", "CreatingSnapshot", "Confirm", "Streaming", "Done", "Error"}

Configs == [dest_mode : DestModes, target_disk : Disks \cup {None},
            excluded_partitions : SUBSET PartNums]

WorkerPcs == {"create", "build", "recv", "dismissed", "stream", "finish", "unwind", "ended"}

(* A worker's thread is gone, and with it its snapshot. *)
NoWorker == [pc |-> "ended", source |-> None, config |-> None, finished |-> FALSE]

(* A channel whose sender is gone, and what the sender leaves in it before it goes. *)
Closed      == [open |-> FALSE, queue |-> <<>>]
LastSent(c) == [open |-> FALSE, queue |-> <<c>>]

HoldsSnapshot(w) ==
  worker[w].pc \in {"build", "recv", "dismissed", "stream", "finish", "unwind"}

Init ==
  /\ frame = "messages"
  /\ disks = {}
  /\ phase = "Idle"
  /\ selected_source = None
  /\ dest_mode = "Ssh"
  /\ target_disk = None
  /\ excluded_partitions = {}
  /\ diagram_regions = None
  /\ snapshot_analysis = None
  /\ analysis_rx = None
  /\ worker_rx = None
  /\ confirm_tx = None
  /\ current = None
  /\ worker = [w \in Workers |-> NoWorker]
  /\ messages = [w \in Workers |-> <<>>]
  /\ confirm = [w \in Workers |-> Closed]

-----------------------------------------------------------------------------
(***************************************************************************)
(* The worker thread: run_clone, and the message sent after it returns.    *)
(***************************************************************************)
At(w, l) == worker[w].pc = l

Goto(w, l) == worker' = [worker EXCEPT ![w].pc = l]

(* Mutant: one channel for all the clones of a window. *)
SendShared(w, m) ==
  messages' = [v \in Workers |-> IF v = worker_rx THEN Append(messages[v], m) ELSE messages[v]]

(* tx.send: lost, and the error ignored, once the window has dropped the receiver. *)
Send(w, m) ==
  messages' = [messages EXCEPT ![w] = IF worker_rx = w THEN Append(@, m) ELSE @]

WorkerOnly == UNCHANGED <<frame, phase, shown, results, links>>

(* get_disk_layout_from_disk and VssSnapshot::create_for_disk; either may fail. *)
CreateSnapshot(w) ==
  /\ At(w, "create")
  /\ \/ Goto(w, "build") /\ UNCHANGED messages
     \/ Goto(w, "ended") /\ Send(w, "Error")
  /\ UNCHANGED confirm
  /\ WorkerOnly

(* ImageBuilder::new, then the regions go to the window. *)
BuildImage(w) ==
  /\ At(w, "build")
  /\ \/ Goto(w, "recv") /\ Send(w, "DiagramReady")
     \/ Goto(w, "unwind") /\ UNCHANGED messages
  /\ UNCHANGED confirm
  /\ WorkerOnly

(***************************************************************************)
(* confirm_rx.recv() blocks until the window sends a configuration or      *)
(* drops its end.  A local disk clone without a target is refused here.    *)
(***************************************************************************)
ReceiveConfig(w) ==
  /\ At(w, "recv")
  /\ confirm[w].queue # <<>>
  /\ LET config == Head(confirm[w].queue) IN
       IF config.dest_mode = "LocalDisk" /\ config.target_disk = None
       THEN Goto(w, "dismissed") /\ Send(w, "Error")
       ELSE /\ worker' = [worker EXCEPT ![w].pc = "stream", ![w].config = config]
            /\ UNCHANGED messages
  /\ confirm' = [confirm EXCEPT ![w].queue = Tail(@)]
  /\ WorkerOnly

ReceiveNothing(w) ==
  /\ At(w, "recv")
  /\ confirm[w] = Closed
  /\ Goto(w, "dismissed")
  /\ Send(w, "Cancelled")
  /\ UNCHANGED confirm
  /\ WorkerOnly

(* run_clone has returned Ok(0) without a clone; the thread reports Done all the same. *)
Dismissed(w) ==
  /\ At(w, "dismissed")
  /\ Goto(w, "ended")
  /\ Send(w, "Done")
  /\ UNCHANGED confirm
  /\ WorkerOnly

(***************************************************************************)
(* The sink is opened and stream_to runs to its end; either may fail.  The *)
(* step may also never be taken: stream_to repeats a write of 0 bytes for  *)
(* ever, and a connection that has gone silent has no timeout.             *)
(***************************************************************************)
Stream(w) ==
  /\ At(w, "stream")
  /\ \E l \in {"finish", "unwind"} : Goto(w, l)
  /\ UNCHANGED <<messages, confirm>>
  /\ WorkerOnly

(* vss.finish() and Done; a clone whose finish fails is reported as failed. *)
FinishSnapshot(w) ==
  /\ At(w, "finish")
  /\ \/ /\ worker' = [worker EXCEPT ![w].pc = "ended", ![w].finished = TRUE]
        /\ Send(w, "Done")
     \/ Goto(w, "unwind") /\ UNCHANGED messages
  /\ UNCHANGED confirm
  /\ WorkerOnly

(* Mutant: the error is sent from inside run_clone, before the snapshot is dropped. *)
UnwindErrorFirst(w) ==
  /\ At(w, "unwind")
  /\ Goto(w, "dismissed")
  /\ Send(w, "Error")
  /\ UNCHANGED confirm
  /\ WorkerOnly

(* Mutant: the error of run_clone is not sent. *)
UnwindSilently(w) ==
  /\ At(w, "unwind")
  /\ Goto(w, "ended")
  /\ UNCHANGED <<messages, confirm>>
  /\ WorkerOnly

(* An error: the snapshot is dropped as run_clone returns, before the window hears of it. *)
Unwind(w) ==
  /\ At(w, "unwind")
  /\ Goto(w, "ended")
  /\ Send(w, "Error")
  /\ UNCHANGED confirm
  /\ WorkerOnly

WorkerStep(w) ==
  /\ frame # "closed"
  /\ \/ CreateSnapshot(w) \/ BuildImage(w) \/ ReceiveConfig(w) \/ ReceiveNothing(w)
     \/ Dismissed(w) \/ Stream(w) \/ FinishSnapshot(w) \/ Unwind(w)

(* analyze_snapshot_support answers, unless the window no longer waits for it. *)
Analyse ==
  /\ frame # "closed"
  /\ analysis_rx # None
  /\ analysis_rx.state = "running"
  /\ \E s \in {"ok", "error"} : analysis_rx' = [analysis_rx EXCEPT !.state = s]
  /\ UNCHANGED <<frame, phase, shown, diagram_regions, snapshot_analysis, links, threads>>

-----------------------------------------------------------------------------
(***************************************************************************)
(* update, first step: the messages that have arrived, until there is none *)
(* or one of the three that end a clone, after which the receiver is gone. *)
(***************************************************************************)
NextMessage(m) ==
  /\ frame = "messages"
  /\ worker_rx # None
  /\ messages[worker_rx] # <<>>
  /\ m = Head(messages[worker_rx])

Consume == messages' = [messages EXCEPT ![worker_rx] = Tail(@)]

(* Mutant: the receiver is put back after every message. *)
LastMessageKeepsReceiver ==
  /\ Consume
  /\ frame' = "source"
  /\ UNCHANGED worker_rx

LastMessage ==
  /\ worker_rx' = None
  /\ messages' = [messages EXCEPT ![worker_rx] = <<>>]
  /\ frame' = "source"

(* Mutant: the layout is looked up for the disk selected by now. *)
RegionsOfSelection == selected_source

RegionsReceived == worker[worker_rx].source

HandleDiagramReady ==
  /\ NextMessage("DiagramReady")
  /\ Consume
  /\ diagram_regions' = RegionsReceived
  /\ phase' = "Confirm"
  /\ UNCHANGED <<frame, shown, snapshot_analysis, analysis_rx, links, worker, confirm>>

HandleDone ==
  /\ NextMessage("Done")
  /\ LastMessage
  /\ phase' = "Done"
  /\ UNCHANGED <<shown, results, confirm_tx, current, worker, confirm>>

HandleError ==
  /\ NextMessage("Error")
  /\ LastMessage
  /\ phase' = "Error"
  /\ UNCHANGED <<shown, results, confirm_tx, current, worker, confirm>>

(* Mutant: the sender is kept until the next clone replaces it. *)
KeepConfirm == UNCHANGED <<confirm_tx, confirm>>

(* Drops the sender the window holds, if any: a closed channel ends the worker's recv. *)
DropConfirm ==
  /\ confirm_tx' = None
  /\ confirm' = [w \in Workers |-> IF w = confirm_tx THEN Closed ELSE confirm[w]]

HandleCancelled ==
  /\ NextMessage("Cancelled")
  /\ LastMessage
  /\ DropConfirm
  /\ phase' = "Idle"
  /\ diagram_regions' = None
  /\ UNCHANGED <<shown, snapshot_analysis, analysis_rx, current, worker>>

NoMessage ==
  /\ frame = "messages"
  /\ worker_rx # None => messages[worker_rx] = <<>>
  /\ frame' = "source"
  /\ UNCHANGED <<phase, shown, results, links, threads>>

(***************************************************************************)
(* Second step: "Load disks" while there are none, else the source row.    *)
(* load_disks returns with the phase Idle again: list_physical_disks never *)
(* fails, and the window is not drawn while it runs.                       *)
(***************************************************************************)
NoDisks == disks = {} /\ phase = "Idle"

LoadDisks ==
  /\ frame = "source"
  /\ NoDisks
  /\ disks' \in SUBSET Disks
  /\ frame' = "messages"
  /\ UNCHANGED <<phase, selected_source, dest_mode, target_disk, excluded_partitions, results,
                 links, threads>>

(* Mutant: an analysis that is still running is waited for instead of a new one. *)
AnalysisKeptWaiting(d) ==
  /\ snapshot_analysis' = None
  /\ analysis_rx' = IF analysis_rx = None THEN [disk |-> d, state |-> "running"] ELSE analysis_rx

(* A new analysis; the receiver of the one before is dropped. *)
NewAnalysis(d) ==
  /\ snapshot_analysis' = None
  /\ analysis_rx' = [disk |-> d, state |-> "running"]

(* A click on another disk than the selected one; a click on that one changes nothing. *)
SelectSource(d) ==
  /\ frame = "source"
  /\ ~NoDisks
  /\ d \in disks
  /\ d # selected_source
  /\ selected_source' = d
  /\ NewAnalysis(d)
  /\ excluded_partitions' = {}
  /\ frame' = "analysis"
  /\ UNCHANGED <<phase, disks, dest_mode, target_disk, diagram_regions, links, threads>>

SourceUnchanged ==
  /\ frame = "source"
  /\ frame' = IF NoDisks THEN "messages" ELSE "analysis"
  /\ UNCHANGED <<phase, shown, results, links, threads>>

(* Third step: the analysis is shown once it has arrived, also when it failed. *)
PollAnalysis ==
  /\ frame = "analysis"
  /\ IF selected_source # None /\ analysis_rx # None /\ analysis_rx.state # "running"
     THEN /\ analysis_rx' = None
          /\ snapshot_analysis' = IF analysis_rx.state = "ok"
                                  THEN analysis_rx.disk ELSE snapshot_analysis
     ELSE UNCHANGED <<analysis_rx, snapshot_analysis>>
  /\ frame' = "controls"
  /\ UNCHANGED <<phase, shown, diagram_regions, links, threads>>

-----------------------------------------------------------------------------
(* Fourth step: at most one click on the controls of the phase. *)
Click(p) ==
  /\ frame = "controls"
  /\ phase = p
  /\ frame' = "messages"

NoClick ==
  /\ frame = "controls"
  /\ frame' = "messages"
  /\ UNCHANGED <<phase, shown, results, links, threads>>

ToggleExcluded(pn) ==
  /\ Click("Confirm")
  /\ excluded_partitions' = IF pn \in excluded_partitions THEN excluded_partitions \ {pn}
                                                          ELSE excluded_partitions \cup {pn}
  /\ UNCHANGED <<phase, disks, selected_source, dest_mode, target_disk, results, links, threads>>

ChooseDestMode(m) ==
  /\ Click("Confirm")
  /\ dest_mode' = m
  /\ UNCHANGED <<phase, disks, selected_source, target_disk, excluded_partitions, results,
                 links, threads>>

(* The drives offered as a target leave out the selected source. *)
ChooseTarget(d) ==
  /\ Click("Confirm")
  /\ dest_mode = "LocalDisk"
  /\ d \in disks
  /\ d # selected_source
  /\ target_disk' = d
  /\ UNCHANGED <<phase, disks, selected_source, dest_mode, excluded_partitions, results, links,
                 threads>>

(* "Create snapshot": start_clone.  Its assignments drop the ends of the last clone. *)
StartClone(w) ==
  /\ Click("Idle")
  /\ selected_source # None
  /\ At(w, "ended")
  /\ phase' = "CreatingSnapshot"
  /\ worker_rx' = w
  /\ confirm_tx' = w
  /\ current' = w
  /\ worker' = [worker EXCEPT ![w] = [NoWorker EXCEPT !.pc = "create",
                                                      !.source = selected_source]]
  /\ messages' = [v \in Workers |-> <<>>]
  /\ confirm' = [v \in Workers |-> IF v = w THEN [open |-> TRUE, queue |-> <<>>]
                                   ELSE IF v = confirm_tx THEN Closed ELSE confirm[v]]
  /\ UNCHANGED <<shown, results>>

DestConfig == [dest_mode |-> dest_mode, target_disk |-> target_disk,
               excluded_partitions |-> excluded_partitions]

(* "Start clone": refused without a target, else send_confirm_and_start. *)
ConfirmClone ==
  /\ Click("Confirm")
  /\ ~(dest_mode = "LocalDisk" /\ target_disk = None)
  /\ IF confirm_tx # None
     THEN /\ confirm' = [confirm EXCEPT ![confirm_tx] = LastSent(DestConfig)]
          /\ confirm_tx' = None
          /\ phase' = "Streaming"
     ELSE UNCHANGED <<confirm, confirm_tx, phase>>
  /\ UNCHANGED <<shown, results, worker_rx, current, worker, messages>>

Cancel ==
  /\ Click("Confirm")
  /\ DropConfirm
  /\ phase' = "Idle"
  /\ diagram_regions' = None
  /\ excluded_partitions' = {}
  /\ UNCHANGED <<disks, selected_source, dest_mode, target_disk, snapshot_analysis, analysis_rx,
                 worker_rx, current, worker, messages>>

(* "Clone another" and "Retry". *)
Again ==
  /\ \E p \in {"Done", "Error"} : Click(p)
  /\ phase' = "Idle"
  /\ UNCHANGED <<shown, results, links, threads>>

Messages == HandleDiagramReady \/ HandleDone \/ HandleError \/ HandleCancelled \/ NoMessage

Source == LoadDisks \/ (\E d \in Disks : SelectSource(d)) \/ SourceUnchanged

Controls ==
  \/ NoClick \/ ConfirmClone \/ Cancel \/ Again
  \/ \E pn \in PartNums : ToggleExcluded(pn)
  \/ \E m \in DestModes : ChooseDestMode(m)
  \/ \E d \in Disks : ChooseTarget(d)
  \/ \E w \in Workers : StartClone(w)

Update == Messages \/ Source \/ PollAnalysis \/ Controls

(***************************************************************************)
(* The window is closed, which it never refuses: run_native and main       *)
(* return, and the threads end where they are, with the process.           *)
(***************************************************************************)
CloseWindow ==
  /\ frame = "messages"
  /\ frame' = "closed"
  /\ UNCHANGED <<phase, shown, results, links, threads>>

Over == frame = "closed" /\ UNCHANGED vars

Next == Update \/ CloseWindow \/ Analyse \/ (\E w \in Workers : WorkerStep(w)) \/ Over

(***************************************************************************)
(* Fairness.  Every thread goes on and the system calls return; only for   *)
(* stream_to is nothing promised, which may never return.                  *)
(* Another frame is certain only when update asked for it: in the three    *)
(* busy phases and while an analysis is out.  In any other phase a frame   *)
(* is drawn when the user does something, which may never happen.          *)
(***************************************************************************)
(* Mutant: a repaint is requested while streaming only. *)
RepaintWhileStreaming == phase = "Streaming"

RepaintRequested ==
  phase \in {"Streaming", "CreatingSnapshot", "Confirm"} \/ analysis_rx # None

Fairness ==
  /\ WF_vars(Update /\ (frame = "messages" => RepaintRequested))
  /\ WF_vars(Analyse)
  /\ \A w \in Workers : WF_vars(WorkerStep(w) /\ ~At(w, "stream"))

Spec == Init /\ [][Next]_vars /\ Fairness

-----------------------------------------------------------------------------
WorkerMsgs == {"DiagramReady", "Done", "Error", "Cancelled"}

(* The range of every variable; a channel holds no more than one thing sent per worker step. *)
TypeOK ==
  /\ frame \in {"messages", "source", "analysis", "controls", "closed"}
  /\ disks \subseteq Disks
  /\ phase \in Phases
  /\ selected_source \in Disks \cup {None}
  /\ dest_mode \in DestModes
  /\ target_disk \in Disks \cup {None}
  /\ excluded_partitions \subseteq PartNums
  /\ diagram_regions \in Disks \cup {None}
  /\ snapshot_analysis \in Disks \cup {None}
  /\ analysis_rx \in [disk : Disks, state : {"running", "ok", "error"}] \cup {None}
  /\ worker_rx \in Workers \cup {None}
  /\ confirm_tx \in Workers \cup {None}
  /\ current \in Workers \cup {None}
  /\ \A w \in Workers :
       /\ worker[w].pc \in WorkerPcs
       /\ worker[w].source \in IF worker[w].pc = "ended" THEN Disks \cup {None} ELSE Disks
       /\ worker[w].config \in Configs \cup {None}
       /\ worker[w].finished \in BOOLEAN
       /\ Len(messages[w]) <= 3 /\ \A i \in 1..Len(messages[w]) : messages[w][i] \in WorkerMsgs
       /\ confirm[w].open \in BOOLEAN
       /\ confirm[w].queue \in {<<>>} \cup {<<c>> : c \in Configs}

(***************************************************************************)
(* While the window asks for a confirmation there is a worker waiting for  *)
(* it, both channels lead to that worker, and the layout on display is the *)
(* one of the disk that worker will clone.                                 *)
(***************************************************************************)
ConfirmReachesWorker ==
  phase = "Confirm" =>
    /\ worker_rx # None
    /\ confirm_tx = worker_rx
    /\ At(worker_rx, "recv")
    /\ confirm[worker_rx] = [open |-> TRUE, queue |-> <<>>]
    /\ diagram_regions = worker[worker_rx].source

(***************************************************************************)
(* "Done" is shown only for a clone that was streamed to its end and whose *)
(* snapshot was finished, although a worker that was cancelled or refused  *)
(* sends Done as well: that message must never be read.                    *)
(***************************************************************************)
DoneMeansCloned ==
  phase = "Done" => current # None /\ At(current, "ended") /\ worker[current].finished

(* No clone runs out of sight: who writes to a destination is followed by the window. *)
StreamsInSight ==
  \A w \in Workers : worker[w].pc \in {"stream", "finish"} =>
    phase = "Streaming" /\ worker_rx = w /\ current = w

(***************************************************************************)
(* A worker that waits, and with it its snapshot, is never forgotten: its  *)
(* channel has been answered or closed, or the window still leads to it.   *)
(***************************************************************************)
NoForgottenWorker ==
  \A w \in Workers : At(w, "recv") /\ confirm[w] = [open |-> TRUE, queue |-> <<>>] =>
    /\ confirm_tx = w
    /\ worker_rx = w
    /\ phase \in {"CreatingSnapshot", "Confirm"}

(* The analysis shown or waited for is the one of the selected disk, however often it changed. *)
AnalysisOfSelection ==
  /\ snapshot_analysis \in {None, selected_source}
  /\ analysis_rx # None => analysis_rx.disk = selected_source

(***************************************************************************)
(* Two snapshots are held at once only when the older clone was cancelled, *)
(* never confirmed, and its worker has not come to an end yet.             *)
(***************************************************************************)
OverlapOnlyAfterCancel ==
  \A w \in Workers : HoldsSnapshot(w) /\ w # current =>
    /\ worker[w].pc \in {"recv", "dismissed"}
    /\ worker[w].config = None
    /\ confirm[w] = Closed

(* While the window is open the wait for a snapshot ends: in a question to the user or an error. *)
SnapshotAnswered ==
  phase = "CreatingSnapshot" ~> (phase \in {"Confirm", "Error"} \/ frame = "closed")

(***************************************************************************)
(* A clone under way is reported as done or as failed, unless the window   *)
(* is closed or stream_to never returns.                                   *)
(***************************************************************************)
StreamNeverReturns == <>[](\E w \in Workers : At(w, "stream"))

CloneAnswered ==
  (phase = "Streaming" ~> (phase \in {"Done", "Error"} \/ frame = "closed"))
    \/ StreamNeverReturns

(* A worker the window has turned away from ends, and releases its snapshot. *)
AbandonedWorkerEnds ==
  \A w \in Workers : (HoldsSnapshot(w) /\ phase = "Idle") ~> (At(w, "ended") \/ frame = "closed")
=============================================================================
