----------------------------- MODULE Gui_proofs -----------------------------
(***************************************************************************)
(* Proofs about DiskClone Visual for any set of drives, partition numbers  *)
(* and worker threads.                                                     *)
(***************************************************************************)
EXTENDS Gui, SequenceTheorems, TLAPS

(***************************************************************************)
(* The inductive invariant.  None of the window's safety properties is     *)
(* inductive: each depends on which messages a worker may still have in    *)
(* its channel, and that depends on how far the worker is and on what the  *)
(* window has answered it.  Followed is that table: a row for each phase   *)
(* in which the window reads the messages of a worker.  Any other worker   *)
(* is on its way out (Dismissable).                                        *)
(***************************************************************************)
Mail == {<<>>, <<"DiagramReady">>, <<"Done">>, <<"Error">>, <<"Cancelled">>,
         <<"Cancelled", "Done">>}

Queues == {<<>>} \cup {<<c>> : c \in Configs}

WorkerStates == [pc : WorkerPcs, source : Disks \cup {None}, config : Configs \cup {None},
                 finished : BOOLEAN]

Shapes ==
  /\ phase \in Phases
  /\ worker_rx \in Workers \cup {None}
  /\ confirm_tx \in Workers \cup {None}
  /\ current \in Workers \cup {None}
  /\ worker \in [Workers -> WorkerStates]
  /\ messages \in [Workers -> Mail]
  /\ confirm \in [Workers -> [open : BOOLEAN, queue : Queues]]
  /\ \A w \in Workers : worker[w].pc # "ended" => worker[w].source \in Disks

(* The ends of the channels the window holds are those of the current clone. *)
Ends ==
  /\ worker_rx # None => worker_rx = current
  /\ confirm_tx # None => confirm_tx = current
  /\ \A w \in Workers :
       /\ w # worker_rx => messages[w] = <<>>
       /\ w = confirm_tx => confirm[w] = [open |-> TRUE, queue |-> <<>>]
       /\ w # confirm_tx => confirm[w].open = FALSE
       /\ \A c \in Configs : confirm[w].queue = <<c>> =>
            ~(c.dest_mode = "LocalDisk" /\ c.target_disk = None)

Dismissable(w) ==
  /\ worker[w].pc \in {"recv", "dismissed", "ended"}
  /\ worker[w].pc # "ended" => worker[w].config = None /\ confirm[w] = Closed

Bystanders ==
  \A w \in Workers : w # current \/ phase \in {"Idle", "Done", "Error"} => Dismissable(w)

Creating(w) ==
  /\ worker[w].config = None
  /\ \/ worker[w].pc \in {"create", "build", "unwind"} /\ messages[w] = <<>>
     \/ worker[w].pc = "recv" /\ messages[w] = <<"DiagramReady">>
     \/ worker[w].pc = "ended" /\ messages[w] = <<"Error">>

Asking(w) ==
  /\ worker[w].config = None
  /\ worker[w].pc = "recv"
  /\ messages[w] = <<>>
  /\ diagram_regions = worker[w].source

Cloning(w) ==
  \/ worker[w].pc = "recv" /\ messages[w] = <<>> /\ confirm[w].queue # <<>>
  \/ worker[w].pc \in {"stream", "finish", "unwind"} /\ messages[w] = <<>>
  \/ worker[w].pc = "ended" /\ messages[w] = <<"Error">>
  \/ worker[w].pc = "ended" /\ messages[w] = <<"Done">> /\ worker[w].finished

Leaving(w) ==
  \/ worker[w].pc = "recv" /\ messages[w] = <<>>
  \/ worker[w].pc = "dismissed" /\ messages[w] = <<"Cancelled">>
  \/ worker[w].pc = "ended" /\ messages[w] = <<"Cancelled", "Done">>

Followed ==
  /\ phase \in {"CreatingSnapshot", "Confirm", "Streaming"} => worker_rx # None
  /\ phase \in {"Done", "Error"} => worker_rx = None
  /\ phase \in {"CreatingSnapshot", "Confirm"} => confirm_tx = worker_rx
  /\ phase = "Streaming" => confirm_tx = None
  /\ \A w \in Workers : w = worker_rx =>
       /\ phase = "CreatingSnapshot" => Creating(w)
       /\ phase = "Confirm" => Asking(w)
       /\ phase = "Streaming" => Cloning(w)
       /\ phase = "Idle" => Leaving(w)
  /\ phase = "Done" => current # None /\ At(current, "ended") /\ worker[current].finished

Core == Shapes /\ Ends /\ Bystanders /\ Followed

-----------------------------------------------------------------------------
(* The messages that can be in a channel, taken apart. *)
LEMMA CancelledDone == Append(<<"Cancelled">>, "Done") = <<"Cancelled", "Done">>
<1> DEFINE S == {"Cancelled", "Done"}
           s == Append(<<"Cancelled">>, "Done")
           t == <<"Cancelled", "Done">>
<1>1. <<"Cancelled">> \in Seq(S) /\ Len(<<"Cancelled">>) = 1 /\ <<"Cancelled">>[1] = "Cancelled"
  OBVIOUS
<1>2. t \in Seq(S) /\ Len(t) = 2 /\ t[1] = "Cancelled" /\ t[2] = "Done"
  OBVIOUS
<1>3. s \in Seq(S) /\ Len(s) = 2 /\ s[1] = "Cancelled" /\ s[2] = "Done"
  BY <1>1, AppendProperties
<1> HIDE DEF s, t
<1>4. \A i \in 1..Len(s) : s[i] = t[i]
  BY <1>2, <1>3
<1>5. s = t
  BY <1>2, <1>3, <1>4, SeqEqual
<1> QED
  BY <1>5 DEF s, t

LEMMA MailFacts ==
  /\ \A m : Append(<<>>, m) = <<m>> /\ Head(<<m>>) = m /\ Tail(<<m>>) = <<>> /\ <<m>> # <<>>
  /\ \A a, b : Head(<<a, b>>) = a /\ Tail(<<a, b>>) = <<b>> /\ <<a, b>> # <<>>
  /\ \A a, b, c : <<a>> # <<b, c>>
  /\ \A a, b : <<a>> = <<b>> => a = b
<1>1. \A m : Append(<<>>, m) = <<m>> /\ Head(<<m>>) = m /\ Tail(<<m>>) = <<>> /\ <<m>> # <<>>
  OBVIOUS
<1>2. \A a, b : Head(<<a, b>>) = a /\ Tail(<<a, b>>) = <<b>> /\ <<a, b>> # <<>>
  OBVIOUS
<1>3. \A a, b, c : <<a>> # <<b, c>>
  OBVIOUS
<1>4. \A a, b : <<a>> = <<b>> => a = b
  OBVIOUS
<1> QED
  BY ONLY <1>1, <1>2, <1>3, <1>4

(* A worker that is not being dismissed is the one the window follows. *)
LEMMA Busy ==
  ASSUME Core, NEW w \in Workers, worker[w].pc \notin {"recv", "dismissed", "ended"}
  PROVE  /\ w = current /\ w = worker_rx /\ messages[w] = <<>>
         /\ \/ /\ phase = "CreatingSnapshot" /\ confirm_tx = w /\ worker[w].config = None
               /\ worker[w].pc \in {"create", "build", "unwind"}
            \/ /\ phase = "Streaming" /\ confirm_tx = None
               /\ worker[w].pc \in {"stream", "finish", "unwind"}
<1>1. w = current /\ phase \in {"CreatingSnapshot", "Confirm", "Streaming"}
  BY DEF Core, Bystanders, Dismissable, Shapes, Phases
<1>2. worker_rx = w
  BY <1>1 DEF Core, Followed, Ends
<1>3. phase # "Confirm"
  BY <1>2 DEF Core, Followed, Asking
<1>4. CASE phase = "CreatingSnapshot"
  BY <1>1, <1>2, <1>4, MailFacts DEF Core, Followed, Creating
<1>5. CASE phase = "Streaming"
  BY <1>1, <1>2, <1>5, MailFacts DEF Core, Followed, Cloning
<1> QED
  BY <1>1, <1>3, <1>4, <1>5

(* Where a worker can be that has not been answered, or was dismissed. *)
LEMMA Receiving ==
  ASSUME Core, NEW w \in Workers, worker[w].pc \in {"recv", "dismissed"}
  PROVE  \/ worker_rx # w /\ worker[w].config = None /\ confirm[w] = Closed
         \/ /\ worker_rx = w /\ current = w /\ phase = "Idle"
            /\ worker[w].config = None /\ confirm[w] = Closed
            /\ messages[w] = IF worker[w].pc = "recv" THEN <<>> ELSE <<"Cancelled">>
         \/ /\ worker_rx = w /\ current = w /\ phase \in {"CreatingSnapshot", "Confirm"}
            /\ worker[w].pc = "recv" /\ confirm_tx = w
         \/ /\ worker_rx = w /\ current = w /\ phase = "Streaming" /\ confirm_tx = None
            /\ worker[w].pc = "recv" /\ messages[w] = <<>> /\ confirm[w].queue # <<>>
<1>1. CASE worker_rx # w
  <2>1. w # current \/ phase \in {"Idle", "Done", "Error"}
    BY <1>1 DEF Core, Followed, Ends, Shapes, Phases
  <2> QED
    BY <1>1, <2>1 DEF Core, Bystanders, Dismissable
<1>2. CASE worker_rx = w
  <2>1. current = w /\ w # None
    BY <1>2, GuiAssumption DEF Core, Ends
  <2>2. phase \in {"Idle", "CreatingSnapshot", "Confirm", "Streaming"}
    BY <1>2, <2>1 DEF Core, Followed, Shapes, Phases
  <2>3. CASE phase = "Idle"
    BY <1>2, <2>1, <2>3 DEF Core, Followed, Leaving, Bystanders, Dismissable
  <2>4. CASE phase \in {"CreatingSnapshot", "Confirm"}
    BY <1>2, <2>1, <2>4 DEF Core, Followed, Creating, Asking
  <2>5. CASE phase = "Streaming"
    BY <1>2, <2>1, <2>5 DEF Core, Followed, Cloning
  <2> QED
    BY <2>2, <2>3, <2>4, <2>5
<1> QED
  BY <1>1, <1>2

LEMMA CoreUnchanged ==
  ASSUME Core, UNCHANGED <<phase, diagram_regions, links, threads>>
  PROVE  Core'
  BY DEF Core, Shapes, Ends, Bystanders, Dismissable, Followed, Creating, Asking, Cloning,
         Leaving, At, links, threads

-----------------------------------------------------------------------------
(***************************************************************************)
(* A step of one worker: it moves on, may send one message and may take    *)
(* the configuration out of its channel.                                   *)
(***************************************************************************)
LEMMA WorkerMoved ==
  ASSUME Core, NEW w \in Workers, UNCHANGED <<phase, diagram_regions, links>>,
         NEW s \in WorkerStates, worker' = [worker EXCEPT ![w] = s],
         NEW m \in Mail, messages' = [messages EXCEPT ![w] = m],
         NEW q \in Queues, confirm' = [confirm EXCEPT ![w].queue = q],
         q \in {<<>>, confirm[w].queue},
         s.pc # "ended" => s.source \in Disks,
         w # worker_rx => m = <<>>,
         w # current \/ phase \in {"Idle", "Done", "Error"} => Dismissable(w)',
         w = worker_rx => /\ phase = "CreatingSnapshot" => Creating(w)'
                          /\ phase = "Confirm" => Asking(w)'
                          /\ phase = "Streaming" => Cloning(w)'
                          /\ phase = "Idle" => Leaving(w)',
         phase = "Done" => w # current
  PROVE  Core'
<1>1. /\ worker'[w] = s /\ messages'[w] = m
      /\ confirm'[w].queue = q /\ confirm'[w].open = confirm[w].open
      /\ \A v \in Workers : v # w => /\ worker'[v] = worker[v] /\ messages'[v] = messages[v]
                                     /\ confirm'[v] = confirm[v]
  BY DEF Core, Shapes
<1>2. Shapes'
  <2>1. worker' \in [Workers -> WorkerStates]
    BY DEF Core, Shapes
  <2>2. messages' \in [Workers -> Mail]
    BY DEF Core, Shapes
  <2>3. confirm' \in [Workers -> [open : BOOLEAN, queue : Queues]]
    BY DEF Core, Shapes
  <2> QED
    BY <1>1, <2>1, <2>2, <2>3 DEF Core, Shapes, links
<1>3. Ends'
  BY <1>1, MailFacts DEF Core, Ends, links
<1>4. Bystanders'
  <2> SUFFICES ASSUME NEW v \in Workers, v # current \/ phase \in {"Idle", "Done", "Error"}
               PROVE  Dismissable(v)'
    BY DEF Bystanders, links
  <2>1. CASE v = w
    BY <2>1
  <2>2. CASE v # w
    BY <1>1, <2>2 DEF Core, Bystanders, Dismissable, Closed
  <2> QED
    BY <2>1, <2>2
<1>5. Followed'
  <2>1. ASSUME NEW v \in Workers, v = worker_rx
        PROVE  /\ phase = "CreatingSnapshot" => Creating(v)'
               /\ phase = "Confirm" => Asking(v)'
               /\ phase = "Streaming" => Cloning(v)'
               /\ phase = "Idle" => Leaving(v)'
    <3>1. CASE v = w
      BY <2>1, <3>1
    <3>2. CASE v # w
      BY <1>1, <2>1, <3>2 DEF Core, Followed, Creating, Asking, Cloning, Leaving
    <3> QED
      BY <3>1, <3>2
  <2>2. phase = "Done" => current # None /\ At(current, "ended")' /\ worker'[current].finished
    BY <1>1 DEF Core, Followed, Shapes, At, links
  <2> QED
    BY <2>1, <2>2 DEF Core, Followed, links, At
<1> QED
  BY <1>2, <1>3, <1>4, <1>5 DEF Core

(* What tx.send does to the channel of a worker, followed by the window or not. *)
LEMMA SendFacts ==
  ASSUME Core, NEW w \in Workers, NEW m, Send(w, m)
  PROVE  messages' = [messages EXCEPT ![w] = IF worker_rx = w THEN Append(messages[w], m)
                                                              ELSE <<>>]
<1>1. messages \in [Workers -> Mail] /\ (worker_rx # w => messages[w] = <<>>)
  BY DEF Core, Shapes, Ends
<1> QED
  BY <1>1 DEF Send

LEMMA Unsent ==
  ASSUME Core, NEW w \in Workers, UNCHANGED messages
  PROVE  messages' = [messages EXCEPT ![w] = messages[w]] /\ messages[w] \in Mail
  BY DEF Core, Shapes

LEMMA Unanswered ==
  ASSUME Core, NEW w \in Workers, UNCHANGED confirm
  PROVE  confirm' = [confirm EXCEPT ![w].queue = confirm[w].queue] /\ confirm[w].queue \in Queues
<1>1. confirm \in [Workers -> [open : BOOLEAN, queue : Queues]]
  BY DEF Core, Shapes
<1> QED
  BY <1>1

LEMMA MovedTo ==
  ASSUME Core, NEW w \in Workers, NEW l \in WorkerPcs, Goto(w, l)
  PROVE  /\ worker' = [worker EXCEPT ![w] = [worker[w] EXCEPT !.pc = l]]
         /\ [worker[w] EXCEPT !.pc = l] \in WorkerStates
         /\ worker'[w] = [worker[w] EXCEPT !.pc = l]
         /\ worker'[w].pc = l /\ worker'[w].config = worker[w].config
         /\ worker'[w].source = worker[w].source /\ worker'[w].finished = worker[w].finished
  BY DEF Core, Shapes, Goto, WorkerStates

(* A step of the followed worker of a clone under way. *)
LEMMA BusyMoved ==
  ASSUME Core, NEW w \in Workers, UNCHANGED <<phase, diagram_regions, links, confirm>>,
         worker[w].pc \notin {"recv", "dismissed", "ended"},
         NEW s \in WorkerStates, worker' = [worker EXCEPT ![w] = s],
         s.source = worker[w].source, s.config = worker[w].config,
         \/ UNCHANGED messages /\ s.pc \in {"build", "finish", "unwind"}
         \/ Send(w, "Error") /\ s.pc = "ended"
         \/ Send(w, "Done") /\ s.pc = "ended" /\ s.finished /\ phase = "Streaming"
         \/ Send(w, "DiagramReady") /\ s.pc = "recv" /\ phase = "CreatingSnapshot",
         phase = "CreatingSnapshot" => s.pc # "finish",
         phase = "Streaming" => s.pc # "build"
  PROVE  Core'
<1>1. /\ w = current /\ w = worker_rx /\ messages[w] = <<>>
      /\ phase \in {"CreatingSnapshot", "Streaming"}
      /\ phase = "CreatingSnapshot" => worker[w].config = None
  BY Busy
<1>2. PICK m \in Mail : messages' = [messages EXCEPT ![w] = m]
                        /\ \/ m = <<>> /\ s.pc \in {"build", "finish", "unwind"}
                           \/ m = <<"Error">> /\ s.pc = "ended"
                           \/ m = <<"Done">> /\ s.pc = "ended" /\ s.finished /\ phase = "Streaming"
                           \/ m = <<"DiagramReady">> /\ s.pc = "recv" /\ phase = "CreatingSnapshot"
  <2>1. CASE UNCHANGED messages /\ s.pc \in {"build", "finish", "unwind"}
    <3>1. messages' = [messages EXCEPT ![w] = <<>>]
      BY <1>1, <2>1, Unsent
    <3> QED
      BY <2>1, <3>1 DEF Mail
  <2>2. ASSUME NEW x \in {"Error", "Done", "DiagramReady"}, Send(w, x)
        PROVE  messages' = [messages EXCEPT ![w] = <<x>>] /\ <<x>> \in Mail
    <3>1. messages' = [messages EXCEPT ![w] = Append(messages[w], x)]
      BY <1>1, <2>2, SendFacts
    <3> QED
      BY <1>1, <2>2, <3>1, MailFacts DEF Mail
  <2> QED
    BY <2>1, <2>2
<1>3. messages'[w] = m /\ worker'[w] = s
  BY <1>2 DEF Core, Shapes
<1>4. /\ phase = "CreatingSnapshot" => Creating(w)'
      /\ phase = "Streaming" => Cloning(w)'
  BY <1>1, <1>2, <1>3 DEF Creating, Cloning
<1>5. worker[w].source \in Disks
  BY DEF Core, Shapes
<1>6. /\ confirm' = [confirm EXCEPT ![w].queue = confirm[w].queue]
      /\ confirm[w].queue \in Queues
  BY Unanswered
<1>7. s.pc # "ended" => s.source \in Disks
  BY <1>5
<1>8. UNCHANGED <<phase, diagram_regions, links>>
  OBVIOUS
<1> DEFINE q == confirm[w].queue
<1>9. q \in Queues /\ confirm' = [confirm EXCEPT ![w].queue = q] /\ q \in {<<>>, confirm[w].queue}
  BY <1>6
<1> HIDE DEF q
<1> QED
  BY <1>1, <1>2, <1>4, <1>7, <1>8, <1>9, WorkerMoved

(* A step of a worker that was cancelled. *)
LEMMA DismissedMoved ==
  ASSUME Core, NEW w \in Workers, UNCHANGED <<phase, diagram_regions, links, confirm>>,
         worker[w].config = None, confirm[w] = Closed,
         \/ worker[w].pc = "recv" /\ Goto(w, "dismissed") /\ Send(w, "Cancelled")
         \/ worker[w].pc = "dismissed" /\ Goto(w, "ended") /\ Send(w, "Done")
  PROVE  Core'
<1>1. PICK l \in {"dismissed", "ended"} :
        /\ Goto(w, l)
        /\ \/ worker[w].pc = "recv" /\ l = "dismissed" /\ Send(w, "Cancelled")
           \/ worker[w].pc = "dismissed" /\ l = "ended" /\ Send(w, "Done")
  OBVIOUS
<1>2. /\ worker' = [worker EXCEPT ![w] = [worker[w] EXCEPT !.pc = l]]
      /\ [worker[w] EXCEPT !.pc = l] \in WorkerStates
      /\ worker'[w] = [worker[w] EXCEPT !.pc = l]
      /\ worker'[w].pc = l /\ worker'[w].config = None
      /\ worker'[w].source = worker[w].source
  BY <1>1, MovedTo DEF WorkerPcs
<1>3. Dismissable(w)'
  BY <1>2 DEF Dismissable, Closed
<1>4. worker[w].source \in Disks /\ worker[w].pc \in {"recv", "dismissed"}
  BY <1>1 DEF Core, Shapes
<1>5. phase = "Done" => w # current
  BY <1>4 DEF Core, Followed, At
<1>6. /\ confirm' = [confirm EXCEPT ![w].queue = <<>>]
      /\ confirm[w].queue = <<>> /\ <<>> \in Queues
  BY Unanswered DEF Closed, Queues
<1>7. CASE worker_rx # w
  <2>1. messages' = [messages EXCEPT ![w] = <<>>]
    BY <1>1, <1>7, SendFacts
  <2>2. <<>> \in Mail
    BY DEF Mail
  <2> QED
    BY <1>2, <1>3, <1>4, <1>5, <1>7, <2>1, <2>2, <1>6, WorkerMoved
<1>8. CASE worker_rx = w
  <2>1. phase = "Idle" /\ messages[w] = IF worker[w].pc = "recv" THEN <<>> ELSE <<"Cancelled">>
    <3>1. confirm_tx # w /\ confirm[w].queue = <<>>
      BY DEF Core, Ends, Closed
    <3> QED
      BY <1>4, <1>8, <3>1, Receiving
  <2>2. PICK m \in Mail : /\ messages' = [messages EXCEPT ![w] = m]
                          /\ m = IF l = "dismissed" THEN <<"Cancelled">>
                                 ELSE <<"Cancelled", "Done">>
    BY <1>1, <1>8, <2>1, SendFacts, MailFacts, CancelledDone DEF Mail
  <2>3. messages'[w] = m
    BY <2>2 DEF Core, Shapes
  <2>4. Leaving(w)'
    BY <1>1, <1>2, <2>2, <2>3 DEF Leaving
  <2> QED
    BY <1>2, <1>3, <1>4, <1>5, <1>8, <2>1, <2>2, <2>4, <1>6, WorkerMoved
<1> QED
  BY <1>7, <1>8

LEMMA WorkerStepCore ==
  ASSUME Core, NEW w \in Workers, WorkerStep(w)
  PROVE  Core'
<1>1. UNCHANGED <<phase, diagram_regions, links>>
  BY DEF WorkerStep, CreateSnapshot, BuildImage, ReceiveConfig, ReceiveNothing, Dismissed,
         Stream, FinishSnapshot, Unwind, WorkerOnly, results
<1>2. worker \in [Workers -> WorkerStates] /\ worker[w] \in WorkerStates
  BY DEF Core, Shapes
<1>3. ASSUME UNCHANGED confirm, NEW l \in WorkerPcs, Goto(w, l),
             worker[w].pc \notin {"recv", "dismissed", "ended"},
             \/ UNCHANGED messages /\ l \in {"build", "finish", "unwind"}
             \/ Send(w, "Error") /\ l = "ended"
             \/ Send(w, "DiagramReady") /\ l = "recv" /\ phase = "CreatingSnapshot",
             phase = "CreatingSnapshot" => l # "finish",
             phase = "Streaming" => l # "build"
      PROVE  Core'
  <2> DEFINE s == [worker[w] EXCEPT !.pc = l]
  <2>1. /\ s \in WorkerStates /\ worker' = [worker EXCEPT ![w] = s]
        /\ s.pc = l /\ s.source = worker[w].source /\ s.config = worker[w].config
    BY <1>2, <1>3, MovedTo
  <2> HIDE DEF s
  <2> QED
    BY <1>1, <1>3, <2>1, BusyMoved
<1>4. CASE CreateSnapshot(w)
  <2>1. worker[w].pc = "create" /\ UNCHANGED confirm
    BY <1>4 DEF CreateSnapshot, At
  <2>2. phase = "CreatingSnapshot"
    BY <2>1, Busy
  <2> QED
    BY <1>3, <1>4, <2>1, <2>2 DEF CreateSnapshot, WorkerPcs
<1>5. CASE BuildImage(w)
  <2>1. worker[w].pc = "build" /\ UNCHANGED confirm
    BY <1>5 DEF BuildImage, At
  <2>2. phase = "CreatingSnapshot"
    BY <2>1, Busy
  <2> QED
    BY <1>3, <1>5, <2>1, <2>2 DEF BuildImage, WorkerPcs
<1>6. CASE Stream(w)
  <2>1. worker[w].pc = "stream" /\ UNCHANGED confirm /\ UNCHANGED messages
    BY <1>6 DEF Stream, At
  <2>2. phase = "Streaming"
    BY <2>1, Busy
  <2> QED
    BY <1>3, <1>6, <2>1, <2>2 DEF Stream, WorkerPcs
<1>7. CASE Unwind(w)
  <2>1. worker[w].pc = "unwind" /\ UNCHANGED confirm
    BY <1>7 DEF Unwind, At
  <2> QED
    BY <1>3, <1>7, <2>1 DEF Unwind, WorkerPcs
<1>8. CASE FinishSnapshot(w)
  <2>1. worker[w].pc = "finish" /\ UNCHANGED confirm
    BY <1>8 DEF FinishSnapshot, At
  <2>2. phase = "Streaming"
    BY <2>1, Busy
  <2>3. CASE Goto(w, "unwind") /\ UNCHANGED messages
    BY <1>3, <2>1, <2>2, <2>3 DEF WorkerPcs
  <2>4. CASE /\ worker' = [worker EXCEPT ![w].pc = "ended", ![w].finished = TRUE]
             /\ Send(w, "Done")
    <3> DEFINE s == [worker[w] EXCEPT !.pc = "ended", !.finished = TRUE]
    <3>1. /\ s \in WorkerStates /\ worker' = [worker EXCEPT ![w] = s]
          /\ s.pc = "ended" /\ s.finished = TRUE
          /\ s.source = worker[w].source /\ s.config = worker[w].config
      BY <1>2, <2>4 DEF WorkerStates, WorkerPcs
    <3> HIDE DEF s
    <3> QED
      BY <1>1, <2>1, <2>2, <2>4, <3>1, BusyMoved
  <2> QED
    BY <1>8, <2>3, <2>4 DEF FinishSnapshot
<1>9. CASE ReceiveNothing(w)
  <2>1. worker[w].pc = "recv" /\ confirm[w] = Closed /\ UNCHANGED confirm
    BY <1>9 DEF ReceiveNothing, At
  <2>2. confirm_tx # w /\ confirm[w].queue = <<>>
    BY <2>1 DEF Core, Ends, Closed
  <2>3. worker[w].config = None
    BY <2>1, <2>2, Receiving
  <2> QED
    BY <1>1, <1>9, <2>1, <2>3, DismissedMoved DEF ReceiveNothing
<1>10. CASE Dismissed(w)
  <2>1. worker[w].pc = "dismissed" /\ UNCHANGED confirm
    BY <1>10 DEF Dismissed, At
  <2>2. worker[w].config = None /\ confirm[w] = Closed
    BY <2>1, Receiving
  <2> QED
    BY <1>1, <1>10, <2>1, <2>2, DismissedMoved DEF Dismissed
<1>11. CASE ReceiveConfig(w)
  <2>1. worker[w].pc = "recv" /\ confirm[w].queue # <<>>
    BY <1>11 DEF ReceiveConfig, At
  <2>2. confirm[w] # Closed
    BY <2>1 DEF Closed
  <2>3. w # confirm_tx
    BY <2>1 DEF Core, Ends
  <2>4. worker_rx = w /\ current = w /\ phase = "Streaming" /\ messages[w] = <<>>
    BY <2>1, <2>2, <2>3, Receiving
  <2>5. PICK c \in Configs : confirm[w].queue = <<c>>
    BY <2>1 DEF Core, Shapes, Queues
  <2>6. Head(confirm[w].queue) = c /\ Tail(confirm[w].queue) = <<>>
    BY <2>5, MailFacts
  <2>7. ~(c.dest_mode = "LocalDisk" /\ c.target_disk = None)
    BY <2>5 DEF Core, Ends
  <2> DEFINE s == [worker[w] EXCEPT !.pc = "stream", !.config = c]
  <2>8. /\ s \in WorkerStates /\ worker' = [worker EXCEPT ![w] = s]
        /\ s.pc = "stream" /\ s.source = worker[w].source
        /\ worker'[w] = s
    BY <1>2, <1>11, <2>6, <2>7 DEF ReceiveConfig, WorkerStates, WorkerPcs
  <2>9. UNCHANGED messages
    BY <1>11, <2>6, <2>7 DEF ReceiveConfig
  <2>10. confirm' = [confirm EXCEPT ![w].queue = <<>>] /\ <<>> \in Queues
    <3>1. confirm \in [Workers -> [open : BOOLEAN, queue : Queues]]
      BY DEF Core, Shapes
    <3> QED
      BY <1>11, <2>6, <3>1 DEF ReceiveConfig, Queues
  <2> HIDE DEF s
  <2>11. messages' = [messages EXCEPT ![w] = <<>>] /\ <<>> \in Mail /\ messages'[w] = <<>>
    BY <2>4, <2>9, Unsent DEF Mail
  <2>12. Cloning(w)'
    BY <2>8, <2>11 DEF Cloning
  <2>13. s.source \in Disks
    BY <2>1, <2>8 DEF Core, Shapes
  <2> QED
    BY <1>1, <2>4, <2>8, <2>10, <2>11, <2>12, <2>13, WorkerMoved
<1> QED
  BY <1>4, <1>5, <1>6, <1>7, <1>8, <1>9, <1>10, <1>11 DEF WorkerStep

-----------------------------------------------------------------------------
(***************************************************************************)
(* The window's side: what a message tells of the worker it comes from.    *)
(* "Done" from a worker that was dismissed is never at the head.           *)
(***************************************************************************)
LEMMA MessageFacts ==
  ASSUME Core, NEW m, NextMessage(m)
  PROVE  /\ worker_rx \in Workers /\ worker_rx = current
         /\ m = "DiagramReady" => /\ phase = "CreatingSnapshot"
                                  /\ worker[worker_rx].pc = "recv"
                                  /\ worker[worker_rx].config = None
                                  /\ messages[worker_rx] = <<"DiagramReady">>
         /\ m = "Done" => worker[worker_rx].pc = "ended" /\ worker[worker_rx].finished
         /\ m = "Error" => worker[worker_rx].pc = "ended"
         /\ m = "Cancelled" => phase = "Idle"
<1> DEFINE r == worker_rx
<1>1. r \in Workers /\ r = current /\ messages[r] # <<>> /\ m = Head(messages[r])
  BY DEF NextMessage, Core, Shapes, Ends
<1> HIDE DEF r
<1>2. phase \in {"CreatingSnapshot", "Confirm", "Streaming", "Idle"}
  BY <1>1, GuiAssumption DEF r, Core, Followed, Shapes, Phases
<1>3. CASE phase = "CreatingSnapshot"
  <2>1. \/ worker[r].pc = "recv" /\ messages[r] = <<"DiagramReady">>
        \/ worker[r].pc = "ended" /\ messages[r] = <<"Error">>
    BY <1>1, <1>3 DEF r, Core, Followed, Creating
  <2>2. worker[r].config = None
    BY <1>1, <1>3 DEF r, Core, Followed, Creating
  <2> QED
    BY <1>1, <1>3, <2>1, <2>2, MailFacts DEF r
<1>4. CASE phase = "Confirm"
  BY <1>1, <1>4 DEF r, Core, Followed, Asking
<1>5. CASE phase = "Streaming"
  <2>1. \/ worker[r].pc = "ended" /\ messages[r] = <<"Error">>
        \/ worker[r].pc = "ended" /\ messages[r] = <<"Done">> /\ worker[r].finished
    BY <1>1, <1>5 DEF r, Core, Followed, Cloning
  <2> QED
    BY <1>1, <2>1, MailFacts DEF r
<1>6. CASE phase = "Idle"
  <2>1. messages[r] \in {<<"Cancelled">>, <<"Cancelled", "Done">>}
    BY <1>1, <1>6 DEF r, Core, Followed, Leaving
  <2>2. m = "Cancelled"
    BY <1>1, <2>1, MailFacts
  <2> QED
    BY <1>1, <1>6, <2>2 DEF r
<1> QED
  BY <1>2, <1>3, <1>4, <1>5, <1>6

LEMMA HandleDiagramReadyCore ==
  ASSUME Core, HandleDiagramReady
  PROVE  Core'
<1>0. PICK r \in Workers : r = worker_rx
  BY MessageFacts DEF HandleDiagramReady, HandleDone, HandleError, HandleCancelled
<1> USE <1>0
<1>1. /\ r \in Workers /\ r = current /\ phase = "CreatingSnapshot" /\ worker[r].pc = "recv"
      /\ worker[r].config = None /\ messages[r] = <<"DiagramReady">> /\ confirm_tx = r
  BY MessageFacts DEF HandleDiagramReady, Core, Followed
<1>2. messages \in [Workers -> Mail]
  BY DEF Core, Shapes
<1>3. messages' = [messages EXCEPT ![r] = <<>>]
  <2>1. Tail(messages[r]) = <<>>
    BY <1>1, MailFacts
  <2> QED
    BY <2>1 DEF HandleDiagramReady, Consume
<1>4. /\ phase' = "Confirm" /\ diagram_regions' = worker[r].source
      /\ UNCHANGED <<worker_rx, confirm_tx, current, worker, confirm>>
  BY DEF HandleDiagramReady, RegionsReceived, links
<1>5. /\ messages'[r] = <<>> /\ messages' \in [Workers -> Mail]
      /\ \A v \in Workers : v # r => messages'[v] = messages[v]
  BY <1>1, <1>2, <1>3 DEF Mail
<1>6. Shapes'
  BY <1>4, <1>5 DEF Core, Shapes, Phases
<1>7. Ends'
  BY <1>4, <1>5 DEF Core, Ends
<1>8. Bystanders'
  BY <1>4 DEF Core, Bystanders, Dismissable, Closed
<1>9. Followed'
  <2>1. Asking(r)'
    BY <1>1, <1>4, <1>5 DEF Asking
  <2>2. r # None
    BY <1>1, GuiAssumption
  <2> QED
    BY <1>1, <1>4, <2>1, <2>2 DEF Followed
<1> QED
  BY <1>6, <1>7, <1>8, <1>9 DEF Core

(* The message that ends a clone: nobody is followed any more. *)
LEMMA LastMessageCore ==
  ASSUME Core, HandleDone \/ HandleError
  PROVE  Core'
<1>0. PICK r \in Workers : r = worker_rx
  BY MessageFacts DEF HandleDiagramReady, HandleDone, HandleError, HandleCancelled
<1> USE <1>0
<1>1. /\ r \in Workers /\ r = current /\ worker[r].pc = "ended"
      /\ \/ phase' = "Done" /\ worker[r].finished
         \/ phase' = "Error"
  <2>1. CASE HandleDone
    BY <2>1, MessageFacts DEF HandleDone
  <2>2. CASE HandleError
    BY <2>2, MessageFacts DEF HandleError
  <2> QED
    BY <2>1, <2>2
<1>2. /\ worker_rx' = None /\ messages' = [messages EXCEPT ![r] = <<>>]
      /\ UNCHANGED <<confirm_tx, current, worker, confirm>>
  BY DEF HandleDone, HandleError, LastMessage
<1>3. /\ messages' \in [Workers -> Mail] /\ messages'[r] = <<>>
      /\ \A v \in Workers : v # r => messages'[v] = messages[v]
  BY <1>1, <1>2 DEF Core, Shapes, Mail
<1>4. Shapes'
  BY <1>1, <1>2, <1>3 DEF Core, Shapes, Phases
<1>5. Ends'
  BY <1>2, <1>3 DEF Core, Ends
<1>6. Bystanders'
  <2> SUFFICES ASSUME NEW v \in Workers
               PROVE  Dismissable(v)'
    BY DEF Bystanders
  <2>1. CASE v = r
    BY <1>1, <1>2, <2>1 DEF Dismissable
  <2>2. CASE v # r
    BY <1>1, <1>2, <2>2 DEF Core, Bystanders, Dismissable, Closed
  <2> QED
    BY <2>1, <2>2
<1>7. Followed'
  <2>1. current # None
    BY <1>1, GuiAssumption
  <2>2. \A w \in Workers : w # None
    BY GuiAssumption
  <2> QED
    BY <1>1, <1>2, <2>1, <2>2 DEF Followed, At
<1> QED
  BY <1>4, <1>5, <1>6, <1>7 DEF Core

(* A worker that the window's step leaves alone, or whose channel it closes, is still dismissed. *)
LEMMA StillDismissable ==
  ASSUME NEW v, Dismissable(v), worker'[v] = worker[v],
         confirm'[v] \in {confirm[v], Closed}
  PROVE  Dismissable(v)'
<1>1. Closed' = Closed
  BY DEF Closed
<1> QED
  BY <1>1 DEF Dismissable

(* The window drops its end of the channel to the worker. *)
LEMMA DropFacts ==
  ASSUME Core, DropConfirm
  PROVE  /\ confirm_tx' = None
         /\ confirm' \in [Workers -> [open : BOOLEAN, queue : Queues]]
         /\ \A v \in Workers : /\ v = confirm_tx => confirm'[v] = Closed
                               /\ v # confirm_tx => confirm'[v] = confirm[v]
                               /\ confirm'[v].open = FALSE
<1>1. \A v \in Workers : confirm[v] \in [open : BOOLEAN, queue : Queues]
                          /\ (v # confirm_tx => confirm[v].open = FALSE)
  BY DEF Core, Shapes, Ends
<1>2. Closed \in [open : BOOLEAN, queue : Queues] /\ Closed.open = FALSE
  BY DEF Closed, Queues
<1> QED
  BY <1>1, <1>2 DEF DropConfirm

LEMMA HandleCancelledCore ==
  ASSUME Core, HandleCancelled
  PROVE  Core'
<1>0. PICK r \in Workers : r = worker_rx
  BY MessageFacts DEF HandleDiagramReady, HandleDone, HandleError, HandleCancelled
<1> USE <1>0
<1>1. r \in Workers /\ r = current /\ phase = "Idle"
  BY MessageFacts DEF HandleCancelled
<1>2. /\ worker_rx' = None /\ messages' = [messages EXCEPT ![r] = <<>>]
      /\ phase' = "Idle"
      /\ UNCHANGED <<current, worker>>
  BY DEF HandleCancelled, LastMessage
<1>3. /\ messages' \in [Workers -> Mail] /\ messages'[r] = <<>>
      /\ \A v \in Workers : v # r => messages'[v] = messages[v]
  BY <1>1, <1>2 DEF Core, Shapes, Mail
<1>4. /\ confirm_tx' = None
      /\ confirm' \in [Workers -> [open : BOOLEAN, queue : Queues]]
      /\ \A v \in Workers : /\ v = confirm_tx => confirm'[v] = Closed
                            /\ v # confirm_tx => confirm'[v] = confirm[v]
                            /\ confirm'[v].open = FALSE
  BY DropFacts DEF HandleCancelled
<1>5. \A v \in Workers : v # None
  BY GuiAssumption
<1>6. Shapes'
  BY <1>2, <1>3, <1>4 DEF Core, Shapes, Phases
<1>7. Ends'
  BY <1>2, <1>3, <1>4, <1>5, MailFacts DEF Core, Ends, Closed
<1>8. Bystanders'
  BY <1>1, <1>2, <1>4, StillDismissable DEF Core, Bystanders
<1>9. Followed'
  BY <1>2, <1>4, <1>5 DEF Followed
<1> QED
  BY <1>6, <1>7, <1>8, <1>9 DEF Core

LEMMA CancelCore ==
  ASSUME Core, Cancel
  PROVE  Core'
<1>0. PICK r \in Workers : r = worker_rx
  BY DEF Cancel, Click, Core, Shapes, Followed
<1> USE <1>0
<1>1. phase = "Confirm" /\ phase' = "Idle" /\ UNCHANGED <<worker_rx, current, worker, messages>>
  BY DEF Cancel, Click
<1>2. \A v \in Workers : v # None
  BY GuiAssumption
<1>3. /\ r \in Workers /\ r = current /\ confirm_tx = r
      /\ worker[r].pc = "recv" /\ worker[r].config = None /\ messages[r] = <<>>
  BY <1>1 DEF Core, Shapes, Ends, Followed, Asking
<1>4. /\ confirm_tx' = None
      /\ confirm' \in [Workers -> [open : BOOLEAN, queue : Queues]]
      /\ \A v \in Workers : /\ v = confirm_tx => confirm'[v] = Closed
                            /\ v # confirm_tx => confirm'[v] = confirm[v]
                            /\ confirm'[v].open = FALSE
  BY DropFacts DEF Cancel
<1>5. Shapes'
  BY <1>1, <1>4 DEF Core, Shapes, Phases
<1>6. Ends'
  BY <1>1, <1>2, <1>4, MailFacts DEF Core, Ends, Closed
<1>7. Bystanders'
  <2> SUFFICES ASSUME NEW v \in Workers
               PROVE  Dismissable(v)'
    BY DEF Bystanders
  <2>1. CASE v = r
    <3>1. confirm'[v] = Closed'
      BY <1>3, <1>4, <2>1 DEF Closed
    <3> QED
      BY <1>1, <1>3, <2>1, <3>1 DEF Dismissable
  <2>2. CASE v # r
    BY <1>1, <1>3, <1>4, <2>2, StillDismissable DEF Core, Bystanders
  <2> QED
    BY <2>1, <2>2
<1>8. Followed'
  BY <1>1, <1>3, <1>4 DEF Followed, Leaving
<1> QED
  BY <1>5, <1>6, <1>7, <1>8 DEF Core

(* "Create snapshot": in Idle every worker there is has been turned away from. *)
LEMMA StartCloneCore ==
  ASSUME Core, NEW w \in Workers, StartClone(w), selected_source \in Disks \cup {None}
  PROVE  Core'
<1> DEFINE new == [NoWorker EXCEPT !.pc = "create", !.source = selected_source]
<1>1. /\ phase = "Idle" /\ phase' = "CreatingSnapshot" /\ selected_source # None
      /\ worker_rx' = w /\ confirm_tx' = w /\ current' = w
      /\ worker' = [worker EXCEPT ![w] = new]
      /\ messages' = [v \in Workers |-> <<>>]
  BY DEF StartClone, Click
<1>2. /\ new.pc = "create" /\ new.source = selected_source /\ new.config = None
      /\ new \in WorkerStates
  BY <1>1 DEF NoWorker, WorkerStates, WorkerPcs
<1>3. confirm' = [v \in Workers |-> IF v = w THEN [open |-> TRUE, queue |-> <<>>]
                                    ELSE IF v = confirm_tx THEN Closed ELSE confirm[v]]
  BY DEF StartClone
<1> HIDE DEF new
<1>4. /\ worker' \in [Workers -> WorkerStates] /\ worker'[w] = new
      /\ \A v \in Workers : v # w => worker'[v] = worker[v]
  BY <1>1, <1>2 DEF Core, Shapes
<1>5. /\ confirm' \in [Workers -> [open : BOOLEAN, queue : Queues]]
      /\ confirm'[w] = [open |-> TRUE, queue |-> <<>>]
      /\ \A v \in Workers : v # w => /\ v = confirm_tx => confirm'[v] = Closed
                                     /\ v # confirm_tx => confirm'[v] = confirm[v]
                                     /\ confirm'[v].open = FALSE
  <2>1. \A v \in Workers : confirm[v] \in [open : BOOLEAN, queue : Queues]
                            /\ (v # confirm_tx => confirm[v].open = FALSE)
    BY DEF Core, Shapes, Ends
  <2>2. Closed \in [open : BOOLEAN, queue : Queues] /\ Closed.open = FALSE
    BY DEF Closed, Queues
  <2>3. [open |-> TRUE, queue |-> <<>>] \in [open : BOOLEAN, queue : Queues]
    BY DEF Queues
  <2> QED
    BY <1>3, <2>1, <2>2, <2>3
<1>6. messages' \in [Workers -> Mail] /\ \A v \in Workers : messages'[v] = <<>>
  BY <1>1 DEF Mail
<1>7. \A v \in Workers : v # None
  BY GuiAssumption
<1>8. Shapes'
  BY <1>1, <1>2, <1>4, <1>5, <1>6 DEF Core, Shapes, Phases
<1>9. Ends'
  <2>1. ASSUME NEW v \in Workers
        PROVE  \A c \in Configs : confirm'[v].queue = <<c>> =>
                 ~(c.dest_mode = "LocalDisk" /\ c.target_disk = None)
    <3>1. CASE v = w
      BY <1>5, <3>1, MailFacts
    <3>2. CASE v # w /\ v = confirm_tx
      <4>1. confirm'[v].queue = <<>>
        BY <1>5, <3>2 DEF Closed
      <4> QED
        BY <4>1, MailFacts
    <3>3. CASE v # w /\ v # confirm_tx
      BY <1>5, <3>3 DEF Core, Ends
    <3> QED
      BY <3>1, <3>2, <3>3
  <2>2. ASSUME NEW v \in Workers
        PROVE  /\ v = w => confirm'[v] = [open |-> TRUE, queue |-> <<>>]
               /\ v # w => confirm'[v].open = FALSE
    BY <1>5
  <2> QED
    BY <1>1, <1>6, <2>1, <2>2 DEF Ends
<1>10. Bystanders'
  BY <1>1, <1>4, <1>5, StillDismissable DEF Core, Bystanders
<1>11. Followed'
  BY <1>1, <1>2, <1>4, <1>6, <1>7 DEF Followed, Creating
<1> QED
  BY <1>8, <1>9, <1>10, <1>11 DEF Core

(* "Start clone": what is sent can be acted on, for the window refuses the rest. *)
LEMMA ConfirmCloneCore ==
  ASSUME Core, ConfirmClone, DestConfig \in Configs
  PROVE  Core'
<1>0. PICK r \in Workers : r = worker_rx
  BY DEF ConfirmClone, Click, Core, Shapes, Followed
<1> USE <1>0
<1>1. phase = "Confirm" /\ UNCHANGED <<worker_rx, current, worker, messages, diagram_regions>>
  BY DEF ConfirmClone, Click, results
<1>2. \A v \in Workers : v # None
  BY GuiAssumption
<1>3. /\ r \in Workers /\ r = current /\ confirm_tx = r
      /\ worker[r].pc = "recv" /\ messages[r] = <<>>
  BY <1>1 DEF Core, Shapes, Ends, Followed, Asking
<1>4. /\ confirm' = [confirm EXCEPT ![r] = LastSent(DestConfig)]
      /\ confirm_tx' = None /\ phase' = "Streaming"
  BY <1>2, <1>3 DEF ConfirmClone
<1>5. ~(DestConfig.dest_mode = "LocalDisk" /\ DestConfig.target_disk = None)
  BY DEF ConfirmClone, DestConfig
<1>6. /\ LastSent(DestConfig) \in [open : BOOLEAN, queue : Queues]
      /\ LastSent(DestConfig).open = FALSE /\ LastSent(DestConfig).queue = <<DestConfig>>
  BY DEF LastSent, Queues
<1>7. /\ confirm' \in [Workers -> [open : BOOLEAN, queue : Queues]]
      /\ confirm'[r] = LastSent(DestConfig)
      /\ \A v \in Workers : v # r => confirm'[v] = confirm[v]
  BY <1>3, <1>4, <1>6 DEF Core, Shapes
<1>8. Shapes'
  BY <1>1, <1>4, <1>7 DEF Core, Shapes, Phases
<1>9. Ends'
  <2>1. ASSUME NEW v \in Workers
        PROVE  /\ confirm'[v].open = FALSE
               /\ \A c \in Configs : confirm'[v].queue = <<c>> =>
                    ~(c.dest_mode = "LocalDisk" /\ c.target_disk = None)
    <3>1. CASE v = r
      BY <1>5, <1>6, <1>7, <3>1, MailFacts
    <3>2. CASE v # r
      BY <1>3, <1>7, <3>2 DEF Core, Ends
    <3> QED
      BY <3>1, <3>2
  <2> QED
    BY <1>1, <1>2, <1>4, <2>1 DEF Core, Ends
<1>10. Bystanders'
  BY <1>1, <1>3, <1>4, <1>7 DEF Core, Bystanders, Dismissable, Closed
<1>11. Followed'
  <2>1. Cloning(r)'
    BY <1>1, <1>3, <1>6, <1>7, MailFacts DEF Cloning
  <2> QED
    BY <1>1, <1>2, <1>3, <1>4, <2>1 DEF Followed
<1> QED
  BY <1>8, <1>9, <1>10, <1>11 DEF Core

LEMMA AgainCore ==
  ASSUME Core, Again
  PROVE  Core'
<1>1. /\ phase \in {"Done", "Error"} /\ phase' = "Idle"
      /\ UNCHANGED <<diagram_regions, worker_rx, confirm_tx, current, worker, messages, confirm>>
  BY DEF Again, Click, results, links, threads
<1>2. worker_rx = None /\ \A v \in Workers : v # None
  BY <1>1, GuiAssumption DEF Core, Followed
<1>3. Shapes' /\ Ends'
  BY <1>1 DEF Core, Shapes, Ends, Phases
<1>4. Bystanders'
  BY <1>1 DEF Core, Bystanders, Dismissable, Closed
<1>5. Followed'
  BY <1>1, <1>2 DEF Followed
<1> QED
  BY <1>3, <1>4, <1>5 DEF Core

-----------------------------------------------------------------------------
(* What the clicks choose from, and the analysis of the selected disk. *)
Choices ==
  /\ frame \in {"messages", "source", "analysis", "controls", "closed"}
  /\ disks \subseteq Disks
  /\ selected_source \in Disks \cup {None}
  /\ dest_mode \in DestModes
  /\ target_disk \in Disks \cup {None}
  /\ excluded_partitions \subseteq PartNums
  /\ diagram_regions \in Disks \cup {None}
  /\ snapshot_analysis \in Disks \cup {None}
  /\ analysis_rx \in [disk : Disks, state : {"running", "ok", "error"}] \cup {None}

GInv == Core /\ Choices /\ AnalysisOfSelection

(* A step that leaves the row of the source disk and its analysis alone. *)
LEMMA AnalysisUnchanged ==
  ASSUME AnalysisOfSelection, UNCHANGED <<selected_source, snapshot_analysis, analysis_rx>>
  PROVE  AnalysisOfSelection'
  BY DEF AnalysisOfSelection

LEMMA InitGInv ==
  ASSUME Init
  PROVE  GInv
<1>1. Shapes
  BY DEF Init, Shapes, Phases, NoWorker, WorkerStates, WorkerPcs, Mail, Queues, Closed
<1>2. Ends
  BY MailFacts, GuiAssumption DEF Init, Ends, Closed
<1>3. Bystanders /\ Followed
  BY GuiAssumption DEF Init, Bystanders, Dismissable, Followed, NoWorker
<1>4. Choices /\ AnalysisOfSelection
  BY DEF Init, Choices, DestModes, AnalysisOfSelection
<1> QED
  BY <1>1, <1>2, <1>3, <1>4 DEF Core, GInv

(* The steps that only concern the source row, the analysis and the settings. *)
LEMMA SettingsStep ==
  ASSUME GInv,
         \/ NoMessage \/ Source \/ PollAnalysis \/ NoClick \/ CloseWindow \/ Analyse
         \/ \E pn \in PartNums : ToggleExcluded(pn)
         \/ \E m \in DestModes : ChooseDestMode(m)
         \/ \E d \in Disks : ChooseTarget(d)
  PROVE  GInv'
<1> USE DEF GInv
<1>1. CASE NoMessage \/ NoClick \/ CloseWindow \/ SourceUnchanged
  <2>1. /\ UNCHANGED <<phase, shown, results, links, threads>>
        /\ frame' \in {"messages", "source", "analysis", "controls", "closed"}
    BY <1>1 DEF NoMessage, NoClick, CloseWindow, SourceUnchanged
  <2>2. Core'
    BY <2>1, CoreUnchanged DEF results
  <2> QED
    BY <2>1, <2>2, AnalysisUnchanged DEF Choices, shown, results
<1>2. CASE LoadDisks
  <2>1. Core'
    BY <1>2, CoreUnchanged DEF LoadDisks, results
  <2> QED
    BY <1>2, <2>1, AnalysisUnchanged DEF LoadDisks, Choices, results
<1>3. CASE \E d \in Disks : SelectSource(d)
  <2>1. Core'
    BY <1>3, CoreUnchanged DEF SelectSource
  <2>2. Choices'
    BY <1>3 DEF SelectSource, NewAnalysis, Choices
  <2>3. AnalysisOfSelection'
    BY <1>3 DEF SelectSource, NewAnalysis, AnalysisOfSelection
  <2> QED
    BY <2>1, <2>2, <2>3
<1>4. CASE PollAnalysis
  <2>1. Core'
    BY <1>4, CoreUnchanged DEF PollAnalysis
  <2>2. Choices'
    BY <1>4 DEF PollAnalysis, Choices, shown
  <2>3. AnalysisOfSelection'
    BY <1>4 DEF PollAnalysis, AnalysisOfSelection, shown
  <2> QED
    BY <2>1, <2>2, <2>3
<1>5. CASE Analyse
  <2>1. Core'
    BY <1>5, CoreUnchanged DEF Analyse
  <2>2. PICK s \in {"ok", "error"} : analysis_rx' = [analysis_rx EXCEPT !.state = s]
    BY <1>5 DEF Analyse
  <2>3. analysis_rx \in [disk : Disks, state : {"running", "ok", "error"}]
    BY <1>5 DEF Analyse, Choices
  <2>4. /\ analysis_rx' \in [disk : Disks, state : {"running", "ok", "error"}]
        /\ analysis_rx'.disk = analysis_rx.disk
    BY <2>2, <2>3
  <2>5. /\ UNCHANGED <<frame, shown, diagram_regions, snapshot_analysis>>
        /\ analysis_rx # None
    BY <1>5 DEF Analyse
  <2> QED
    BY <2>1, <2>4, <2>5 DEF Choices, AnalysisOfSelection, shown
<1>6. CASE \E pn \in PartNums : ToggleExcluded(pn)
  <2>1. Core'
    BY <1>6, CoreUnchanged DEF ToggleExcluded, results
  <2> QED
    BY <1>6, <2>1, AnalysisUnchanged DEF ToggleExcluded, Click, Choices, results
<1>7. CASE (\E m \in DestModes : ChooseDestMode(m)) \/ (\E d \in Disks : ChooseTarget(d))
  <2>1. Core'
    BY <1>7, CoreUnchanged DEF ChooseDestMode, ChooseTarget, results
  <2> QED
    BY <1>7, <2>1, AnalysisUnchanged DEF ChooseDestMode, ChooseTarget, Click, Choices, results
<1> QED
  BY <1>1, <1>2, <1>3, <1>4, <1>5, <1>6, <1>7 DEF Source

(* The steps that concern a clone. *)
LEMMA CloneStep ==
  ASSUME GInv,
         \/ HandleDiagramReady \/ HandleDone \/ HandleError \/ HandleCancelled
         \/ ConfirmClone \/ Cancel \/ Again
         \/ \E w \in Workers : StartClone(w) \/ WorkerStep(w)
  PROVE  GInv'
<1> USE DEF GInv
<1>1. Core'
  <2>1. DestConfig \in Configs
    BY DEF Choices, DestConfig, Configs
  <2>2. selected_source \in Disks \cup {None}
    BY DEF Choices
  <2> QED
    BY <2>1, <2>2, HandleDiagramReadyCore, LastMessageCore, HandleCancelledCore,
       ConfirmCloneCore, CancelCore, AgainCore, StartCloneCore, WorkerStepCore
<1>2. /\ UNCHANGED <<disks, selected_source, dest_mode, target_disk, snapshot_analysis, analysis_rx>>
      /\ frame' \in {"messages", "source", "analysis", "controls", "closed"}
      /\ excluded_partitions' \in {{}, excluded_partitions}
      /\ diagram_regions' = diagram_regions \/ diagram_regions' \in Disks \cup {None}
  <2>1. CASE HandleDiagramReady
    <3>1. worker_rx \in Workers /\ worker[worker_rx].pc = "recv"
      BY <2>1, MessageFacts DEF HandleDiagramReady
    <3>2. worker[worker_rx].source \in Disks
      BY <3>1 DEF Core, Shapes
    <3> QED
      BY <2>1, <3>2 DEF HandleDiagramReady, RegionsReceived, shown, Choices
  <2>2. CASE HandleDone \/ HandleError \/ HandleCancelled
    BY <2>2 DEF HandleDone, HandleError, HandleCancelled, LastMessage, shown, results
  <2>3. CASE ConfirmClone \/ Cancel \/ Again
    BY <2>3 DEF ConfirmClone, Cancel, Again, Click, shown, results
  <2>4. CASE \E w \in Workers : StartClone(w)
    BY <2>4 DEF StartClone, Click, shown, results
  <2>5. CASE \E w \in Workers : WorkerStep(w)
    <3>1. WorkerOnly
      BY <2>5 DEF WorkerStep, CreateSnapshot, BuildImage, ReceiveConfig, ReceiveNothing,
                  Dismissed, Stream, FinishSnapshot, Unwind
    <3> QED
      BY <3>1 DEF WorkerOnly, shown, results, Choices
  <2> QED
    BY <2>1, <2>2, <2>3, <2>4, <2>5
<1>3. Choices'
  BY <1>2 DEF Choices
<1>4. AnalysisOfSelection'
  BY <1>2, AnalysisUnchanged
<1> QED
  BY <1>1, <1>3, <1>4

THEOREM GInvariant == Spec => []GInv
<1>1. Init => GInv
  BY InitGInv
<1>2. GInv /\ [Next]_vars => GInv'
  <2> SUFFICES ASSUME GInv, [Next]_vars PROVE GInv'
    OBVIOUS
  <2>1. CASE Next /\ ~Over
    BY <2>1, SettingsStep, CloneStep DEF Next, Update, Messages, Controls
  <2>2. CASE Over \/ UNCHANGED vars
    <3>1. UNCHANGED vars
      BY <2>2 DEF Over
    <3>2. Core'
      BY <3>1, CoreUnchanged DEF vars, results, GInv
    <3>3. Choices' /\ AnalysisOfSelection'
      BY <3>1, AnalysisUnchanged DEF vars, shown, results, GInv, Choices
    <3> QED
      BY <3>2, <3>3 DEF GInv
  <2> QED
    BY <2>1, <2>2
<1> QED
  BY <1>1, <1>2, PTL DEF Spec

-----------------------------------------------------------------------------
(* No variable leaves its range: a channel never holds more than two messages. *)
THEOREM TypeCorrect == Spec => []TypeOK
<1>1. GInv => TypeOK
  <2> SUFFICES ASSUME GInv PROVE TypeOK
    OBVIOUS
  <2>1. ASSUME NEW w \in Workers
        PROVE  /\ worker[w].pc \in WorkerPcs
               /\ worker[w].source \in IF worker[w].pc = "ended" THEN Disks \cup {None} ELSE Disks
               /\ worker[w].config \in Configs \cup {None}
               /\ worker[w].finished \in BOOLEAN
    BY <2>1 DEF GInv, Core, Shapes, WorkerStates
  <2>2. ASSUME NEW w \in Workers
        PROVE  Len(messages[w]) <= 3 /\ \A i \in 1..Len(messages[w]) : messages[w][i] \in WorkerMsgs
    <3>1. messages[w] \in Mail
      BY DEF GInv, Core, Shapes
    <3>2. ASSUME NEW a \in WorkerMsgs
          PROVE  Len(<<a>>) = 1 /\ <<a>>[1] = a
      OBVIOUS
    <3>3. CASE messages[w] = <<>>
      BY <3>3
    <3>4. CASE \E a \in WorkerMsgs : messages[w] = <<a>>
      BY <3>2, <3>4
    <3>5. CASE messages[w] = <<"Cancelled", "Done">>
      <4>1. /\ Len(<<"Cancelled", "Done">>) = 2
            /\ <<"Cancelled", "Done">>[1] = "Cancelled" /\ <<"Cancelled", "Done">>[2] = "Done"
        OBVIOUS
      <4>2. \A i \in 1..2 : i = 1 \/ i = 2
        OBVIOUS
      <4> QED
        BY <3>5, <4>1, <4>2 DEF WorkerMsgs
    <3> QED
      BY <3>1, <3>3, <3>4, <3>5 DEF Mail, WorkerMsgs
  <2>3. ASSUME NEW w \in Workers
        PROVE  /\ confirm[w].open \in BOOLEAN
               /\ confirm[w].queue \in {<<>>} \cup {<<c>> : c \in Configs}
    BY <2>3 DEF GInv, Core, Shapes, Queues
  <2> QED
    BY <2>1, <2>2, <2>3 DEF GInv, Core, Shapes, Choices, TypeOK
<1> QED
  BY <1>1, GInvariant, PTL

(***************************************************************************)
(* Whenever the window asks, the worker that made the layout on display is *)
(* waiting at the other end of the channel the answer will go into.        *)
(***************************************************************************)
THEOREM ConfirmCorrect == Spec => []ConfirmReachesWorker
<1>1. GInv => ConfirmReachesWorker
  <2> SUFFICES ASSUME GInv, phase = "Confirm"
               PROVE  /\ worker_rx # None
                      /\ confirm_tx = worker_rx
                      /\ At(worker_rx, "recv")
                      /\ confirm[worker_rx] = [open |-> TRUE, queue |-> <<>>]
                      /\ diagram_regions = worker[worker_rx].source
    BY DEF ConfirmReachesWorker
  <2>1. worker_rx \in Workers /\ worker_rx # None /\ confirm_tx = worker_rx
    BY DEF GInv, Core, Shapes, Followed
  <2>2. Asking(worker_rx)
    BY <2>1 DEF GInv, Core, Followed
  <2>3. confirm[worker_rx] = [open |-> TRUE, queue |-> <<>>]
    BY <2>1 DEF GInv, Core, Ends
  <2> QED
    BY <2>1, <2>2, <2>3 DEF Asking, At
<1> QED
  BY <1>1, GInvariant, PTL

(* "Done" is never the message of a worker that was cancelled. *)
THEOREM DoneCorrect == Spec => []DoneMeansCloned
<1>1. GInv => DoneMeansCloned
  BY DEF GInv, Core, Followed, DoneMeansCloned
<1> QED
  BY <1>1, GInvariant, PTL

(* A clone that writes is the one the window shows, however many workers are still ending. *)
THEOREM StreamsCorrect == Spec => []StreamsInSight
<1>1. GInv => StreamsInSight
  BY Busy DEF GInv, StreamsInSight
<1> QED
  BY <1>1, GInvariant, PTL

(* A worker that waits unanswered is one the window can still answer. *)
THEOREM NoForgottenCorrect == Spec => []NoForgottenWorker
<1>1. GInv => NoForgottenWorker
  <2> SUFFICES ASSUME GInv, NEW w \in Workers, At(w, "recv"),
                      confirm[w] = [open |-> TRUE, queue |-> <<>>]
               PROVE  confirm_tx = w /\ worker_rx = w /\ phase \in {"CreatingSnapshot", "Confirm"}
    BY DEF NoForgottenWorker
  <2>1. Core /\ worker[w].pc = "recv"
    BY DEF GInv, At
  <2>2. confirm[w].open = TRUE /\ confirm[w].queue = <<>>
    OBVIOUS
  <2>3. confirm[w] # Closed
    BY <2>2 DEF Closed
  <2> QED
    BY <2>1, <2>2, <2>3, Receiving
<1> QED
  BY <1>1, GInvariant, PTL

(* The answer of an analysis is never shown for another disk than the one it is about. *)
THEOREM AnalysisCorrect == Spec => []AnalysisOfSelection
<1>1. GInv => AnalysisOfSelection
  BY DEF GInv
<1> QED
  BY <1>1, GInvariant, PTL

(* An older snapshot that is still held belongs to a worker already told to end. *)
THEOREM OverlapCorrect == Spec => []OverlapOnlyAfterCancel
<1>1. GInv => OverlapOnlyAfterCancel
  BY DEF GInv, Core, Bystanders, Dismissable, OverlapOnlyAfterCancel, HoldsSnapshot
<1> QED
  BY <1>1, GInvariant, PTL
=============================================================================
