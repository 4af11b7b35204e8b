------------------------- MODULE DiskHandles_proofs -------------------------
(***************************************************************************)
(* Proofs about the handles of physical disks, for any number of disks and *)
(* of threads that analyse and clone them: a disk is not written to while  *)
(* it is read for a clone, and no handle is lost but by a failed query.    *)
(***************************************************************************)
EXTENDS DiskHandles, TLAPS

(***************************************************************************)
(* A handle belongs to the disk its opener works on: what Drop and         *)
(* CloseHandle take away is then all that the opener has open.             *)
(***************************************************************************)
Owned ==
  \A h \in handles :
    /\ h.use = "list" <=> h.by = None
    /\ h.use \in {"layout", "builder"} => h.disk = source[h.by]

IInv == TypeOK /\ Owned /\ SourceProtected /\ LostOnlyByFailedQuery

LEMMA InitIInv == Init => IInv
BY HandlesAssumption DEF Init, IInv, TypeOK, Owned, SourceProtected, LostOnlyByFailedQuery

(* A disk that is opened under the share modes is not both a source and written to. *)
LEMMA OpenProtects ==
  ASSUME SourceProtected, NEW d, NEW t, NEW use, Open(d, t, use)
  PROVE  SourceProtected'
<1> SUFFICES ASSUME NEW g \in handles', NEW h \in handles', g.disk = h.disk, g.use = "builder"
             PROVE  "write" \notin Access(h.use)
  BY DEF SourceProtected
<1> DEFINE new == Handle(d, t, use)
<1>1. new.disk = d /\ new.use = use
  BY DEF Handle
<1>2. handles' = handles \cup {new}
  BY DEF Open
<1>3. \A o \in handles : o.disk = d => Access(use) \subseteq Share(o.use)
                                      /\ Access(o.use) \subseteq Share(use)
  BY DEF Open, Shareable
<1> HIDE DEF new
<1>4. CASE g \in handles /\ h \in handles
  BY <1>4 DEF SourceProtected
<1>5. CASE g = new /\ h \in handles
  BY <1>1, <1>3, <1>5 DEF Access, Share
<1>6. CASE h = new
  <2>1. CASE g \in handles
    BY <1>1, <1>3, <1>6, <2>1 DEF Access, Share
  <2>2. CASE g = new
    BY <1>6, <2>2 DEF Access
  <2> QED
    BY <1>2, <2>1, <2>2
<1> QED
  BY <1>2, <1>4, <1>5, <1>6

(* Closing handles takes nothing away from the protection of what is left. *)
LEMMA CloseProtects ==
  ASSUME SourceProtected, handles' \subseteq handles
  PROVE  SourceProtected'
BY DEF SourceProtected

-----------------------------------------------------------------------------
LEMMA ListIInv == ASSUME IInv, ListClose \/ \E d \in Disks : ListOpen(d) PROVE IInv'
<1> USE HandlesAssumption DEF IInv
<1>1. ASSUME NEW d \in Disks, ListOpen(d), Open(d, None, "list"), listing' = d PROVE IInv'
  <2>1. handles' = handles \cup {Handle(d, None, "list")}
    BY <1>1 DEF Open
  <2>2. at' = at /\ source' = source /\ listing = None /\ d \in to_list /\ to_list' = to_list \ {d}
    BY <1>1 DEF ListOpen
  <2>3. Handle(d, None, "list") \in [disk : Disks, by : Threads \cup {None}, use : Uses]
    BY <1>1 DEF Handle, Uses
  <2>4. TypeOK'
    BY <1>1, <2>1, <2>2, <2>3 DEF TypeOK
  <2>5. Owned'
    BY <2>1, <2>2 DEF Owned, Handle
  <2>6. LostOnlyByFailedQuery'
    BY <1>1, <2>1, <2>2 DEF LostOnlyByFailedQuery, InUse, Handle, TypeOK, Uses, Owned
  <2> QED
    BY <1>1, <2>4, <2>5, <2>6, OpenProtects
<1>2. ASSUME NEW d \in Disks, ListOpen(d), UNCHANGED <<handles, listing>> PROVE IInv'
  BY <1>2 DEF ListOpen, TypeOK, Owned, SourceProtected, LostOnlyByFailedQuery, InUse
<1>3. CASE ListClose
  <2>1. /\ handles' = handles \ {Handle(listing, None, "list")}
        /\ listing # None /\ listing' = None
        /\ UNCHANGED <<at, source, to_list>>
    BY <1>3 DEF ListClose, ListClosed
  <2>2. TypeOK' /\ Owned' /\ SourceProtected'
    BY <2>1, CloseProtects DEF TypeOK, Owned
  <2>3. ASSUME NEW h \in handles' PROVE InUse(h)' \/ (h.by # None /\ at'[h.by] = "failed")
    <3>1. h \in handles /\ h \in [disk : Disks, by : Threads \cup {None}, use : Uses]
      BY <2>1, <2>3 DEF TypeOK
    <3>2. CASE h.use = "list"
      <4>1. h.by = None /\ h.disk = listing
        BY <3>1, <3>2 DEF Owned, LostOnlyByFailedQuery, InUse
      <4>2. h = Handle(listing, None, "list")
        BY <3>1, <3>2, <4>1 DEF Handle
      <4> QED
        BY <2>1, <2>3, <4>2
    <3>3. CASE h.use # "list"
      BY <2>1, <3>1, <3>3 DEF LostOnlyByFailedQuery, InUse, Uses
    <3> QED
      BY <3>2, <3>3
  <2> QED
    BY <2>2, <2>3 DEF LostOnlyByFailedQuery
<1> QED
  BY <1>1, <1>2, <1>3 DEF ListOpen

-----------------------------------------------------------------------------
(* What a thread's step leaves as it is. *)
LEMMA OthersKept ==
  ASSUME IInv, NEW t \in Threads, NEW l, Goto(t, l)
  PROVE  /\ at' = [at EXCEPT ![t] = l]
         /\ \A u \in Threads \ {t} : at'[u] = at[u]
         /\ at'[t] = l
BY DEF Goto, IInv, TypeOK

(* A thread opens a disk and goes to where such a handle is in use. *)
LEMMA ThreadOpens ==
  ASSUME IInv, NEW t \in Threads, NEW d \in Disks, NEW use \in Uses \ {"list"}, NEW l,
         Open(d, t, use), Goto(t, l), Thread(t),
         use # "sink" => d = source[t],
         \/ at[t] \in {"start", "builder"} /\ l \in {"layout", "new"}
         \/ at[t] = "made" /\ l = "stream",
         InUse(Handle(d, t, use))'
  PROVE  IInv'
<1> USE HandlesAssumption DEF IInv
<1> DEFINE new == Handle(d, t, use)
<1>1. handles' = handles \cup {new}
  BY DEF Open
<1>2. new.disk = d /\ new.by = t /\ new.use = use
  BY DEF Handle
<1>3. new \in [disk : Disks, by : Threads \cup {None}, use : Uses]
  BY DEF Handle
<1>4. InUse(new)'
  OBVIOUS
<1>5. UNCHANGED <<source, to_list, listing>>
  BY DEF Thread
<1> HIDE DEF new
<1>6. TypeOK'
  BY <1>1, <1>3, <1>5, OthersKept DEF TypeOK
<1>7. Owned'
  BY <1>1, <1>2, <1>5 DEF Owned
<1>8. LostOnlyByFailedQuery'
  <2> SUFFICES ASSUME NEW h \in handles, h.by # None
               PROVE  InUse(h)' \/ at'[h.by] = "failed"
    BY <1>1, <1>4, <1>5 DEF LostOnlyByFailedQuery, InUse, Owned, TypeOK
  <2>1. h.by \in Threads /\ h.use \in Uses \ {"list"}
    BY DEF TypeOK, Owned, Uses
  <2> QED
    BY <1>5, <2>1, OthersKept DEF LostOnlyByFailedQuery, InUse, Uses
<1> QED
  BY <1>6, <1>7, <1>8, OpenProtects

(* A thread goes on without opening anything, and closes what is no longer in use. *)
LEMMA ThreadGoesOn ==
  ASSUME IInv, NEW t \in Threads, NEW l, Goto(t, l), Thread(t),
         l \in {"start", "layout", "builder", "new", "made", "stream", "ended", "failed"},
         handles' \subseteq handles,
         \A h \in handles' : h.by = t => l = "failed" \/ InUse(h)'
  PROVE  IInv'
<1> USE HandlesAssumption DEF IInv
<1>1. UNCHANGED <<source, to_list, listing>>
  BY DEF Thread
<1>2. TypeOK'
  BY <1>1, OthersKept DEF TypeOK
<1>3. Owned'
  BY <1>1 DEF Owned
<1>4. LostOnlyByFailedQuery'
  <2> SUFFICES ASSUME NEW h \in handles'
               PROVE  InUse(h)' \/ (h.by # None /\ at'[h.by] = "failed")
    BY DEF LostOnlyByFailedQuery
  <2>1. h \in handles /\ h.by \in Threads \cup {None} /\ h.use \in Uses
    BY DEF TypeOK
  <2>2. CASE h.by = None
    BY <1>1, <2>1, <2>2 DEF LostOnlyByFailedQuery, InUse, Owned
  <2>3. CASE h.by = t
    BY <2>3, OthersKept
  <2>4. CASE h.by \in Threads \ {t}
    BY <2>1, <2>4, OthersKept DEF LostOnlyByFailedQuery, InUse, Owned
  <2> QED
    BY <2>1, <2>2, <2>3, <2>4
<1> QED
  BY <1>2, <1>3, <1>4, CloseProtects

(* What a thread has open where it is. *)
LEMMA OpenAt ==
  ASSUME IInv, NEW t \in Threads, NEW h \in handles, h.by = t
  PROVE  /\ \/ h.use = "layout"  /\ at[t] \in {"layout", "failed"}
            \/ h.use = "builder" /\ at[t] \in {"new", "made", "stream", "failed"}
            \/ h.use = "sink"    /\ at[t] \in {"stream", "failed"}
         /\ h.use # "sink" => h = Handle(source[t], t, h.use)
<1>1. h \in [disk : Disks, by : Threads \cup {None}, use : Uses]
  BY DEF IInv, TypeOK
<1>2. h.use # "list"
  BY HandlesAssumption DEF IInv, Owned
<1>3. h.use # "sink" => h.disk = source[t]
  BY <1>1, <1>2 DEF IInv, Owned, Uses
<1>4. h.use # "sink" => h = Handle(source[t], t, h.use)
  BY <1>1, <1>3 DEF Handle
<1> QED
  BY <1>1, <1>2, <1>4 DEF IInv, LostOnlyByFailedQuery, InUse, Uses

LEMMA ThreadIInv == ASSUME IInv, NEW t \in Threads, ThreadStep(t) PROVE IInv'
<1>0. source[t] \in Disks
  BY DEF IInv, TypeOK
<1>1. CASE OpenForLayout(t)
  <2>1. CASE Open(source[t], t, "layout") /\ Goto(t, "layout")
    BY <1>0, <1>1, <2>1, ThreadOpens, OthersKept DEF OpenForLayout, InUse, Handle, Uses
  <2>2. CASE Goto(t, "ended") /\ UNCHANGED handles
    BY <1>1, <2>2, ThreadGoesOn, OpenAt DEF OpenForLayout
  <2> QED
    BY <1>1, <2>1, <2>2 DEF OpenForLayout
<1>2. CASE LayoutOk(t)
  BY <1>2, ThreadGoesOn, OpenAt DEF LayoutOk
<1>3. CASE QueryFails(t)
  BY <1>3, ThreadGoesOn DEF QueryFails
<1>4. CASE OpenForBuilder(t)
  <2>1. CASE Open(source[t], t, "builder") /\ Goto(t, "new")
    BY <1>0, <1>4, <2>1, ThreadOpens, OthersKept DEF OpenForBuilder, InUse, Handle, Uses
  <2>2. CASE Goto(t, "ended") /\ UNCHANGED handles
    BY <1>4, <2>2, ThreadGoesOn, OpenAt DEF OpenForBuilder
  <2> QED
    BY <1>4, <2>1, <2>2 DEF OpenForBuilder
<1>5. CASE BuilderMade(t)
  BY <1>5, ThreadGoesOn, OpenAt, OthersKept DEF BuilderMade, InUse
<1>6. ASSUME NEW d \in Disks, OpenTarget(t, d) PROVE IInv'
  BY <1>6, ThreadOpens, OthersKept DEF OpenTarget, InUse, Handle, Uses
<1>7. CASE SinkDropped(t)
  BY <1>7, ThreadGoesOn, OpenAt, OthersKept DEF SinkDropped, InUse
<1>8. CASE BuilderDropped(t)
  BY <1>8, ThreadGoesOn, OpenAt DEF BuilderDropped
<1> QED
  BY <1>1, <1>2, <1>3, <1>4, <1>5, <1>6, <1>7, <1>8 DEF ThreadStep

(* IInv holds initially and every step keeps it. *)
THEOREM Inductive == Spec => []IInv
<1>1. IInv /\ [Next]_vars => IInv'
  <2> SUFFICES ASSUME IInv, [Next]_vars PROVE IInv'
    OBVIOUS
  <2>1. CASE UNCHANGED vars
    BY <2>1 DEF vars, IInv, TypeOK, Owned, SourceProtected, LostOnlyByFailedQuery, InUse
  <2>2. CASE Over
    BY <2>1, <2>2 DEF Over
  <2> QED
    BY <2>1, <2>2, ListIInv, ThreadIInv DEF Next
<1> QED
  BY <1>1, InitIInv, PTL DEF Spec

(* The variables keep their ranges: the list never comes back to a disk it has open. *)
THEOREM TypeCorrect == Spec => []TypeOK
BY Inductive, PTL DEF IInv

(***************************************************************************)
(* However many clones, analyses and lists of disks run at once, and       *)
(* whatever target a clone is given: nobody has a disk open for writing    *)
(* while an image is built of it.                                          *)
(***************************************************************************)
THEOREM SourceProtectedCorrect == Spec => []SourceProtected
BY Inductive, PTL DEF IInv

(* Only a query that fails between open and close leaves a handle behind. *)
THEOREM LostCorrect == Spec => []LostOnlyByFailedQuery
BY Inductive, PTL DEF IInv
=============================================================================
