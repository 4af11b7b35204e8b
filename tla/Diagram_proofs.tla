--------------------------- MODULE Diagram_proofs ---------------------------
(***************************************************************************)
(* Proofs about build_diagram_regions for every disk length, partition     *)
(* layout and shadow map: the preview is well formed, has no holes, shows  *)
(* every partition the stream reads, and on a regular disk it is true.     *)
(***************************************************************************)
EXTENDS Diagram, SequenceTheorems, TLAPS

(***************************************************************************)
(* RegionsCover speaks of the finished preview; while it grows, what is in *)
(* front of pos is covered (pos may go back: that only shrinks the claim). *)
(***************************************************************************)
Covered(rs, i) == \E x \in DOMAIN rs : rs[x].start <= i /\ i < rs[x].end

CoveredToPos == \A i \in Nat : i < pos => Covered(regions, i)

IInv ==
  /\ job \in Jobs
  /\ TypeOK
  /\ stage = "primary" => pos = 0
  /\ CoveredToPos
  /\ RegionsCover

-----------------------------------------------------------------------------
(* The numbers a job is made of are naturals. *)
LEMMA JobNumbers ==
  ASSUME job \in Jobs
  PROVE  /\ DiskLength \in Nat
         /\ BackupStart \in Nat
         /\ GptSectors \in Nat /\ GptSectors >= 1
         /\ \A k \in Used : /\ Parts[k].num \in Nat
                            /\ Parts[k].start \in Nat
                            /\ PartEnd(k) \in Nat
                            /\ Parts[k].start < PartEnd(k)
<1>1. IsJob(job)
  BY GeometryAssumption
<1>2. \A k \in DOMAIN Parts : Parts[k] \in [num : Nat, start : Nat, len : Nat]
  <2> DEFINE Entry == [num : Nat, start : Nat, len : Nat]
  <2>1. Parts \in Seq(Entry)
    BY <1>1 DEF IsJob, Parts
  <2> HIDE DEF Entry
  <2>2. \A k \in DOMAIN Parts : Parts[k] \in Entry
    BY <2>1
  <2> QED
    BY <2>2 DEF Entry
<1> QED
  BY <1>1, <1>2, GeometryAssumption DEF IsJob, DiskLength, BackupStart, Used, PartEnd

(* Sequences of proper regions, and what putting two of them together gives. *)
Proper(rs) == rs \in Seq(Regions) /\ \A x \in DOMAIN rs : rs[x].start < rs[x].end

LEMMA EmptyProper == Proper(<<>>)
BY DEF Proper

LEMMA OneRegion ==
  ASSUME NEW r \in Regions, r.start < r.end
  PROVE  Proper(<<r>>) /\ \A i \in Nat : r.start <= i /\ i < r.end => Covered(<<r>>, i)
<1>1. <<r>> \in Seq(Regions) /\ DOMAIN <<r>> = {1} /\ <<r>>[1] = r
  <2> HIDE DEF Regions
  <2> QED
    OBVIOUS
<1> QED
  BY <1>1 DEF Proper, Covered

LEMMA Together ==
  ASSUME NEW rs, NEW qs, Proper(rs), Proper(qs)
  PROVE  /\ Proper(rs \o qs)
         /\ \A i \in Nat : Covered(rs, i) \/ Covered(qs, i) => Covered(rs \o qs, i)
<1>1. /\ rs \in Seq(Regions)
      /\ qs \in Seq(Regions)
  BY DEF Proper
<1>2. /\ rs \o qs \in Seq(Regions)
      /\ DOMAIN (rs \o qs) = 1..(Len(rs) + Len(qs))
      /\ DOMAIN rs = 1..Len(rs) /\ DOMAIN qs = 1..Len(qs)
      /\ Len(rs) \in Nat /\ Len(qs) \in Nat
      /\ \A x \in 1..(Len(rs) + Len(qs)) :
           (rs \o qs)[x] = IF x <= Len(rs) THEN rs[x] ELSE qs[x - Len(rs)]
  BY <1>1
<1>3. Proper(rs \o qs)
  BY <1>2 DEF Proper
<1>4. \A i \in Nat : Covered(rs, i) => Covered(rs \o qs, i)
  BY <1>2 DEF Covered
<1>5. ASSUME NEW i \in Nat, Covered(qs, i)
      PROVE  Covered(rs \o qs, i)
  <2>1. PICK x \in DOMAIN qs : qs[x].start <= i /\ i < qs[x].end
    BY <1>5 DEF Covered
  <2>2. /\ Len(rs) + x \in DOMAIN (rs \o qs)
        /\ (rs \o qs)[Len(rs) + x] = qs[x]
    BY <1>2
  <2> QED
    BY <2>1, <2>2 DEF Covered
<1> QED
  BY <1>3, <1>4, <1>5

(* A region without a partition. *)
LEMMA AreaRegion ==
  ASSUME NEW s \in Nat, NEW e \in Nat, s < e, NEW src \in RegionSources
  PROVE  /\ Proper(<<Area(s, e, src)>>)
         /\ \A i \in Nat : s <= i /\ i < e => Covered(<<Area(s, e, src)>>, i)
<1>1. Area(s, e, src) \in Regions
  BY DEF Area, Region, Regions
<1>2. Area(s, e, src).start = s /\ Area(s, e, src).end = e
  BY DEF Area, Region
<1> QED
  BY <1>1, <1>2, OneRegion

(* The gap in front of an address reaches from pos to it, or to the backup area. *)
LEMMA GapCovers ==
  ASSUME job \in Jobs, pos \in Nat, NEW start \in Nat
  PROVE  /\ Proper(GapBefore(start))
         /\ \A i \in Nat : /\ pos <= i
                           /\ i < start
                           /\ i < BackupStart
                           => Covered(GapBefore(start), i)
<1> DEFINE gap_end == IF start < BackupStart THEN start ELSE BackupStart
<1>1. gap_end \in Nat
  BY JobNumbers
<1>2. CASE pos < start /\ pos < gap_end
  <2>1. GapBefore(start) = <<Area(pos, gap_end, "Gap")>>
    BY <1>2 DEF GapBefore
  <2>2. "Gap" \in RegionSources
    BY DEF RegionSources
  <2> HIDE DEF gap_end
  <2>3. /\ Proper(GapBefore(start))
        /\ \A i \in Nat : pos <= i /\ i < gap_end => Covered(GapBefore(start), i)
    BY <1>1, <1>2, <2>1, <2>2, AreaRegion
  <2> QED
    BY <2>3, JobNumbers DEF gap_end
<1>3. CASE ~(pos < start /\ pos < gap_end)
  <2>1. GapBefore(start) = <<>>
    BY <1>3 DEF GapBefore
  <2> QED
    BY <1>3, <2>1, EmptyProper, JobNumbers
<1> QED
  BY <1>2, <1>3

-----------------------------------------------------------------------------
LEMMA InitIInv == Init => IInv
<1> SUFFICES ASSUME Init PROVE IInv
  OBVIOUS
<1> USE JobNumbers DEF Init
<1>1. TypeOK
  BY EmptyProper DEF TypeOK, Proper
<1> QED
  BY <1>1 DEF IInv, CoveredToPos, RegionsCover

LEMMA PushPrimaryIInv == IInv /\ PushPrimary => IInv'
<1> SUFFICES ASSUME IInv, PushPrimary PROVE IInv'
  OBVIOUS
<1> USE DEF PushPrimary
<1>1. job \in Jobs /\ job' = job
  BY DEF IInv
<1>2. "GptPrimary" \in RegionSources
  BY DEF RegionSources
<1>3. /\ Proper(regions')
      /\ \A i \in Nat : i < GptSectors => Covered(regions', i)
  BY <1>1, <1>2, AreaRegion, JobNumbers
<1>4. TypeOK'
  BY <1>1, <1>3, JobNumbers DEF IInv, TypeOK, Proper, Regions, Used, Parts
<1> QED
  BY <1>1, <1>3, <1>4 DEF IInv, CoveredToPos, RegionsCover

(* The regions a turn of the loop leaves, proper and covering, keep the invariant. *)
LEMMA LoopIInv ==
  ASSUME IInv, stage = "partitions", UNCHANGED <<job, stage>>,
         left' \subseteq left, pos' \in Nat, Proper(regions'),
         \A i \in Nat : i < pos' => Covered(regions', i)
  PROVE  IInv'
<1>1. TypeOK'
  BY DEF IInv, TypeOK, Proper, Regions, Used, Parts
<1> QED
  BY <1>1 DEF IInv, CoveredToPos, RegionsCover

LEMMA PushPartitionIInv ==
  ASSUME NEW k \in left
  PROVE  IInv /\ PushPartition(k) => IInv'
<1> SUFFICES ASSUME IInv, PushPartition(k) PROVE IInv'
  OBVIOUS
<1>1. /\ job \in Jobs /\ pos \in Nat /\ k \in Used
      /\ Proper(regions)
      /\ \A i \in Nat : i < pos => Covered(regions, i)
  BY DEF IInv, TypeOK, Proper, CoveredToPos
<1>2. PICK path \in ShadowPaths(k) :
        regions' = regions \o GapBefore(Parts[k].start)
                   \o <<Region(Parts[k].start, PartEnd(k),
                               IF path = {} THEN "PartitionRaw" ELSE "PartitionShadow",
                               Parts[k].num, path)>>
  BY DEF PushPartition
<1> DEFINE start == Parts[k].start
           r == Region(start, PartEnd(k),
                       IF path = {} THEN "PartitionRaw" ELSE "PartitionShadow",
                       Parts[k].num, path)
<1>3. /\ start \in Nat /\ PartEnd(k) \in Nat /\ start < PartEnd(k) /\ Parts[k].num \in Nat
      /\ BackupStart \in Nat
  BY <1>1, JobNumbers
<1>4. path \subseteq DOMAIN job.shadow
  BY DEF ShadowPaths, HasShadow
<1>5. r \in Regions /\ r.start = start /\ r.end = PartEnd(k)
  BY <1>3, <1>4 DEF Region, Regions, RegionSources
<1>6. start < BackupStart /\ pos' = PartEnd(k)
  BY DEF PushPartition, IsShown
<1>7. regions' = regions \o GapBefore(start) \o <<r>>
  BY <1>2
<1> HIDE DEF r, start
<1>8. /\ Proper(GapBefore(start))
      /\ \A i \in Nat : pos <= i /\ i < start => Covered(GapBefore(start), i)
  BY <1>1, <1>3, <1>6, GapCovers
<1>9. /\ Proper(<<r>>)
      /\ \A i \in Nat : start <= i /\ i < PartEnd(k) => Covered(<<r>>, i)
  BY <1>3, <1>5, OneRegion
<1>10. /\ Proper(regions \o GapBefore(start))
       /\ \A i \in Nat : i < start => Covered(regions \o GapBefore(start), i)
  BY <1>1, <1>3, <1>8, Together
<1>11. /\ Proper(regions')
       /\ \A i \in Nat : i < PartEnd(k) => Covered(regions', i)
  BY <1>3, <1>7, <1>9, <1>10, Together
<1> QED
  BY <1>3, <1>6, <1>11, LoopIInv DEF PushPartition

LEMMA SkipPartitionIInv ==
  ASSUME NEW k \in left
  PROVE  IInv /\ SkipPartition(k) => IInv'
<1> SUFFICES ASSUME IInv, SkipPartition(k) PROVE IInv'
  OBVIOUS
<1> DEFINE start == Parts[k].start
<1>1. /\ job \in Jobs /\ pos \in Nat /\ k \in Used
      /\ Proper(regions)
      /\ \A i \in Nat : i < pos => Covered(regions, i)
  BY DEF IInv, TypeOK, Proper, CoveredToPos
<1>2. start \in Nat /\ BackupStart \in Nat /\ ~(start < BackupStart)
  BY <1>1, JobNumbers DEF SkipPartition, IsShown
<1>3. /\ regions' = regions \o GapBefore(start)
      /\ pos' = IF GapBefore(start) = <<>> THEN pos ELSE BackupStart
  BY DEF SkipPartition
<1> HIDE DEF start
<1>4. /\ Proper(GapBefore(start))
      /\ \A i \in Nat : pos <= i /\ i < BackupStart => Covered(GapBefore(start), i)
  BY <1>1, <1>2, GapCovers
<1>5. /\ Proper(regions')
      /\ \A i \in Nat : i < pos \/ i < BackupStart => Covered(regions', i)
  BY <1>1, <1>2, <1>3, <1>4, Together
<1> QED
  BY <1>1, <1>2, <1>3, <1>5, LoopIInv DEF SkipPartition

LEMMA PushClosingIInv == IInv /\ PushClosing => IInv'
<1> SUFFICES ASSUME IInv, PushClosing PROVE IInv'
  OBVIOUS
<1> DEFINE gap    == IF pos < BackupStart THEN <<Area(pos, BackupStart, "Gap")>> ELSE <<>>
           backup == IF BackupStart < DiskLength
                     THEN <<Area(BackupStart, DiskLength, "GptBackup")>> ELSE <<>>
<1>1. /\ job \in Jobs /\ pos \in Nat
      /\ Proper(regions)
      /\ \A i \in Nat : i < pos => Covered(regions, i)
  BY DEF IInv, TypeOK, Proper, CoveredToPos
<1>2. DiskLength \in Nat /\ BackupStart \in Nat
  BY <1>1, JobNumbers
<1>3. {"Gap", "GptBackup"} \subseteq RegionSources
  BY DEF RegionSources
<1>4. /\ Proper(gap)
      /\ \A i \in Nat : pos <= i /\ i < BackupStart => Covered(gap, i)
  BY <1>1, <1>2, <1>3, EmptyProper, AreaRegion
<1>5. /\ Proper(backup)
      /\ \A i \in Nat : BackupStart <= i /\ i < DiskLength => Covered(backup, i)
  BY <1>2, <1>3, EmptyProper, AreaRegion
<1>6. regions' = regions \o (gap \o backup)
  BY DEF PushClosing, ClosingRegions
<1> HIDE DEF gap, backup
<1>7. /\ Proper(regions')
      /\ \A i \in Nat : i < pos \/ i < DiskLength => Covered(regions', i)
  <2>1. /\ Proper(gap \o backup)
        /\ \A i \in Nat : Covered(gap, i) \/ Covered(backup, i) => Covered(gap \o backup, i)
    BY <1>4, <1>5, Together
  <2>2. /\ Proper(regions')
        /\ \A i \in Nat : Covered(regions, i) \/ Covered(gap \o backup, i)
                            => Covered(regions', i)
    BY <1>1, <1>6, <2>1, Together
  <2> QED
    BY <1>1, <1>2, <1>4, <1>5, <2>1, <2>2
<1>8. job' = job /\ pos' = pos /\ left' = left /\ stage' = "done"
  BY DEF PushClosing
<1>9. TypeOK'
  BY <1>7, <1>8 DEF IInv, TypeOK, Proper, Regions, Used, Parts
<1>10. RegionsCover'
  BY <1>2, <1>7, <1>8 DEF RegionsCover, Shows, Covered, DiskLength
<1> QED
  BY <1>1, <1>7, <1>8, <1>9, <1>10 DEF IInv, CoveredToPos

(* IInv holds initially and every step keeps it. *)
THEOREM Inductive == Spec => []IInv
<1>1. Init => IInv
  BY InitIInv
<1>2. IInv /\ [Next]_vars => IInv'
  <2> SUFFICES ASSUME IInv, [Next]_vars PROVE IInv'
    OBVIOUS
  <2>1. CASE PushPrimary
    BY <2>1, PushPrimaryIInv
  <2>2. CASE PushClosing
    BY <2>2, PushClosingIInv
  <2>3. CASE UNCHANGED vars
    BY <2>3 DEF vars, IInv, TypeOK, CoveredToPos, RegionsCover, Shows, DiskLength, Regions,
                Used, Parts
  <2>4. CASE Returned
    BY <2>3, <2>4 DEF Returned
  <2>5. CASE \E k \in left : PushPartition(k)
    BY <2>5, PushPartitionIInv
  <2>6. CASE \E k \in left : SkipPartition(k)
    BY <2>6, SkipPartitionIInv
  <2> QED
    BY <2>1, <2>2, <2>3, <2>4, <2>5, <2>6 DEF Next
<1> QED
  BY <1>1, <1>2, PTL DEF Spec

(* Every variable stays in its range and no region is empty or inside out. *)
THEOREM TypeCorrect == Spec => []TypeOK
<1>1. IInv => TypeOK
  BY DEF IInv
<1> QED
  BY <1>1, Inductive, PTL

(* The preview has no holes, for every layout: each sector of the disk is in some region. *)
THEOREM CoverCorrect == Spec => []RegionsCover
<1>1. IInv => RegionsCover
  BY DEF IInv
<1> QED
  BY <1>1, Inductive, PTL
-----------------------------------------------------------------------------
(***************************************************************************)
(* What the preview says.  Of every partition the loop is past there is a  *)
(* region, unless it starts in the backup area.  On a regular disk pos     *)
(* never goes back: the regions form a chain up to pos, the partitions the *)
(* loop is past end there at the latest and those left begin there at the  *)
(* earliest, so a gap belongs to no partition; and each region is true.    *)
(***************************************************************************)
ShownAs(x, k) ==
  /\ regions[x].source \in {"PartitionShadow", "PartitionRaw"}
  /\ regions[x].num = Parts[k].num
  /\ regions[x].start = Parts[k].start
  /\ regions[x].end = PartEnd(k)

ShownSoFar ==
  \A k \in Used \ left : IsShown(k) => \E x \in DOMAIN regions : ShownAs(x, k)

Chain(rs, end) ==
  /\ rs \in Seq(Regions)
  /\ Len(rs) >= 1
  /\ rs[1].start = 0
  /\ rs[Len(rs)].end = end
  /\ \A x \in 1..(Len(rs) - 1) : rs[x].end = rs[x + 1].start

Said(r, i) ==
  IF r.source \in {"PartitionShadow", "PartitionRaw"} /\ r.num \in job.excluded
  THEN {Zero}
  ELSE RegionContents(r, i)

Truthful(r) == \A i \in r.start..(r.end - 1) : PlanOf(i) = Said(r, i)

Behind == \A l \in Used \ left : PartEnd(l) <= pos

Ahead == \A l \in left : pos <= Parts[l].start

InOrder ==
  /\ stage = "partitions" =>
       Chain(regions, pos) /\ GptSectors <= pos /\ pos <= BackupStart /\ Behind /\ Ahead
  /\ stage = "done" => Chain(regions, DiskLength)
  /\ \A x \in DOMAIN regions : Truthful(regions[x])

PInv ==
  /\ IInv
  /\ stage = "primary" => left = Used /\ regions = <<>>
  /\ stage = "done" => left = {}
  /\ ShownSoFar
  /\ Regular => InOrder

(* The job never changes, so what follows from it alone does not either. *)
LEMMA SameJob ==
  ASSUME job' = job
  PROVE  /\ DiskLength' = DiskLength /\ BackupStart' = BackupStart
         /\ Parts' = Parts /\ Used' = Used /\ Regions' = Regions
         /\ \A k : PartEnd(k)' = PartEnd(k)
         /\ \A k : IsShown(k)' <=> IsShown(k)
         /\ Regular' <=> Regular
         /\ \A r : Truthful(r)' <=> Truthful(r)
<1>1. DiskLength' = DiskLength /\ BackupStart' = BackupStart /\ Parts' = Parts
  BY DEF DiskLength, BackupStart, Parts
<1>2. \A k : PartEnd(k)' = PartEnd(k)
  BY <1>1 DEF PartEnd
<1>3. Used' = Used
  BY <1>1 DEF Used
<1>4. Regions' = Regions
  BY DEF Regions
<1>5. \A k : IsShown(k)' <=> IsShown(k)
  BY <1>1 DEF IsShown
<1>6. Regular' <=> Regular
  BY <1>1, <1>2, <1>3 DEF Regular
<1>7. \A i : Owners(i)' = Owners(i)
  BY <1>1, <1>2, <1>3 DEF Owners
<1>8. \A k, i : FirstOwner(k, i)' <=> FirstOwner(k, i)
  BY <1>7 DEF FirstOwner
<1>9. \A k, i : PartitionPlan(k, i)' = PartitionPlan(k, i)
  BY <1>1 DEF PartitionPlan, Excluded, HasShadow, CopyOf
<1>10. \A i : PlanOf(i)' = PlanOf(i)
  <2> SUFFICES ASSUME NEW i PROVE PlanOf(i)' = PlanOf(i)
    OBVIOUS
  <2>1. {l \in Owners(i) : FirstOwner(l, i)}' = {l \in Owners(i) : FirstOwner(l, i)}
    BY <1>7, <1>8
  <2>2. InMiddle(i)' <=> InMiddle(i)
    BY <1>1 DEF InMiddle
  <2> DEFINE First == {l \in Owners(i) : FirstOwner(l, i)}
  <2>3. First' = First
    BY <2>1
  <2> HIDE DEF First
  <2>4. {PartitionPlan(k, i) : k \in First}' = {PartitionPlan(k, i) : k \in First}
    BY <2>3, <1>9
  <2> QED
    BY <1>7, <2>2, <2>4 DEF PlanOf, First
<1>11. \A r, i : Said(r, i)' = Said(r, i)
  BY DEF Said, RegionContents
<1>12. \A r : Truthful(r)' <=> Truthful(r)
  BY <1>10, <1>11 DEF Truthful
<1> QED
  BY <1>1, <1>2, <1>3, <1>4, <1>5, <1>6, <1>12

(* One more region, and what there was. *)
LEMMA OneMore ==
  ASSUME NEW rs \in Seq(Regions), NEW r \in Regions
  PROVE  /\ rs \o <<r>> \in Seq(Regions)
         /\ Len(rs \o <<r>>) = Len(rs) + 1
         /\ (rs \o <<r>>)[Len(rs) + 1] = r
         /\ \A x \in DOMAIN rs : (rs \o <<r>>)[x] = rs[x]
         /\ DOMAIN rs = 1..Len(rs) /\ DOMAIN (rs \o <<r>>) = 1..(Len(rs) + 1)
<1> HIDE DEF Regions
<1>1. <<r>> \in Seq(Regions) /\ Len(<<r>>) = 1 /\ <<r>>[1] = r
  OBVIOUS
<1> DEFINE q == <<r>>
<1>2. q \in Seq(Regions) /\ Len(q) = 1 /\ q[1] = r
  BY <1>1
<1> HIDE DEF q
<1>3. q \in Seq(Regions)
  BY <1>2
<1>4. /\ rs \o q \in Seq(Regions) /\ Len(rs \o q) = Len(rs) + Len(q)
      /\ \A x \in 1..(Len(rs) + Len(q)) :
           (rs \o q)[x] = IF x <= Len(rs) THEN rs[x] ELSE q[x - Len(rs)]
      /\ DOMAIN rs = 1..Len(rs) /\ DOMAIN (rs \o q) = 1..(Len(rs) + Len(q))
      /\ Len(rs) \in Nat
  BY <1>3
<1> QED
  BY <1>2, <1>4 DEF q

LEMMA LongerChain ==
  ASSUME NEW rs, NEW end, Chain(rs, end), NEW r \in Regions, r.start = end
  PROVE  Chain(rs \o <<r>>, r.end)
<1> DEFINE qs == rs \o <<r>>
<1> HIDE DEF Regions
<1>1. rs \in Seq(Regions) /\ Len(rs) \in Nat /\ Len(rs) >= 1
  BY DEF Chain
<1>2. /\ qs \in Seq(Regions) /\ Len(qs) = Len(rs) + 1 /\ qs[Len(rs) + 1] = r
      /\ \A x \in 1..Len(rs) : qs[x] = rs[x]
  BY <1>1, OneMore
<1> HIDE DEF qs
<1>3. qs[1].start = 0 /\ qs[Len(rs)].end = end
  BY <1>1, <1>2 DEF Chain
<1>4. \A x \in 1..(Len(qs) - 1) : qs[x].end = qs[x + 1].start
  <2> SUFFICES ASSUME NEW x \in 1..Len(rs) PROVE qs[x].end = qs[x + 1].start
    BY <1>1, <1>2
  <2>1. CASE x = Len(rs)
    BY <1>2, <1>3, <2>1
  <2>2. CASE x < Len(rs)
    BY <1>1, <1>2, <2>2 DEF Chain
  <2> QED
    BY <1>1, <2>1, <2>2
<1>5. Chain(qs, r.end)
  BY <1>1, <1>2, <1>3, <1>4 DEF Chain
<1> QED
  BY <1>5 DEF qs

LEMMA MoreTruth ==
  ASSUME NEW rs \in Seq(Regions), \A x \in DOMAIN rs : Truthful(rs[x]),
         NEW r \in Regions, Truthful(r)
  PROVE  \A x \in DOMAIN (rs \o <<r>>) : Truthful((rs \o <<r>>)[x])
<1>1. \A x \in 1..(Len(rs) + 1) : x \in 1..Len(rs) \/ x = Len(rs) + 1
  OBVIOUS
<1> QED
  BY <1>1, OneMore

LEMMA MoreShown ==
  ASSUME NEW rs, NEW qs, rs \in Seq(Regions), qs \in Seq(Regions), NEW x \in DOMAIN rs
  PROVE  x \in DOMAIN (rs \o qs) /\ (rs \o qs)[x] = rs[x]
<1> HIDE DEF Regions
<1> QED
  OBVIOUS

(* What stream_to plans for each of the four kinds of region. *)
LEMMA GptTruth ==
  ASSUME job \in Jobs, NEW src \in {"GptPrimary", "GptBackup"}, NEW s \in Nat, NEW e \in Nat,
         e <= GptSectors \/ BackupStart <= s
  PROVE  Truthful(Area(s, e, src))
<1> SUFFICES ASSUME NEW i \in s..(e - 1)
             PROVE  PlanOf(i) = Said(Area(s, e, src), i)
  BY DEF Truthful, Area, Region
<1>1. ~InMiddle(i)
  BY JobNumbers DEF InMiddle
<1>2. PlanOf(i) = {Raw(i)}
  BY <1>1 DEF PlanOf
<1>3. Said(Area(s, e, src), i) = {Raw(i)}
  BY DEF Said, RegionContents, Area, Region
<1> QED
  BY <1>2, <1>3

LEMMA GapTruth ==
  ASSUME job \in Jobs, NEW s \in Nat, NEW e \in Nat, GptSectors <= s, e <= BackupStart,
         \A l \in Used : PartEnd(l) <= s \/ e <= Parts[l].start
  PROVE  Truthful(Area(s, e, "Gap"))
<1> SUFFICES ASSUME NEW i \in s..(e - 1)
             PROVE  PlanOf(i) = Said(Area(s, e, "Gap"), i)
  BY DEF Truthful, Area, Region
<1>1. InMiddle(i)
  BY JobNumbers DEF InMiddle
<1>2. Owners(i) = {}
  BY JobNumbers DEF Owners
<1>3. PlanOf(i) = {Zero}
  BY <1>1, <1>2 DEF PlanOf
<1>4. Said(Area(s, e, "Gap"), i) = {Zero}
  BY DEF Said, RegionContents, Area, Region
<1> QED
  BY <1>3, <1>4

LEMMA PartitionTruth ==
  ASSUME job \in Jobs, Regular, NEW k \in Used, NEW path \in ShadowPaths(k)
  PROVE  Truthful(Region(Parts[k].start, PartEnd(k),
                         IF path = {} THEN "PartitionRaw" ELSE "PartitionShadow",
                         Parts[k].num, path))
<1> DEFINE source == IF path = {} THEN "PartitionRaw" ELSE "PartitionShadow"
           r == Region(Parts[k].start, PartEnd(k), source, Parts[k].num, path)
<1>1. /\ r.start = Parts[k].start /\ r.end = PartEnd(k) /\ r.num = Parts[k].num
      /\ r.source = source /\ r.path = path
  BY DEF Region
<1>2. HasShadow(k) => path = {Parts[k].start}
  BY DEF ShadowPaths
<1>3. ~HasShadow(k) => path = {}
  <2> SUFFICES ASSUME ~HasShadow(k) PROVE path = {}
    OBVIOUS
  <2> DEFINE inside == {off \in DOMAIN job.shadow : Parts[k].start <= off /\ off < PartEnd(k)}
  <2>1. inside = {}
    BY DEF Regular, HasShadow
  <2> QED
    BY <2>1 DEF ShadowPaths
<1>4. source = IF HasShadow(k) THEN "PartitionShadow" ELSE "PartitionRaw"
  BY <1>2, <1>3
<1> HIDE DEF r, source
<1> SUFFICES ASSUME NEW i \in Parts[k].start..(PartEnd(k) - 1) PROVE PlanOf(i) = Said(r, i)
  BY <1>1 DEF Truthful, r, source
<1>5. /\ Parts[k].start \in Nat /\ PartEnd(k) \in Nat /\ i \in Nat
      /\ Parts[k].start <= i /\ i < PartEnd(k)
      /\ GptSectors \in Nat /\ BackupStart \in Nat
  BY JobNumbers
<1>6. InMiddle(i)
  BY <1>5 DEF InMiddle, Regular
<1>7. Owners(i) = {k}
  <2>1. k \in Owners(i)
    BY <1>5 DEF Owners
  <2>2. ASSUME NEW l \in Owners(i) PROVE l = k
    <3>1. l \in Used /\ Parts[l].start <= i /\ i < PartEnd(l)
      BY DEF Owners
    <3>2. Parts[l].start \in Nat /\ PartEnd(l) \in Nat
      BY <3>1, JobNumbers
    <3> QED
      BY <1>5, <3>1, <3>2 DEF Regular
  <2> QED
    BY <2>1, <2>2
<1>8. {l \in Owners(i) : FirstOwner(l, i)} = {k}
  <2>1. Parts \in Seq([num : Nat, start : Nat, len : Nat])
    BY GeometryAssumption DEF IsJob, Parts
  <2>2. DOMAIN Parts \subseteq Nat
    BY <2>1
  <2> QED
    BY <1>7, <2>2 DEF FirstOwner, Used
<1>9. PlanOf(i) = PartitionPlan(k, i)
  BY <1>6, <1>7, <1>8 DEF PlanOf
<1>10. Said(r, i) = IF Excluded(k) THEN {Zero} ELSE RegionContents(r, i)
  BY <1>1, <1>4 DEF Said, Excluded
<1>11. RegionContents(r, i) = IF HasShadow(k)
                               THEN {Shadow(CopyOf(k), i - Parts[k].start), Raw(i)}
                               ELSE {Raw(i)}
  <2>1. CASE HasShadow(k)
    <3>1. {Shadow(job.shadow[off].copy, i - r.start) : off \in r.path}
            = {Shadow(CopyOf(k), i - Parts[k].start)}
      BY <1>1, <1>2, <2>1 DEF CopyOf
    <3>2. RegionContents(r, i)
            = {Shadow(job.shadow[off].copy, i - r.start) : off \in r.path} \cup {Raw(i)}
      BY <1>1, <1>4, <2>1 DEF RegionContents
    <3> QED
      BY <2>1, <3>1, <3>2
  <2>2. CASE ~HasShadow(k)
    BY <1>1, <1>4, <2>2 DEF RegionContents
  <2> QED
    BY <2>1, <2>2
<1> QED
  BY <1>9, <1>10, <1>11 DEF PartitionPlan

(* On a regular disk the gap in front of the next partition closes up to it. *)
LEMMA GapInOrder ==
  ASSUME job \in Jobs, Regular, stage = "partitions", regions \in Seq(Regions), pos \in Nat,
         InOrder, left \subseteq Used, NEW k \in left, NextPartition(k)
  PROVE  /\ Chain(regions \o GapBefore(Parts[k].start), Parts[k].start)
         /\ \A x \in DOMAIN (regions \o GapBefore(Parts[k].start)) :
              Truthful((regions \o GapBefore(Parts[k].start))[x])
<1> DEFINE start == Parts[k].start
           a     == Area(pos, start, "Gap")
<1>1. /\ Chain(regions, pos) /\ GptSectors <= pos /\ pos <= BackupStart /\ Behind /\ Ahead
      /\ \A x \in DOMAIN regions : Truthful(regions[x])
  BY DEF InOrder
<1>2. /\ start \in Nat /\ start < PartEnd(k) /\ PartEnd(k) <= BackupStart /\ pos <= start
      /\ PartEnd(k) \in Nat /\ BackupStart \in Nat
  BY <1>1, JobNumbers DEF Regular, Ahead
<1>3. CASE pos < start
  <2>1. GapBefore(start) = <<a>>
    BY <1>2, <1>3 DEF GapBefore
  <2>2. a \in Regions /\ a.start = pos /\ a.end = start
    BY <1>2 DEF Area, Region, Regions, RegionSources
  <2>3. \A l \in Used : PartEnd(l) <= pos \/ start <= Parts[l].start
    BY <1>1, JobNumbers DEF Behind, NextPartition
  <2>4. Truthful(a)
    BY <1>1, <1>2, <2>3, GapTruth
  <2> HIDE DEF a, start
  <2>5. Chain(regions \o <<a>>, start)
    BY <1>1, <2>2, LongerChain
  <2>6. \A x \in DOMAIN (regions \o <<a>>) : Truthful((regions \o <<a>>)[x])
    BY <1>1, <2>2, <2>4, MoreTruth
  <2> QED
    BY <2>1, <2>5, <2>6 DEF start
<1>4. CASE pos = start
  <2>1. GapBefore(start) = <<>>
    BY <1>4 DEF GapBefore
  <2>2. regions \o GapBefore(start) = regions
    BY <2>1, ConcatEmptySeq
  <2> QED
    BY <1>1, <1>4, <2>2
<1> QED
  BY <1>2, <1>3, <1>4

LEMMA InitPInv == Init => PInv
<1> SUFFICES ASSUME Init PROVE PInv
  OBVIOUS
<1> USE DEF Init
<1>1. IInv
  BY InitIInv
<1>2. ShownSoFar
  BY DEF ShownSoFar
<1>3. InOrder
  BY DEF InOrder
<1> QED
  BY <1>1, <1>2, <1>3 DEF PInv

LEMMA PushPrimaryPInv == PInv /\ PushPrimary => PInv'
<1> SUFFICES ASSUME PInv, PushPrimary PROVE PInv'
  OBVIOUS
<1> DEFINE r == Area(0, GptSectors, "GptPrimary")
<1>1. /\ IInv /\ job \in Jobs /\ job' = job /\ left = Used /\ left' = Used
      /\ regions' = <<r>> /\ pos' = GptSectors /\ stage' = "partitions"
  BY DEF PInv, IInv, PushPrimary
<1>2. IInv'
  BY <1>1, PushPrimaryIInv
<1>3. /\ DiskLength' = DiskLength /\ BackupStart' = BackupStart /\ Parts' = Parts
      /\ Used' = Used /\ Regions' = Regions
      /\ \A k : PartEnd(k)' = PartEnd(k)
      /\ Regular' <=> Regular
      /\ \A q : Truthful(q)' <=> Truthful(q)
  BY <1>1, SameJob
<1>4. ShownSoFar'
  BY <1>1, <1>3 DEF ShownSoFar
<1>5. ASSUME Regular PROVE InOrder'
  <2>1. r \in Regions /\ r.start = 0 /\ r.end = GptSectors
    BY <1>1, JobNumbers DEF Area, Region, Regions, RegionSources
  <2>2. Truthful(r)
    BY <1>1, JobNumbers, GptTruth
  <2> HIDE DEF r, Regions
  <2>3. /\ <<r>> \in Seq(Regions) /\ Len(<<r>>) = 1 /\ <<r>>[1] = r /\ DOMAIN <<r>> = {1}
    BY <2>1
  <2>4. \A x \in DOMAIN regions' : Truthful(regions'[x])
    BY <1>1, <2>2, <2>3
  <2>5. Chain(regions, pos)'
    BY <1>1, <1>3, <2>1, <2>3 DEF Chain
  <2>6. GptSectors <= BackupStart /\ \A l \in Used : GptSectors <= Parts[l].start
    BY <1>1, <1>5, JobNumbers DEF Regular, BackupStart
  <2>7. Behind' /\ Ahead'
    BY <1>1, <1>3, <2>6 DEF Behind, Ahead
  <2>8. \A x \in DOMAIN regions' : Truthful(regions[x])'
    BY <1>3, <2>4
  <2> QED
    BY <1>1, <1>3, <2>5, <2>6, <2>7, <2>8, JobNumbers DEF InOrder
<1> QED
  BY <1>1, <1>2, <1>3, <1>4, <1>5 DEF PInv

LEMMA PushPartitionPInv ==
  ASSUME NEW k \in left
  PROVE  PInv /\ PushPartition(k) => PInv'
<1> SUFFICES ASSUME PInv, PushPartition(k) PROVE PInv'
  OBVIOUS
<1>1. PICK path \in ShadowPaths(k) :
        regions' = regions \o GapBefore(Parts[k].start)
                   \o <<Region(Parts[k].start, PartEnd(k),
                               IF path = {} THEN "PartitionRaw" ELSE "PartitionShadow",
                               Parts[k].num, path)>>
  BY DEF PushPartition
<1> DEFINE start == Parts[k].start
           r == Region(start, PartEnd(k),
                       IF path = {} THEN "PartitionRaw" ELSE "PartitionShadow",
                       Parts[k].num, path)
           gapped == regions \o GapBefore(start)
<1>2. /\ IInv /\ job \in Jobs /\ job' = job /\ left \subseteq Used /\ k \in Used
      /\ stage = "partitions" /\ stage' = "partitions" /\ pos' = PartEnd(k)
      /\ left' = left \ {k} /\ NextPartition(k) /\ pos \in Nat /\ Proper(regions)
  BY DEF PInv, IInv, TypeOK, Proper, PushPartition
<1>3. IInv'
  BY <1>2, PushPartitionIInv
<1>4. /\ DiskLength' = DiskLength /\ BackupStart' = BackupStart /\ Parts' = Parts
      /\ Used' = Used /\ Regions' = Regions
      /\ \A l : PartEnd(l)' = PartEnd(l)
      /\ \A l : IsShown(l)' <=> IsShown(l)
      /\ Regular' <=> Regular
      /\ \A q : Truthful(q)' <=> Truthful(q)
  BY <1>2, SameJob
<1>5. start \in Nat /\ PartEnd(k) \in Nat /\ start < PartEnd(k) /\ Parts[k].num \in Nat
  BY <1>2, JobNumbers
<1>6. path \subseteq DOMAIN job.shadow
  BY DEF ShadowPaths, HasShadow
<1>7. /\ r \in Regions /\ r.start = start /\ r.end = PartEnd(k) /\ r.num = Parts[k].num
      /\ r.source \in {"PartitionShadow", "PartitionRaw"}
  BY <1>5, <1>6 DEF Region, Regions, RegionSources
<1>8. regions' = gapped \o <<r>>
  BY <1>1
<1>9. Regular => Truthful(r)
  BY <1>2, PartitionTruth
<1>10. regions \in Seq(Regions) /\ GapBefore(start) \in Seq(Regions)
  BY <1>2, <1>5, GapCovers DEF Proper
<1> HIDE DEF r
<1>11. gapped \in Seq(Regions) /\ \A x \in DOMAIN regions :
                                    x \in DOMAIN gapped /\ gapped[x] = regions[x]
  BY <1>10, MoreShown, ConcatProperties
<1>12. Regular => Chain(gapped, start) /\ \A x \in DOMAIN gapped : Truthful(gapped[x])
  BY <1>2, <1>10, GapInOrder DEF PInv
<1> HIDE DEF gapped, start
<1>13. /\ Len(gapped) + 1 \in DOMAIN regions' /\ regions'[Len(gapped) + 1] = r
       /\ \A x \in DOMAIN gapped : x \in DOMAIN regions' /\ regions'[x] = gapped[x]
  <2>1. Len(gapped) \in Nat
    BY <1>11
  <2> QED
    BY <1>7, <1>8, <1>11, <2>1, OneMore
<1>14. ShownSoFar'
  <2> SUFFICES ASSUME NEW l \in Used \ (left \ {k}), IsShown(l)
               PROVE  \E x \in DOMAIN regions' : ShownAs(x, l)'
    BY <1>2, <1>4 DEF ShownSoFar
  <2>1. CASE l = k
    <3>1. PICK x \in DOMAIN regions' : regions'[x] = r
      BY <1>13
    <3>2. ShownAs(x, l)'
      BY <1>4, <1>7, <2>1, <3>1 DEF ShownAs, start
    <3> QED
      BY <3>2
  <2>2. CASE l # k
    <3>1. PICK x \in DOMAIN regions : ShownAs(x, l)
      BY <2>2 DEF PInv, ShownSoFar
    <3>2. x \in DOMAIN regions' /\ regions'[x] = regions[x]
      BY <1>11, <1>13
    <3>3. ShownAs(x, l)'
      BY <1>4, <3>1, <3>2 DEF ShownAs
    <3> QED
      BY <3>2, <3>3
  <2> QED
    BY <2>1, <2>2
<1>15. ASSUME Regular PROVE InOrder'
  <2>1. Chain(regions', PartEnd(k))
    BY <1>7, <1>8, <1>12, <1>15, LongerChain
  <2>2. \A x \in DOMAIN regions' : Truthful(regions'[x])
    BY <1>7, <1>8, <1>9, <1>11, <1>12, <1>15, MoreTruth
  <2>3. Chain(regions, pos)'
    BY <1>2, <1>4, <2>1 DEF Chain
  <2>4. pos <= start /\ Behind /\ Ahead /\ GptSectors <= pos
    BY <1>2, <1>15 DEF PInv, InOrder, Ahead, start
  <2>5. GptSectors <= pos' /\ pos' <= BackupStart'
    BY <1>2, <1>4, <1>5, <1>15, <2>4, JobNumbers DEF Regular
  <2>6. Behind'
    <3> SUFFICES ASSUME NEW l \in Used \ (left \ {k}) PROVE PartEnd(l) <= PartEnd(k)
      BY <1>2, <1>4 DEF Behind
    <3>1. CASE l = k
      BY <1>5, <3>1
    <3>2. CASE l # k
      <4>1. PartEnd(l) <= pos /\ PartEnd(l) \in Nat
        BY <1>2, <2>4, <3>2, JobNumbers DEF Behind
      <4> QED
        BY <1>2, <1>5, <2>4, <4>1
    <3> QED
      BY <3>1, <3>2
  <2>7. Ahead'
    <3> SUFFICES ASSUME NEW l \in left, l # k PROVE PartEnd(k) <= Parts[l].start
      BY <1>2, <1>4 DEF Ahead
    <3>1. start <= Parts[l].start
      BY <1>2, <1>5, JobNumbers DEF NextPartition, start
    <3>2. l \in Used /\ Parts[l].start \in Nat /\ PartEnd(l) \in Nat /\ Parts[l].start < PartEnd(l)
      BY <1>2, JobNumbers
    <3> QED
      BY <1>2, <1>5, <1>15, <3>1, <3>2 DEF Regular, start
  <2>8. \A x \in DOMAIN regions' : Truthful(regions[x])'
    BY <1>4, <2>2
  <2> QED
    BY <1>2, <2>3, <2>5, <2>6, <2>7, <2>8 DEF InOrder
<1> QED
  BY <1>2, <1>3, <1>4, <1>14, <1>15 DEF PInv

LEMMA SkipPartitionPInv ==
  ASSUME NEW k \in left
  PROVE  PInv /\ SkipPartition(k) => PInv'
<1> SUFFICES ASSUME PInv, SkipPartition(k) PROVE PInv'
  OBVIOUS
<1> DEFINE gap == GapBefore(Parts[k].start)
<1>1. /\ IInv /\ job \in Jobs /\ job' = job /\ left \subseteq Used /\ k \in Used
      /\ stage = "partitions" /\ stage' = "partitions" /\ ~IsShown(k)
      /\ left' = left \ {k} /\ regions' = regions \o gap /\ pos \in Nat /\ Proper(regions)
  BY DEF PInv, IInv, TypeOK, Proper, SkipPartition
<1>2. IInv'
  BY <1>1, SkipPartitionIInv
<1>3. /\ Parts' = Parts /\ Used' = Used
      /\ \A l : PartEnd(l)' = PartEnd(l)
      /\ \A l : IsShown(l)' <=> IsShown(l)
      /\ Regular' <=> Regular
  BY <1>1, SameJob
<1>4. regions \in Seq(Regions) /\ gap \in Seq(Regions)
  BY <1>1, JobNumbers, GapCovers DEF Proper
<1> HIDE DEF gap
<1>5. \A x \in DOMAIN regions : x \in DOMAIN regions' /\ regions'[x] = regions[x]
  BY <1>1, <1>4, MoreShown
<1>6. ShownSoFar'
  <2> SUFFICES ASSUME NEW l \in Used \ left, IsShown(l)
               PROVE  \E x \in DOMAIN regions' : ShownAs(x, l)'
    BY <1>1, <1>3 DEF ShownSoFar
  <2>1. PICK x \in DOMAIN regions : ShownAs(x, l)
    BY DEF PInv, ShownSoFar
  <2>2. x \in DOMAIN regions' /\ ShownAs(x, l)'
    BY <1>3, <1>5, <2>1 DEF ShownAs
  <2> QED
    BY <2>2
<1>7. ~Regular
  <2>1. Parts[k].start \in Nat /\ PartEnd(k) \in Nat /\ Parts[k].start < PartEnd(k)
        /\ BackupStart \in Nat
    BY <1>1, JobNumbers
  <2> QED
    BY <1>1, <2>1 DEF Regular, IsShown
<1> QED
  BY <1>1, <1>2, <1>3, <1>6, <1>7 DEF PInv

LEMMA PushClosingPInv == PInv /\ PushClosing => PInv'
<1> SUFFICES ASSUME PInv, PushClosing PROVE PInv'
  OBVIOUS
<1> DEFINE a   == Area(pos, BackupStart, "Gap")
           b   == Area(BackupStart, DiskLength, "GptBackup")
           gap == IF pos < BackupStart THEN <<a>> ELSE <<>>
           backup == IF BackupStart < DiskLength THEN <<b>> ELSE <<>>
<1>1. /\ IInv /\ job \in Jobs /\ job' = job /\ left = {} /\ left' = {} /\ pos' = pos
      /\ stage = "partitions" /\ stage' = "done" /\ regions' = regions \o (gap \o backup)
      /\ pos \in Nat /\ regions \in Seq(Regions)
  BY DEF PInv, IInv, TypeOK, PushClosing, ClosingRegions
<1>2. IInv'
  BY <1>1, PushClosingIInv
<1>3. /\ DiskLength' = DiskLength /\ Parts' = Parts /\ Used' = Used /\ Regions' = Regions
      /\ \A l : PartEnd(l)' = PartEnd(l)
      /\ \A l : IsShown(l)' <=> IsShown(l)
      /\ Regular' <=> Regular
      /\ \A q : Truthful(q)' <=> Truthful(q)
  BY <1>1, SameJob
<1>4. DiskLength \in Nat /\ BackupStart \in Nat /\ GptSectors \in Nat /\ GptSectors >= 1
  BY <1>1, JobNumbers
<1>5. /\ pos < BackupStart => a \in Regions /\ a.start = pos /\ a.end = BackupStart
      /\ BackupStart < DiskLength =>
           b \in Regions /\ b.start = BackupStart /\ b.end = DiskLength
  BY <1>1, <1>4 DEF Area, Region, Regions, RegionSources
<1>6. ASSUME Regular, InOrder
      PROVE  /\ pos <= BackupStart /\ BackupStart < DiskLength /\ Chain(regions, pos)
             /\ pos < BackupStart => Truthful(a)
             /\ Truthful(b)
             /\ \A x \in DOMAIN regions : Truthful(regions[x])
  <2>1. /\ pos <= BackupStart /\ GptSectors <= pos /\ Chain(regions, pos) /\ Behind
        /\ \A x \in DOMAIN regions : Truthful(regions[x])
    BY <1>1, <1>6 DEF InOrder
  <2>2. BackupStart < DiskLength
    BY <1>4, <1>6 DEF Regular, BackupStart
  <2>3. \A l \in Used : PartEnd(l) <= pos
    BY <1>1, <2>1 DEF Behind
  <2>4. pos < BackupStart => Truthful(a)
    BY <1>1, <1>4, <2>1, <2>3, GapTruth
  <2>5. Truthful(b)
    BY <1>1, <1>4, GptTruth
  <2> QED
    BY <2>1, <2>2, <2>4, <2>5
<1> HIDE DEF a, b
<1>7. gap \in Seq(Regions) /\ backup \in Seq(Regions)
  BY <1>5
<1>8. gap \o backup \in Seq(Regions)
  BY <1>7, ConcatProperties
<1>9. \A x \in DOMAIN regions : x \in DOMAIN regions' /\ regions'[x] = regions[x]
  BY <1>1, <1>8, MoreShown
<1>10. ShownSoFar'
  <2> SUFFICES ASSUME NEW l \in Used \ left, IsShown(l)
               PROVE  \E x \in DOMAIN regions' : ShownAs(x, l)'
    BY <1>1, <1>3 DEF ShownSoFar
  <2>1. PICK x \in DOMAIN regions : ShownAs(x, l)
    BY DEF PInv, ShownSoFar
  <2>2. x \in DOMAIN regions' /\ ShownAs(x, l)'
    BY <1>3, <1>9, <2>1 DEF ShownAs
  <2> QED
    BY <2>2
<1>11. ASSUME Regular PROVE InOrder'
  <2>1. InOrder
    BY <1>11 DEF PInv
  <2>2. /\ pos <= BackupStart /\ BackupStart < DiskLength /\ Chain(regions, pos)
        /\ pos < BackupStart => Truthful(a)
        /\ Truthful(b)
        /\ \A x \in DOMAIN regions : Truthful(regions[x])
    BY <1>6, <1>11, <2>1
  <2> DEFINE filled == regions \o gap
  <2>3. /\ filled \in Seq(Regions) /\ Chain(filled, BackupStart)
        /\ \A x \in DOMAIN filled : Truthful(filled[x])
    <3>1. CASE pos < BackupStart
      <4>1. filled = regions \o <<a>>
        BY <3>1
      <4>2. a \in Regions /\ a.start = pos /\ a.end = BackupStart /\ Truthful(a)
        BY <1>5, <2>2, <3>1
      <4>3. Chain(filled, BackupStart)
        BY <2>2, <4>1, <4>2, LongerChain
      <4>4. \A x \in DOMAIN filled : Truthful(filled[x])
        BY <1>1, <2>2, <4>1, <4>2, MoreTruth
      <4> QED
        BY <4>3, <4>4 DEF Chain
    <3>2. CASE pos = BackupStart
      <4>1. filled = regions
        BY <1>1, <1>4, <3>2, ConcatEmptySeq
      <4> QED
        BY <1>1, <2>2, <3>2, <4>1
    <3>3. pos < BackupStart \/ pos = BackupStart
      BY <1>1, <1>4, <2>2
    <3> QED
      BY <3>1, <3>2, <3>3
  <2>4. backup = <<b>> /\ b \in Regions /\ b.start = BackupStart /\ b.end = DiskLength
    BY <1>5, <2>2
  <2> HIDE DEF gap, backup
  <2>5. regions' = filled \o <<b>>
    BY <1>1, <1>7, <2>4, ConcatAssociative
  <2> HIDE DEF filled
  <2>6. Chain(regions', DiskLength)
    BY <2>3, <2>4, <2>5, LongerChain
  <2>7. \A x \in DOMAIN regions' : Truthful(regions'[x])
    BY <2>2, <2>3, <2>4, <2>5, MoreTruth
  <2>8. Chain(regions, DiskLength)'
    BY <1>3, <2>6 DEF Chain
  <2>9. \A x \in DOMAIN regions' : Truthful(regions[x])'
    BY <1>3, <2>7
  <2> QED
    BY <1>1, <2>8, <2>9 DEF InOrder
<1> QED
  BY <1>1, <1>2, <1>3, <1>10, <1>11 DEF PInv

LEMMA StutterPInv == PInv /\ UNCHANGED vars => PInv'
<1> SUFFICES ASSUME PInv, UNCHANGED vars PROVE PInv'
  OBVIOUS
<1>1. job' = job /\ stage' = stage /\ left' = left /\ pos' = pos /\ regions' = regions
  BY DEF vars
<1>2. /\ DiskLength' = DiskLength /\ BackupStart' = BackupStart /\ Parts' = Parts
      /\ Used' = Used /\ Regions' = Regions
      /\ \A l : PartEnd(l)' = PartEnd(l)
      /\ \A l : IsShown(l)' <=> IsShown(l)
      /\ Regular' <=> Regular
      /\ \A q : Truthful(q)' <=> Truthful(q)
  BY <1>1, SameJob
<1>3. IInv'
  BY <1>1 DEF PInv, IInv, TypeOK, CoveredToPos, RegionsCover, Shows, DiskLength, Regions, Used,
              Parts
<1>4. ShownSoFar'
  BY <1>1, <1>2 DEF PInv, ShownSoFar, ShownAs
<1>5. InOrder => InOrder'
  <2> SUFFICES ASSUME InOrder PROVE InOrder'
    OBVIOUS
  <2>1. stage = "partitions" => (Chain(regions, pos) /\ Behind /\ Ahead)'
    BY <1>1, <1>2 DEF InOrder, Chain, Behind, Ahead
  <2>2. stage = "done" => Chain(regions, DiskLength)'
    BY <1>1, <1>2 DEF InOrder, Chain
  <2>3. \A x \in DOMAIN regions : Truthful(regions[x])'
    BY <1>1, <1>2 DEF InOrder
  <2> QED
    BY <1>1, <1>2, <2>1, <2>2, <2>3 DEF InOrder
<1> QED
  BY <1>1, <1>2, <1>3, <1>4, <1>5 DEF PInv

(* PInv holds initially and every step keeps it. *)
THEOREM PreviewInductive == Spec => []PInv
<1>1. Init => PInv
  BY InitPInv
<1>2. PInv /\ [Next]_vars => PInv'
  <2> SUFFICES ASSUME PInv, [Next]_vars PROVE PInv'
    OBVIOUS
  <2>1. CASE PushPrimary
    BY <2>1, PushPrimaryPInv
  <2>2. CASE PushClosing
    BY <2>2, PushClosingPInv
  <2>3. CASE UNCHANGED vars
    BY <2>3, StutterPInv
  <2>4. CASE Returned
    BY <2>3, <2>4 DEF Returned
  <2>5. CASE \E k \in left : PushPartition(k)
    BY <2>5, PushPartitionPInv
  <2>6. CASE \E k \in left : SkipPartition(k)
    BY <2>6, SkipPartitionPInv
  <2> QED
    BY <2>1, <2>2, <2>3, <2>4, <2>5, <2>6 DEF Next
<1> QED
  BY <1>1, <1>2, PTL DEF Spec

(* A partition the stream reads from has a region of its own in the preview, on any layout. *)
THEOREM ShownCorrect == Spec => []PartitionsShown
<1>1. PInv => PartitionsShown
  <2> SUFFICES ASSUME PInv, stage = "done", NEW k \in Used,
                      NEW i \in Parts[k].start..(PartEnd(k) - 1), InMiddle(i)
               PROVE  \E x \in DOMAIN regions : ShownAs(x, k)
    BY DEF PartitionsShown, ShownAs
  <2>1. k \in Used \ left
    BY DEF PInv
  <2>2. Parts[k].start \in Nat /\ PartEnd(k) \in Nat /\ BackupStart \in Nat
    BY JobNumbers DEF PInv, IInv
  <2>3. IsShown(k)
    BY <2>2 DEF InMiddle, IsShown
  <2> QED
    BY <2>1, <2>3 DEF PInv, ShownSoFar
<1> QED
  BY <1>1, PreviewInductive, PTL

(* On every regular disk the regions follow one another from the first sector to the last. *)
THEOREM TileCorrect == Spec => []RegionsTile
<1>1. PInv => RegionsTile
  BY DEF PInv, InOrder, Chain, RegionsTile
<1> QED
  BY <1>1, PreviewInductive, PTL

(* On every regular disk the preview says of each sector what stream_to plans for it. *)
THEOREM PreviewCorrect == Spec => []PreviewMatchesPlan
<1>1. PInv => PreviewMatchesPlan
  BY DEF PInv, InOrder, Truthful, Said, PreviewMatchesPlan
<1> QED
  BY <1>1, PreviewInductive, PTL
=============================================================================
