------------------------ MODULE ImageBuilder_proofs ------------------------
(***************************************************************************)
(* Proofs about ImageBuilder::stream_to for every disk length, partition   *)
(* layout, shadow map, exclusion set, sink and buffer size.                *)
(***************************************************************************)
EXTENDS ImageBuilder, TLAPS

(***************************************************************************)
(* The inductive invariant.  LayoutPreserved alone is not inductive: that  *)
(* the next write keeps it needs the buffer to hold planned contents       *)
(* (Ready), which needs the chunk to lie in one region (Chunk) and the     *)
(* read to have been made from the right device (OnShadow); and that what  *)
(* is written at sink_pos was read at pos needs the two to agree.          *)
(***************************************************************************)
Positions ==
  /\ total_written = pos
  /\ pos <= DiskLength
  /\ sink_pos <= DiskLength
  /\ stage # "failed" => sink_pos = pos
  /\ stage = "sector0" => pos = 0
  /\ stage \in {"flush", "done"} => pos = DiskLength
  /\ stage # "incomplete"

InChunk == stage \in {"region", "readShadow", "retryShadow", "fallback"}

Chunk ==
  InChunk => /\ pos < DiskLength
             /\ to_write >= 1
             /\ ChunkEnd(pos + to_write)

FirstSector ==
  stage \in {"loop", "region"} /\ pos = 0 /\ DiskLength > 0 => buffer[0] = Raw(0)

OnShadow ==
  stage \in {"readShadow", "retryShadow", "fallback"} =>
    /\ InMiddle(pos)
    /\ FirstOwner(part, pos)
    /\ ~Excluded(part)
    /\ HasShadow(part)

Ready ==
  stage = "write" =>
    /\ n >= 1
    /\ pos + n <= DiskLength
    /\ \A b \in 0..(n - 1) : buffer[b] \in PlanOf(pos + b)

StreamInv ==
  /\ StreamTypeOK
  /\ Positions
  /\ Chunk
  /\ FirstSector
  /\ OnShadow
  /\ Ready
  /\ LayoutPreserved

-----------------------------------------------------------------------------
(* Casting a length to a DWORD never makes it longer. *)
LEMMA AsDwordBound ==
  ASSUME NEW x \in Nat
  PROVE  AsDword(x) \in Nat /\ AsDword(x) <= x
  BY DwordAssumption DEF AsDword

(* What a sink reports it wrote is what it took, and that is no more than it was given. *)
LEMMA WriteFacts ==
  ASSUME NEW kind \in SinkKinds, NEW len \in Nat, NEW w \in WriteOutcomes(kind, len)
  PROVE  /\ w.ok \in BOOLEAN
         /\ w.taken \in 0..len
         /\ w.ok => w.ret = w.taken
<1>1. AsDword(len) \in Nat /\ AsDword(len) <= len
  BY AsDwordBound
<1>2. \E t \in 0..len : \/ w = Outcome(TRUE, t, t)
                        \/ w = Outcome(FALSE, 0, t)
  <2>0. ASSUME NEW m \in 0..len, w \in Failed(m)
        PROVE  \E t \in 0..len : w = Outcome(FALSE, 0, t)
    BY <2>0 DEF Failed, Outcome
  <2>1. CASE kind = "file"
    <3>1. w \in FileWrite(len)
      BY <2>1 DEF WriteOutcomes
    <3>2. w \in Failed(AsDword(len)) \/ w = Outcome(TRUE, len, len)
      BY <3>1 DEF FileWrite
    <3> QED
      BY <3>2, <2>0, <1>1 DEF Outcome
  <2>2. CASE kind = "disk"
    <3>1. w \in LocalDiskWrite(len)
      BY <2>2 DEF WriteOutcomes
    <3>2. w \in Failed(AsDword(len)) \/ \E t \in 0..AsDword(len) : w = Outcome(TRUE, t, t)
      BY <3>1 DEF LocalDiskWrite
    <3> QED
      BY <3>2, <2>0, <1>1 DEF Outcome
  <2>3. CASE kind = "ssh"
    <3>1. w \in SshWrite(len)
      BY <2>3 DEF WriteOutcomes
    <3>2. w \in Failed(len) \/ w = Outcome(TRUE, len, len)
      BY <3>1 DEF SshWrite
    <3> QED
      BY <3>2, <2>0 DEF Outcome
  <2> QED
    BY <2>1, <2>2, <2>3 DEF SinkKinds
<1>3. ASSUME NEW t \in 0..len, w = Outcome(TRUE, t, t)
      PROVE  w.ok = TRUE /\ w.ret = t /\ w.taken = t
  BY <1>3 DEF Outcome
<1>4. ASSUME NEW t \in 0..len, w = Outcome(FALSE, 0, t)
      PROVE  w.ok = FALSE /\ w.taken = t
  BY <1>4 DEF Outcome
<1> QED
  BY <1>2, <1>3, <1>4

(* The geometry of a job is made of natural numbers. *)
LEMMA JobNumbers ==
  ASSUME job \in Jobs
  PROVE  /\ DiskLength \in Nat
         /\ BufferSectors \in Nat /\ BufferSectors >= 1
         /\ GptSectors \in Nat /\ GptSectors >= 1
         /\ BackupStart \in Nat /\ BackupStart <= DiskLength
         /\ DOMAIN Parts \subseteq Nat
         /\ \A k \in DOMAIN Parts : /\ Parts[k].num \in Nat
                                    /\ Parts[k].start \in Nat
                                    /\ Parts[k].len \in Nat
                                    /\ PartEnd(k) \in Nat
         /\ job.sink \in SinkKinds
<1>1. IsJob(job)
  BY GeometryAssumption
<1>2. \A k \in DOMAIN Parts : Parts[k] \in [num : Nat, start : Nat, len : Nat]
  <2> DEFINE Entry == [num : Nat, start : Nat, len : Nat]
  <2>1. Parts \in Seq(Entry)
    BY <1>1 DEF IsJob, Parts
  <2> HIDE DEF Entry
  <2>2. \A k \in DOMAIN Parts : Parts[k] \in Entry
    BY <2>1
  <2> QED
    BY <2>2 DEF Entry
<1>3. DOMAIN Parts \subseteq Nat
  BY <1>1 DEF IsJob, Parts
<1> QED
  BY <1>1, <1>2, <1>3, GeometryAssumption, BuilderAssumption
  DEF IsJob, DiskLength, BufferSectors, BackupStart, PartEnd

(***************************************************************************)
(* A chunk lies in one region of the disk and in the same partitions from  *)
(* its first sector to its last; it fits in the buffer and on the disk.    *)
(***************************************************************************)
LEMMA ChunkHomogeneous ==
  ASSUME job \in Jobs, pos \in Nat, NEW e \in Nat, ChunkEnd(e),
         NEW i \in Nat, pos <= i, i < e
  PROVE  /\ e <= pos + BufferSectors
         /\ e <= DiskLength
         /\ InPrimary(pos) => InPrimary(i)
         /\ InBackup(pos) => InBackup(i)
         /\ InMiddle(pos) => InMiddle(i) /\ Owners(i) = Owners(pos)
<1> USE JobNumbers
<1>1. /\ e <= pos + BufferSectors
      /\ e <= DiskLength
      /\ InPrimary(pos) => e <= GptSectors
      /\ InMiddle(pos) =>
           /\ e <= BackupStart
           /\ \A k \in Used : pos < Parts[k].start => e <= Parts[k].start
           /\ \A k \in Owners(pos) : e <= PartEnd(k)
  BY DEF ChunkEnd, ChunkLimits
<1>2. InPrimary(pos) => InPrimary(i)
  BY <1>1 DEF InPrimary
<1>3. InBackup(pos) => InBackup(i)
  BY DEF InBackup
<1>4. ASSUME InMiddle(pos)
      PROVE  InMiddle(i) /\ Owners(i) = Owners(pos)
  <2>1. InMiddle(i)
    BY <1>1, <1>4 DEF InMiddle
  <2>2. ASSUME NEW k \in Owners(pos)
        PROVE  k \in Owners(i)
    BY <1>1, <1>4, <2>2 DEF Owners, Used
  <2>3. ASSUME NEW k \in Owners(i)
        PROVE  k \in Owners(pos)
    <3>1. k \in Used /\ Parts[k].start <= i /\ i < PartEnd(k)
      BY DEF Owners
    <3>2. Parts[k].start <= pos
      BY <3>1, <1>1, <1>4 DEF Used
    <3> QED
      BY <3>1, <3>2 DEF Owners, Used
  <2> QED
    BY <2>1, <2>2, <2>3
<1> QED
  BY <1>1, <1>2, <1>3, <1>4

(* The plan is the same, up to the address, on two sectors with the same owners. *)
LEMMA PlanRaw ==
  ASSUME NEW i \in Nat, ~InMiddle(i)
  PROVE  Raw(i) \in PlanOf(i)
  BY DEF PlanOf

LEMMA PlanGap ==
  ASSUME NEW i \in Nat, InMiddle(i), Owners(i) = {}
  PROVE  Zero \in PlanOf(i)
  BY DEF PlanOf

LEMMA PlanPartition ==
  ASSUME NEW i \in Nat, InMiddle(i), NEW k, FirstOwner(k, i)
  PROVE  PartitionPlan(k, i) \subseteq PlanOf(i)
  BY DEF PlanOf, FirstOwner

-----------------------------------------------------------------------------
(* The job never changes, so neither do its geometry and its plan. *)
LEMMA JobUnchanged ==
  ASSUME job' = job
  PROVE  /\ DiskLength' = DiskLength
         /\ BufferSectors' = BufferSectors
         /\ \A i : PlanOf(i)' = PlanOf(i)
         /\ \A i : InMiddle(i)' = InMiddle(i)
         /\ \A k, i : FirstOwner(k, i)' = FirstOwner(k, i)
         /\ \A k : Excluded(k)' = Excluded(k)
         /\ \A k : HasShadow(k)' = HasShadow(k) /\ CopyOf(k)' = CopyOf(k)
         /\ Written' = Written
  BY DEF DiskLength, BufferSectors, PlanOf, PartitionPlan, FirstOwner, Owners, Excluded,
         HasShadow, CopyOf, ShadowCopies, Written, InMiddle, BackupStart, Parts, PartEnd, Used,
         Raw, Shadow, Zero

LEMMA ChunkEndUnchanged ==
  ASSUME job' = job, pos' = pos, NEW e
  PROVE  ChunkEnd(e)' = ChunkEnd(e)
  BY DEF ChunkEnd, ChunkLimits, DiskLength, BufferSectors, InPrimary, InMiddle, BackupStart,
         Parts, PartEnd, Used, Owners

(* A step that leaves the destination alone keeps what it holds. *)
LEMMA LayoutUnchanged ==
  ASSUME LayoutPreserved, UNCHANGED <<job, image, sink_pos>>
  PROVE  LayoutPreserved'
<1>1. \A i : PlanOf(i)' = PlanOf(i)
  BY JobUnchanged
<1> QED
  BY <1>1 DEF LayoutPreserved, Unwritten

(* What Filled puts into the buffer. *)
LEMMA FilledFacts ==
  ASSUME StreamTypeOK, NEW at \in Nat, NEW r \in Nat,
         NEW src \in {"raw", "zero"} \cup ShadowCopies, NEW first \in Nat
  PROVE  /\ Filled(at, r, src, first) \in [0..(BufferSectors - 1) -> Written]
         /\ \A b \in 0..(BufferSectors - 1) :
              Filled(at, r, src, first)[b] =
                IF at <= b /\ b < at + r THEN [src |-> src, at |-> first + (b - at)]
                                         ELSE buffer[b]
<1>1. BufferSectors \in Nat
  BY JobNumbers DEF StreamTypeOK
<1>2. DOMAIN buffer = 0..(BufferSectors - 1)
  BY DEF StreamTypeOK
<1>3. \A b \in 0..(BufferSectors - 1) : buffer[b] \in Written
  BY DEF StreamTypeOK
<1>4. \A b \in 0..(BufferSectors - 1) :
         at <= b => [src |-> src, at |-> first + (b - at)] \in Written
  BY <1>1 DEF Written
<1> QED
  BY <1>1, <1>2, <1>3, <1>4 DEF Filled

LEMMA ZeroFilledFacts ==
  ASSUME StreamTypeOK, NEW len \in Nat
  PROVE  /\ ZeroFilled(len) \in [0..(BufferSectors - 1) -> Written]
         /\ \A b \in 0..(BufferSectors - 1) :
              ZeroFilled(len)[b] = IF b < len THEN Zero ELSE buffer[b]
<1>1. BufferSectors \in Nat
  BY JobNumbers DEF StreamTypeOK
<1>2. DOMAIN buffer = 0..(BufferSectors - 1)
  BY DEF StreamTypeOK
<1>3. \A b \in 0..(BufferSectors - 1) : buffer[b] \in Written
  BY DEF StreamTypeOK
<1>4. Zero \in Written
  BY DEF Zero, Written
<1> QED
  BY <1>1, <1>2, <1>3, <1>4 DEF ZeroFilled

-----------------------------------------------------------------------------
(* The invariant holds when stream_to is called. *)
LEMMA InitInvariant ==
  ASSUME StreamInit
  PROVE  StreamInv
<1> USE JobNumbers DEF StreamInit
<1>1. StreamTypeOK
  <2>1. buffer \in [0..(BufferSectors - 1) -> Written]
    BY DEF Zero, Written
  <2>2. image \in [0..(DiskLength - 1) -> Written \cup {Unwritten}]
    OBVIOUS
  <2>3. stream_status \in [source : Sources, part : Nat]
    BY DEF Sources
  <2>4. n \in 0..BufferSectors
    <3>1. BufferSectors \in Nat
      OBVIOUS
    <3> QED
      BY <3>1
  <2>5. /\ job \in Jobs /\ stage \in Locations /\ pos \in Nat /\ total_written \in Nat
        /\ to_write \in Nat /\ part \in Nat /\ handle \in {"none", "open", "closed"}
        /\ fallbacks \subseteq Nat /\ emptied \subseteq 0..(DiskLength - 1) /\ sink_pos \in Nat
        /\ double_close \in BOOLEAN /\ leaked \in BOOLEAN
    BY DEF Locations
  <2> QED
    BY ONLY <2>1, <2>2, <2>3, <2>4, <2>5 DEF StreamTypeOK
<1>2. Positions
  <2>1. DiskLength \in Nat
    OBVIOUS
  <2> QED
    BY <2>1 DEF Positions
<1>3. Chunk /\ FirstSector /\ OnShadow /\ Ready
  BY DEF Chunk, InChunk, FirstSector, OnShadow, Ready
<1>4. LayoutPreserved
  BY DEF LayoutPreserved
<1> QED
  BY <1>1, <1>2, <1>3, <1>4 DEF StreamInv

(***************************************************************************)
(* A step to one of the locations from which nothing is written any more   *)
(* keeps the invariant when it leaves addresses, job and image alone.      *)
(***************************************************************************)
LEMMA StopInvariant ==
  ASSUME StreamInv, StreamTypeOK', stage' \in {"failed", "panicked"}, stage # "failed",
         UNCHANGED <<job, pos, total_written, sink_pos, image>>
  PROVE  StreamInv'
<1>1. Positions'
  BY JobUnchanged DEF StreamInv, Positions
<1>2. (Chunk /\ FirstSector /\ OnShadow /\ Ready)'
  BY DEF Chunk, InChunk, FirstSector, OnShadow, Ready
<1>3. LayoutPreserved'
  BY LayoutUnchanged DEF StreamInv
<1> QED
  BY <1>1, <1>2, <1>3 DEF StreamInv

LEMMA FailInvariant ==
  ASSUME StreamInv, stage # "failed", Fail
  PROVE  StreamInv'
<1>1. StreamTypeOK'
  BY JobUnchanged DEF StreamInv, StreamTypeOK, Fail, Enter, Locations
<1> QED
  BY <1>1, StopInvariant DEF Fail, Enter

LEMMA ReadSector0Invariant ==
  ASSUME StreamInv, ReadSector0
  PROVE  StreamInv'
<1>1. StreamTypeOK /\ stage = "sector0" /\ pos = 0
  BY DEF StreamInv, ReadSector0, Positions
<1>2. CASE Fail
  BY <1>1, <1>2, FailInvariant
<1>3. CASE /\ DiskLength > 0
           /\ buffer' = Filled(0, 1, "raw", 0)
           /\ Enter("loop")
           /\ UNCHANGED <<job, pos, total_written, to_write, n, part, handle, stream_status,
                          fallbacks, emptied, image, sink_pos, double_close, leaked>>
  <2>1. /\ buffer' \in [0..(BufferSectors - 1) -> Written]
        /\ buffer'[0] = Raw(0)
    <3>1. BufferSectors \in Nat /\ BufferSectors >= 1
      BY <1>1, JobNumbers DEF StreamTypeOK
    <3>2. 0 \in 0..(BufferSectors - 1)
      BY <3>1
    <3>3. "raw" \in {"raw", "zero"} \cup ShadowCopies /\ 0 \in Nat /\ 1 \in Nat
      OBVIOUS
    <3> QED
      BY <1>1, <1>3, <3>2, <3>3, FilledFacts DEF Raw
  <2>2. StreamTypeOK'
    BY <1>1, <1>3, <2>1, JobUnchanged DEF StreamTypeOK, Enter, Locations
  <2>3. Positions'
    BY <1>1, <1>3, JobUnchanged DEF StreamInv, Positions, Enter
  <2>4. (Chunk /\ FirstSector /\ OnShadow /\ Ready)'
    BY <1>3, <2>1 DEF Chunk, InChunk, FirstSector, OnShadow, Ready, Enter, Raw
  <2>5. LayoutPreserved'
    BY <1>3, LayoutUnchanged DEF StreamInv
  <2> QED
    BY <2>2, <2>3, <2>4, <2>5 DEF StreamInv
<1> QED
  BY <1>2, <1>3 DEF ReadSector0

LEMMA LoopInvariant ==
  ASSUME StreamInv, NextChunk \/ LoopEnds
  PROVE  StreamInv'
<1>1. StreamTypeOK /\ stage = "loop"
  BY DEF StreamInv, NextChunk, LoopEnds
<1>2. CASE NextChunk
  <2>1. PICK e \in ChunkLimits : /\ ChunkEnd(e)
                                 /\ to_write' = e - pos
                                 /\ stage' = IF e = pos THEN "flush" ELSE "region"
    BY <1>2 DEF NextChunk, Enter
  <2>2. e \in Nat /\ e > pos
    <3>1. pos < DiskLength /\ pos \in Nat
      BY <1>2, <1>1 DEF NextChunk, StreamTypeOK
    <3>2. \A l \in ChunkLimits : l \in Nat /\ l > pos
      BY <1>1, <3>1, JobNumbers
      DEF StreamTypeOK, ChunkLimits, InPrimary, InMiddle, Owners, Used
    <3> QED
      BY <3>2
  <2>3. UNCHANGED <<job, pos, total_written, buffer, n, part, handle, stream_status,
                    fallbacks, emptied, image, sink_pos, double_close, leaked>>
    BY <1>2 DEF NextChunk
  <2>4. stage' = "region" /\ to_write' \in Nat /\ to_write' >= 1 /\ pos + to_write' = e
    BY <1>1, <2>1, <2>2 DEF StreamTypeOK
  <2>5. StreamTypeOK'
    BY <1>1, <2>3, <2>4, JobUnchanged DEF StreamTypeOK, Locations
  <2>6. Positions'
    BY <2>3, <2>4, <1>1, JobUnchanged DEF StreamInv, Positions
  <2>7. Chunk'
    <3>1. ChunkEnd(e)'
      BY <2>1, <2>3, ChunkEndUnchanged
    <3>2. (pos + to_write)' = e
      BY <2>3, <2>4
    <3> QED
      BY <1>2, <2>3, <2>4, <3>1, <3>2, JobUnchanged DEF Chunk, NextChunk
  <2>8. (FirstSector /\ OnShadow /\ Ready)'
    BY <1>1, <2>3, <2>4, JobUnchanged DEF StreamInv, FirstSector, OnShadow, Ready, Raw
  <2>9. LayoutPreserved'
    BY <2>3, LayoutUnchanged DEF StreamInv
  <2> QED
    BY <2>5, <2>6, <2>7, <2>8, <2>9 DEF StreamInv
<1>3. CASE LoopEnds
  <2>1. /\ stage' = "flush" /\ pos >= DiskLength
        /\ UNCHANGED <<job, pos, total_written, to_write, buffer, n, part, handle,
                       stream_status, fallbacks, emptied, image, sink_pos, double_close, leaked>>
    BY <1>3 DEF LoopEnds, Enter
  <2>2. StreamTypeOK'
    BY <1>1, <2>1, JobUnchanged DEF StreamTypeOK, Locations
  <2>3. Positions'
    BY <2>1, <1>1, JobUnchanged, JobNumbers DEF StreamInv, Positions, StreamTypeOK
  <2>4. (Chunk /\ FirstSector /\ OnShadow /\ Ready)'
    BY <2>1 DEF Chunk, InChunk, FirstSector, OnShadow, Ready
  <2>5. LayoutPreserved'
    BY <2>1, LayoutUnchanged DEF StreamInv
  <2> QED
    BY <2>2, <2>3, <2>4, <2>5 DEF StreamInv
<1> QED
  BY <1>2, <1>3

-----------------------------------------------------------------------------
(* A step that fills the buffer with planned contents and goes on to write them. *)
LEMMA ReadyInvariant ==
  ASSUME StreamInv, StreamTypeOK', stage \notin {"failed", "sector0"}, stage' = "write",
         UNCHANGED <<job, pos, total_written, sink_pos, image>>,
         n' >= 1, pos + n' <= DiskLength,
         \A b \in 0..(n' - 1) : buffer'[b] \in PlanOf(pos + b)
  PROVE  StreamInv'
<1>1. Positions'
  BY JobUnchanged DEF StreamInv, Positions
<1>2. (Chunk /\ FirstSector /\ OnShadow)'
  BY DEF Chunk, InChunk, FirstSector, OnShadow
<1>3. Ready'
  BY JobUnchanged DEF Ready
<1>4. LayoutPreserved'
  BY LayoutUnchanged DEF StreamInv
<1> QED
  BY <1>1, <1>2, <1>3, <1>4 DEF StreamInv

(* What is known of the chunk while it is being read. *)
LEMMA ChunkFacts ==
  ASSUME StreamInv, InChunk
  PROVE  /\ pos \in Nat /\ to_write \in Nat /\ to_write >= 1
         /\ to_write <= BufferSectors
         /\ pos + to_write <= DiskLength
         /\ \A i \in pos..(pos + to_write - 1) :
              /\ InPrimary(pos) => InPrimary(i)
              /\ InBackup(pos) => InBackup(i)
              /\ InMiddle(pos) => InMiddle(i) /\ Owners(i) = Owners(pos)
<1>1. /\ StreamTypeOK /\ pos \in Nat /\ to_write \in Nat /\ to_write >= 1 /\ job \in Jobs
      /\ ChunkEnd(pos + to_write)
  BY DEF StreamInv, StreamTypeOK, Chunk
<1>2. /\ pos + to_write \in Nat /\ pos < pos + to_write
  BY <1>1
<1>3. /\ pos + to_write <= pos + BufferSectors
      /\ pos + to_write <= DiskLength
  BY <1>1, <1>2, ChunkHomogeneous
<1>4. ASSUME NEW i \in pos..(pos + to_write - 1)
      PROVE  /\ InPrimary(pos) => InPrimary(i)
             /\ InBackup(pos) => InBackup(i)
             /\ InMiddle(pos) => InMiddle(i) /\ Owners(i) = Owners(pos)
  <2>1. i \in Nat /\ pos <= i /\ i < pos + to_write
    BY <1>1
  <2> QED
    BY <1>1, <1>2, <2>1, ChunkHomogeneous
<1>5. BufferSectors \in Nat
  BY <1>1, JobNumbers
<1> QED
  BY <1>1, <1>3, <1>4, <1>5

(* A read of the current chunk from a device whose content is planned for it. *)
LEMMA ReadChunkInvariant ==
  ASSUME StreamInv, InChunk, StreamTypeOK', NEW r \in Nat, r >= 1, r <= to_write,
         NEW src, NEW first \in Nat,
         buffer' = Filled(0, r, src, first), n' = r, stage' = "write",
         UNCHANGED <<job, pos, total_written, sink_pos, image>>,
         \A b \in 0..(to_write - 1) : [src |-> src, at |-> first + b] \in PlanOf(pos + b)
  PROVE  StreamInv'
<1>1. StreamTypeOK /\ pos \in Nat /\ to_write \in Nat /\ to_write <= BufferSectors
      /\ pos + to_write <= DiskLength /\ BufferSectors \in Nat /\ DiskLength \in Nat
  BY ChunkFacts, JobNumbers DEF StreamInv, StreamTypeOK
<1>2. ASSUME NEW b \in 0..(r - 1)
      PROVE  buffer'[b] \in PlanOf(pos + b)
  <2>1. b \in 0..(BufferSectors - 1) /\ 0 <= b /\ b < 0 + r
    BY <1>1
  <2>2. buffer'[b] = [src |-> src, at |-> first + (b - 0)]
    <3>1. DOMAIN buffer = 0..(BufferSectors - 1)
      BY <1>1 DEF StreamTypeOK
    <3> QED
      BY <2>1, <3>1 DEF Filled
  <2>3. b \in 0..(to_write - 1) /\ first + (b - 0) = first + b
    BY <1>1
  <2> QED
    BY <2>2, <2>3
<1>3. pos + n' <= DiskLength
  BY <1>1
<1>4. stage \notin {"failed", "sector0"}
  BY DEF InChunk
<1> QED
  BY <1>2, <1>3, <1>4, ReadyInvariant

(* Reads of the chunk from the raw disk: RawPartition, PrimaryGpt and BackupGpt. *)
LEMMA RawChunkInvariant ==
  ASSUME StreamInv, stage = "region", ReadRaw(0, RawCounts, pos),
         UNCHANGED <<job, pos, total_written, to_write, handle, fallbacks, emptied, image, sink_pos,
                     double_close>>,
         part' \in Nat, stream_status' \in [source : Sources, part : Nat],
         \A i \in pos..(pos + to_write - 1) : Raw(i) \in PlanOf(i)
  PROVE  StreamInv'
<1>1. /\ StreamTypeOK /\ InChunk /\ pos \in Nat /\ to_write \in Nat /\ to_write <= BufferSectors
      /\ BufferSectors \in Nat
  BY ChunkFacts, JobNumbers DEF StreamInv, StreamTypeOK, InChunk
<1>2. leaked' = leaked
  BY DEF ReadRaw
<1>3. ASSUME NEW r \in RawCounts,
             buffer' = Filled(0, r, "raw", pos), n' = 0 + r,
             stage' = IF 0 + r = 0 THEN "failed" ELSE "write"
      PROVE  StreamInv'
  <2>1. r \in Nat /\ r <= to_write
    BY <1>1, <1>3, AsDwordBound DEF RawCounts, ReadCounts
  <2>2. StreamTypeOK'
    <3>1. buffer' \in [0..(BufferSectors - 1) -> Written]
      BY <1>1, <1>3, <2>1, FilledFacts
    <3>2. n' \in 0..BufferSectors
      BY <1>1, <1>3, <2>1
    <3> QED
      BY <1>1, <1>2, <1>3, <3>1, <3>2, JobUnchanged DEF StreamTypeOK, Locations
  <2>3. CASE r = 0
    BY <1>3, <2>1, <2>2, <2>3, StopInvariant
  <2>4. CASE r # 0
    <3>1. \A b \in 0..(to_write - 1) : [src |-> "raw", at |-> pos + b] \in PlanOf(pos + b)
      BY <1>1 DEF Raw
    <3>2. r >= 1 /\ n' = r /\ stage' = "write"
      BY <1>3, <2>1, <2>4
    <3> QED
      BY <1>1, <1>3, <2>1, <2>2, <3>1, <3>2, ReadChunkInvariant
  <2> QED
    BY <2>3, <2>4
<1>4. ASSUME stage' = "failed", UNCHANGED <<buffer, n>>
      PROVE  StreamInv'
  <2>1. StreamTypeOK'
    BY <1>1, <1>2, <1>4, JobUnchanged DEF StreamTypeOK, Locations
  <2> QED
    BY <1>4, <2>1, StopInvariant
<1> QED
  BY <1>3, <1>4 DEF ReadRaw, Enter

-----------------------------------------------------------------------------
(* One lemma for each region of the disk. *)
LEMMA ReportType ==
  ASSUME NEW source \in Sources, NEW k \in Nat, Report(source, k)
  PROVE  stream_status' \in [source : Sources, part : Nat]
  BY DEF Report

LEMMA RegionFacts ==
  ASSUME StreamInv, stage = "region"
  PROVE  StreamTypeOK /\ InChunk /\ pos \in Nat /\ pos < DiskLength /\ part \in Nat /\ job \in Jobs
  BY DEF StreamInv, StreamTypeOK, InChunk, Chunk

LEMMA GptInvariant ==
  ASSUME StreamInv, PrimaryGpt \/ BackupGpt
  PROVE  StreamInv'
<1>1. stage = "region"
  BY DEF PrimaryGpt, BackupGpt
<1>2. StreamTypeOK /\ InChunk /\ pos \in Nat /\ part \in Nat
  BY <1>1, RegionFacts
<1>3. stream_status' \in [source : Sources, part : Nat]
  BY ReportType DEF PrimaryGpt, BackupGpt, Sources
<1>4. ASSUME NEW i \in pos..(pos + to_write - 1)
      PROVE  Raw(i) \in PlanOf(i)
  <2>1. InPrimary(i) \/ InBackup(i)
    BY <1>2, ChunkFacts DEF PrimaryGpt, BackupGpt
  <2>2. i \in Nat
    BY <1>2, ChunkFacts
  <2>3. BackupStart \in Nat /\ GptSectors \in Nat
    BY <1>1, RegionFacts, JobNumbers
  <2>4. ~InMiddle(i)
    BY <2>1, <2>2, <2>3 DEF InMiddle, InPrimary, InBackup
  <2> QED
    BY <2>2, <2>4, PlanRaw
<1> QED
  BY <1>1, <1>2, <1>3, <1>4, RawChunkInvariant DEF PrimaryGpt, BackupGpt

LEMMA RawPartitionInvariant ==
  ASSUME StreamInv, RawPartition
  PROVE  StreamInv'
<1>1. stage = "region" /\ InMiddle(pos)
  BY DEF RawPartition
<1>2. StreamTypeOK /\ InChunk /\ pos \in Nat /\ job \in Jobs
  BY <1>1, RegionFacts
<1>3. PICK k \in Owners(pos) : /\ FirstOwner(k, pos)
                               /\ ~Excluded(k)
                               /\ ~HasShadow(k)
                               /\ Report("PartitionRaw", Parts[k].num)
                               /\ part' = k
  BY DEF RawPartition
<1>4. k \in Nat /\ Parts[k].num \in Nat
  BY <1>2, JobNumbers DEF Owners, Used
<1>5. stream_status' \in [source : Sources, part : Nat]
  BY <1>3, <1>4, ReportType DEF Sources
<1>6. ASSUME NEW i \in pos..(pos + to_write - 1)
      PROVE  Raw(i) \in PlanOf(i)
  <2>1. i \in Nat /\ InMiddle(i) /\ FirstOwner(k, i)
    BY <1>1, <1>2, <1>3, ChunkFacts DEF FirstOwner
  <2>2. Raw(i) \in PartitionPlan(k, i)
    BY <1>3 DEF PartitionPlan
  <2> QED
    BY <2>1, <2>2, PlanPartition
<1> QED
  BY <1>1, <1>3, <1>4, <1>5, <1>6, RawChunkInvariant DEF RawPartition

(* Zeros for a gap or for an excluded partition. *)
LEMMA ZeroChunkInvariant ==
  ASSUME StreamInv, stage = "region", stage' = "write",
         buffer' = ZeroFilled(to_write), n' = to_write,
         UNCHANGED <<job, pos, total_written, to_write, part, handle, fallbacks, emptied, image,
                     sink_pos, double_close, leaked>>,
         stream_status' \in [source : Sources, part : Nat],
         \A i \in pos..(pos + to_write - 1) : Zero \in PlanOf(i)
  PROVE  StreamInv'
<1>1. /\ StreamTypeOK /\ InChunk /\ pos \in Nat /\ to_write \in Nat /\ to_write >= 1
      /\ to_write <= BufferSectors /\ pos + to_write <= DiskLength /\ BufferSectors \in Nat
  BY RegionFacts, ChunkFacts, JobNumbers
<1>2. buffer' \in [0..(BufferSectors - 1) -> Written]
  BY <1>1, ZeroFilledFacts
<1>3. n' \in 0..BufferSectors
  BY <1>1
<1>4. StreamTypeOK'
  BY <1>1, <1>2, <1>3, JobUnchanged DEF StreamTypeOK, Locations
<1>5. ASSUME NEW b \in 0..(n' - 1)
      PROVE  buffer'[b] \in PlanOf(pos + b)
  <2>1. b \in 0..(BufferSectors - 1) /\ b < to_write /\ pos + b \in pos..(pos + to_write - 1)
    BY <1>1
  <2>2. buffer'[b] = Zero
    BY <1>1, <2>1 DEF ZeroFilled, StreamTypeOK
  <2> QED
    BY <2>1, <2>2
<1> QED
  BY <1>1, <1>4, <1>5, ReadyInvariant

LEMMA ZeroInvariant ==
  ASSUME StreamInv, Gap \/ ExcludedPartition
  PROVE  StreamInv'
<1>1. stage = "region" /\ InMiddle(pos)
  BY DEF Gap, ExcludedPartition
<1>2. StreamTypeOK /\ InChunk /\ pos \in Nat /\ job \in Jobs
  BY <1>1, RegionFacts
<1>3. CASE Gap
  <2>1. stream_status' \in [source : Sources, part : Nat]
    BY <1>3, ReportType DEF Gap, Sources
  <2>2. ASSUME NEW i \in pos..(pos + to_write - 1)
        PROVE  Zero \in PlanOf(i)
    <3>1. i \in Nat /\ InMiddle(i) /\ Owners(i) = {}
      BY <1>1, <1>2, <1>3, ChunkFacts DEF Gap
    <3> QED
      BY <3>1, PlanGap
  <2> QED
    BY <1>1, <1>3, <2>1, <2>2, ZeroChunkInvariant DEF Gap, Enter
<1>4. CASE ExcludedPartition
  <2>1. PICK k \in Owners(pos) : FirstOwner(k, pos) /\ Excluded(k)
                                 /\ Report("PartitionExcluded", Parts[k].num)
    BY <1>4 DEF ExcludedPartition
  <2>2. Parts[k].num \in Nat
    BY <1>2, JobNumbers DEF Owners, Used
  <2>3. stream_status' \in [source : Sources, part : Nat]
    BY <2>1, <2>2, ReportType DEF Sources
  <2>4. ASSUME NEW i \in pos..(pos + to_write - 1)
        PROVE  Zero \in PlanOf(i)
    <3>1. i \in Nat /\ InMiddle(i) /\ FirstOwner(k, i)
      BY <1>1, <1>2, <2>1, ChunkFacts DEF FirstOwner
    <3>2. Zero \in PartitionPlan(k, i)
      BY <2>1 DEF PartitionPlan
    <3> QED
      BY <3>1, <3>2, PlanPartition
  <2> QED
    BY <1>1, <1>4, <2>3, <2>4, ZeroChunkInvariant DEF ExcludedPartition, Enter
<1> QED
  BY <1>3, <1>4

(* The first chunk: sector 0 was kept, and the read behind it stays in the header area. *)
LEMMA FirstChunkInvariant ==
  ASSUME StreamInv, FirstChunk
  PROVE  StreamInv'
<1>1. stage = "region" /\ pos = 0 /\ BufferSectors >= GptSectors /\ InPrimary(pos)
  BY DEF FirstChunk
<1>2. /\ StreamTypeOK /\ InChunk /\ pos < DiskLength /\ job \in Jobs
      /\ BufferSectors \in Nat /\ DiskLength \in Nat /\ GptSectors \in Nat /\ GptSectors >= 1
  BY <1>1, RegionFacts, JobNumbers
<1>3. /\ UNCHANGED <<job, pos, total_written, to_write, part, handle, fallbacks, emptied, image,
                     sink_pos, double_close, leaked>>
      /\ stream_status' \in [source : Sources, part : Nat]
  BY ReportType DEF FirstChunk, ReadRaw, Sources
<1>4. buffer[0] = Raw(0)
  BY <1>1, <1>2 DEF StreamInv, FirstSector
<1>5. ASSUME NEW r \in ReadCounts(GptSectors - 1, 1, DiskLength),
             buffer' = Filled(1, r, "raw", 1), n' = 1 + r,
             stage' = IF 1 + r = 0 THEN "failed" ELSE "write"
      PROVE  StreamInv'
  <2>1. r \in Nat /\ r <= GptSectors - 1 /\ 1 + r <= DiskLength
    <3>1. GptSectors - 1 \in Nat
      BY <1>2
    <3>2. AsDword(GptSectors - 1) \in Nat /\ AsDword(GptSectors - 1) <= GptSectors - 1
      BY <3>1, AsDwordBound
    <3>3. r \in 0..AsDword(GptSectors - 1) /\ (r = 0 \/ 1 + r <= DiskLength)
      BY <1>5 DEF ReadCounts
    <3> QED
      BY <1>1, <1>2, <3>2, <3>3
  <2>2. n' \in 0..BufferSectors /\ n' >= 1 /\ pos + n' <= DiskLength /\ stage' = "write"
    BY <1>1, <1>2, <1>5, <2>1
  <2>3. buffer' \in [0..(BufferSectors - 1) -> Written]
    <3>1. 1 \in Nat /\ "raw" \in {"raw", "zero"} \cup ShadowCopies
      OBVIOUS
    <3> QED
      BY <1>2, <1>5, <2>1, <3>1, FilledFacts
  <2>4. StreamTypeOK'
    BY <1>2, <1>3, <2>2, <2>3, JobUnchanged DEF StreamTypeOK, Locations
  <2>5. ASSUME NEW b \in 0..(n' - 1)
        PROVE  buffer'[b] \in PlanOf(pos + b)
    <3>1. /\ b \in 0..(BufferSectors - 1) /\ b < 1 + r /\ pos + b = b /\ b < GptSectors
          /\ 1 + (b - 1) = b
      BY <1>1, <1>2, <1>5, <2>1, <2>2
    <3>2. DOMAIN buffer = 0..(BufferSectors - 1)
      BY <1>2 DEF StreamTypeOK
    <3>3. buffer'[b] = Raw(b)
      <4>1. CASE b = 0
        BY <1>4, <1>5, <3>1, <3>2, <4>1 DEF Filled
      <4>2. CASE b # 0
        BY <1>5, <3>1, <3>2, <4>2 DEF Filled, Raw
      <4> QED
        BY <4>1, <4>2
    <3>4. ~InMiddle(b) /\ b \in Nat
      BY <3>1, <1>2 DEF InMiddle
    <3> QED
      BY <3>1, <3>3, <3>4, PlanRaw
  <2> QED
    BY <1>1, <1>3, <2>2, <2>4, <2>5, ReadyInvariant
<1>6. ASSUME stage' = "failed", UNCHANGED <<buffer, n>>
      PROVE  StreamInv'
  <2>1. StreamTypeOK'
    BY <1>2, <1>3, <1>6, JobUnchanged DEF StreamTypeOK, Locations
  <2> QED
    BY <1>1, <1>3, <1>6, <2>1, StopInvariant
<1> QED
  BY <1>5, <1>6 DEF FirstChunk, ReadRaw, Enter

LEMMA FirstChunkPanicsInvariant ==
  ASSUME StreamInv, FirstChunkPanics
  PROVE  StreamInv'
<1>1. stage = "region" /\ stage' = "panicked"
  BY DEF FirstChunkPanics, Enter
<1>2. stream_status' \in [source : Sources, part : Nat]
  BY ReportType DEF FirstChunkPanics, Sources
<1>3. StreamTypeOK'
  BY <1>1, <1>2, RegionFacts, JobUnchanged DEF FirstChunkPanics, StreamTypeOK, Locations
<1> QED
  BY <1>1, <1>3, StopInvariant DEF FirstChunkPanics

-----------------------------------------------------------------------------
(* The steps on a shadow copy. *)
LEMMA OpenShadowInvariant ==
  ASSUME StreamInv, OpenShadow
  PROVE  StreamInv'
<1>1. stage = "region" /\ InMiddle(pos)
  BY DEF OpenShadow
<1>2. StreamTypeOK /\ InChunk /\ pos \in Nat /\ job \in Jobs
  BY <1>1, RegionFacts
<1>3. PICK k \in Owners(pos) :
        /\ FirstOwner(k, pos)
        /\ ~Excluded(k)
        /\ HasShadow(k)
        /\ \/ /\ Report("PartitionVss", Parts[k].num)
              /\ part' = k
              /\ handle' = "open"
              /\ Enter("readShadow")
              /\ UNCHANGED <<job, pos, total_written, to_write, buffer, n, fallbacks, emptied, image,
                             sink_pos, double_close, leaked>>
           \/ Fail
  BY DEF OpenShadow
<1>4. k \in Nat /\ Parts[k].num \in Nat
  BY <1>2, JobNumbers DEF Owners, Used
<1>5. CASE Fail
  BY <1>1, <1>5, FailInvariant
<1>6. CASE /\ Report("PartitionVss", Parts[k].num)
           /\ part' = k
           /\ handle' = "open"
           /\ Enter("readShadow")
           /\ UNCHANGED <<job, pos, total_written, to_write, buffer, n, fallbacks, emptied, image,
                          sink_pos, double_close, leaked>>
  <2>1. stream_status' \in [source : Sources, part : Nat]
    BY <1>4, <1>6, ReportType DEF Sources
  <2>2. StreamTypeOK'
    BY <1>2, <1>4, <1>6, <2>1, JobUnchanged DEF StreamTypeOK, Locations, Enter
  <2>3. Positions'
    BY <1>1, <1>6, JobUnchanged DEF StreamInv, Positions, Enter
  <2>4. Chunk'
    <3>1. pos < DiskLength /\ to_write >= 1 /\ ChunkEnd(pos + to_write)
      BY <1>2 DEF StreamInv, Chunk
    <3>2. ChunkEnd(pos + to_write)'
      BY <1>6, <3>1, ChunkEndUnchanged
    <3> QED
      BY <1>6, <3>1, <3>2, JobUnchanged DEF Chunk
  <2>5. (FirstSector /\ Ready)'
    BY <1>6 DEF FirstSector, Ready, Enter
  <2>6. OnShadow'
    BY <1>1, <1>3, <1>6, JobUnchanged DEF OnShadow
  <2>7. LayoutPreserved'
    BY <1>6, LayoutUnchanged DEF StreamInv
  <2> QED
    BY <2>2, <2>3, <2>4, <2>5, <2>6, <2>7 DEF StreamInv
<1> QED
  BY <1>3, <1>5, <1>6

(* What is known while the shadow copy of a partition is being read. *)
LEMMA ShadowFacts ==
  ASSUME StreamInv, stage \in {"readShadow", "retryShadow", "fallback"}
  PROVE  /\ StreamTypeOK /\ InChunk /\ pos \in Nat /\ job \in Jobs
         /\ part \in DOMAIN Parts /\ Parts[part].num \in Nat
         /\ Parts[part].start + VolumeOffset = pos
         /\ VolumeOffset \in Nat /\ CopyOf(part) \in ShadowCopies /\ CopyOf(part) \notin NotACopy
         /\ \A b \in 0..(to_write - 1) : /\ Shadow(CopyOf(part), VolumeOffset + b) \in PlanOf(pos + b)
                                        /\ Raw(pos + b) \in PlanOf(pos + b)
<1>1. StreamTypeOK /\ InChunk /\ pos \in Nat /\ job \in Jobs
  BY DEF StreamInv, StreamTypeOK, InChunk
<1>2. InMiddle(pos) /\ FirstOwner(part, pos) /\ ~Excluded(part) /\ HasShadow(part)
  BY DEF StreamInv, OnShadow
<1>3. /\ part \in DOMAIN Parts /\ Parts[part].num \in Nat
      /\ Parts[part].start \in Nat
  BY <1>1, <1>2, JobNumbers DEF FirstOwner, Owners, Used
<1>4. Parts[part].start + VolumeOffset = pos /\ VolumeOffset \in Nat
  BY <1>1, <1>2, <1>3 DEF VolumeOffset, FirstOwner, Owners
<1>5. CopyOf(part) \in ShadowCopies /\ CopyOf(part) \notin NotACopy
  BY <1>1, <1>2, GeometryAssumption DEF CopyOf, ShadowCopies, HasShadow, IsJob
<1>6. ASSUME NEW b \in 0..(to_write - 1)
      PROVE  /\ Shadow(CopyOf(part), VolumeOffset + b) \in PlanOf(pos + b)
             /\ Raw(pos + b) \in PlanOf(pos + b)
  <2>1. pos + b \in pos..(pos + to_write - 1) /\ b \in Nat
    BY <1>1, ChunkFacts
  <2>2. pos + b \in Nat /\ InMiddle(pos + b) /\ FirstOwner(part, pos + b)
    BY <1>1, <1>2, <2>1, ChunkFacts DEF FirstOwner
  <2>3. VolumeOffset + b = (pos + b) - Parts[part].start
    BY <1>1, <1>3, <2>1 DEF VolumeOffset
  <2>4. /\ Shadow(CopyOf(part), VolumeOffset + b) \in PartitionPlan(part, pos + b)
        /\ Raw(pos + b) \in PartitionPlan(part, pos + b)
    BY <1>2, <2>3 DEF PartitionPlan
  <2> QED
    BY <2>2, <2>4, PlanPartition
<1> QED
  BY <1>1, <1>3, <1>4, <1>5, <1>6

LEMMA ReadShadowInvariant ==
  ASSUME StreamInv, ReadShadow
  PROVE  StreamInv'
<1>1. stage \in {"readShadow", "retryShadow"}
  BY DEF ReadShadow
<1>2. /\ StreamTypeOK /\ InChunk /\ pos \in Nat /\ to_write \in Nat /\ to_write <= BufferSectors
      /\ pos + to_write <= DiskLength /\ DiskLength \in Nat /\ job \in Jobs
      /\ BufferSectors \in Nat /\ VolumeOffset \in Nat /\ CopyOf(part) \in ShadowCopies
  BY <1>1, ShadowFacts, ChunkFacts, JobNumbers
<1>3. CASE Fail
  BY <1>1, <1>3, FailInvariant
<1>4. ASSUME NEW r \in ShadowCounts,
             buffer' = Filled(0, r, CopyOf(part), VolumeOffset), n' = r, stage' = AfterShadowRead(r),
             emptied' = IF r = 0 /\ stage = "retryShadow"
                        THEN emptied \cup (pos..(pos + to_write - 1))
                        ELSE emptied,
             UNCHANGED <<job, pos, total_written, to_write, part, handle, stream_status,
                         fallbacks, image, sink_pos, double_close, leaked>>
      PROVE  StreamInv'
  <2>1. r \in Nat /\ r <= to_write
    BY <1>2, <1>4, AsDwordBound DEF ShadowCounts, ReadCounts
  <2>2. stage' \in {"write", "retryShadow", "fallback"}
    BY <1>4 DEF AfterShadowRead
  <2>3. StreamTypeOK'
    <3>1. CopyOf(part) \in {"raw", "zero"} \cup ShadowCopies /\ 0 \in Nat
      BY <1>2
    <3>2. buffer' \in [0..(BufferSectors - 1) -> Written]
      BY <1>2, <1>4, <2>1, <3>1, FilledFacts
    <3>3. n' \in 0..BufferSectors
      BY <1>2, <1>4, <2>1
    <3>4. emptied' \subseteq 0..(DiskLength - 1)
      <4>1. pos..(pos + to_write - 1) \subseteq 0..(DiskLength - 1)
        BY <1>2
      <4>2. emptied \subseteq 0..(DiskLength - 1)
        BY <1>2 DEF StreamTypeOK
      <4> QED
        BY <1>4, <4>1, <4>2
    <3> QED
      BY <1>2, <1>4, <2>2, <3>2, <3>3, <3>4, JobUnchanged DEF StreamTypeOK, Locations
  <2>4. CASE r > 0
    <3>1. stage' = "write" /\ r >= 1
      BY <1>4, <2>1, <2>4 DEF AfterShadowRead
    <3>2. \A b \in 0..(to_write - 1) :
             [src |-> CopyOf(part), at |-> VolumeOffset + b] \in PlanOf(pos + b)
      BY <1>1, ShadowFacts DEF Shadow
    <3> QED
      BY <1>2, <1>4, <2>1, <2>3, <3>1, <3>2, ReadChunkInvariant
  <2>5. CASE ~(r > 0)
    <3>1. stage' \in {"retryShadow", "fallback"}
      BY <1>4, <2>5 DEF AfterShadowRead
    <3>2. Positions'
      BY <1>1, <1>4, <3>1, JobUnchanged DEF StreamInv, Positions
    <3>3. Chunk'
      <4>1. pos < DiskLength /\ to_write >= 1 /\ ChunkEnd(pos + to_write)
        BY <1>2 DEF StreamInv, Chunk
      <4>2. ChunkEnd(pos + to_write)'
        BY <1>4, <4>1, ChunkEndUnchanged
      <4> QED
        BY <1>4, <4>1, <4>2, JobUnchanged DEF Chunk
    <3>4. (FirstSector /\ Ready)'
      BY <3>1 DEF FirstSector, Ready
    <3>5. OnShadow'
      BY <1>1, <1>4, JobUnchanged DEF StreamInv, OnShadow
    <3>6. LayoutPreserved'
      BY <1>4, LayoutUnchanged DEF StreamInv
    <3> QED
      BY <2>3, <3>2, <3>3, <3>4, <3>5, <3>6 DEF StreamInv
  <2> QED
    BY <2>4, <2>5
<1> QED
  BY <1>2, <1>3, <1>4 DEF ReadShadow, Enter

LEMMA RawFallbackInvariant ==
  ASSUME StreamInv, RawFallback
  PROVE  StreamInv'
<1>1. stage = "fallback" /\ handle' = "closed"
  BY DEF RawFallback
<1>2. /\ StreamTypeOK /\ InChunk /\ pos \in Nat /\ to_write \in Nat /\ to_write <= BufferSectors
      /\ BufferSectors \in Nat /\ Parts[part].start + VolumeOffset = pos
      /\ Parts[part].num \in Nat
  BY <1>1, ShadowFacts, ChunkFacts, JobNumbers
<1>3. UNCHANGED <<job, pos, total_written, to_write, part, emptied, image, sink_pos, leaked>>
  BY DEF RawFallback
<1>4. ASSUME NEW r \in RawCounts \ {0},
             buffer' = Filled(0, r, "raw", pos), n' = r, stage' = "write",
             NotifyFallback, Report("PartitionRaw", Parts[part].num),
             double_close' = double_close
      PROVE  StreamInv'
  <2>1. r \in Nat /\ r <= to_write /\ r >= 1
    BY <1>2, <1>4, AsDwordBound DEF RawCounts, ReadCounts
  <2>2. "raw" \in {"raw", "zero"} \cup ShadowCopies /\ 0 \in Nat
    OBVIOUS
  <2>3. StreamTypeOK'
    <3>1. buffer' \in [0..(BufferSectors - 1) -> Written]
      BY <1>2, <1>4, <2>1, <2>2, FilledFacts
    <3>2. n' \in 0..BufferSectors
      BY <1>2, <1>4, <2>1
    <3>3. stream_status' \in [source : Sources, part : Nat]
      BY <1>2, <1>4, ReportType DEF Sources
    <3>4. fallbacks' \subseteq Nat
      BY <1>2, <1>4 DEF NotifyFallback, StreamTypeOK
    <3> QED
      BY <1>1, <1>2, <1>3, <1>4, <3>1, <3>2, <3>3, <3>4, JobUnchanged DEF StreamTypeOK, Locations
  <2>4. \A b \in 0..(to_write - 1) : [src |-> "raw", at |-> pos + b] \in PlanOf(pos + b)
    BY <1>1, ShadowFacts DEF Raw
  <2> QED
    BY <1>2, <1>3, <1>4, <2>1, <2>2, <2>3, <2>4, ReadChunkInvariant
<1>5. ASSUME NEW closed_again \in BOOLEAN,
             double_close' = (double_close \/ closed_again), stage' = "failed",
             UNCHANGED <<buffer, n, fallbacks, emptied, stream_status>>
      PROVE  StreamInv'
  <2>1. double_close' \in BOOLEAN
    BY <1>5
  <2>2. StreamTypeOK'
    BY <1>1, <1>2, <1>3, <1>5, <2>1, JobUnchanged DEF StreamTypeOK, Locations
  <2> QED
    BY <1>1, <1>3, <1>5, <2>2, StopInvariant
<1> QED
  BY <1>2, <1>4, <1>5 DEF RawFallback, Enter

-----------------------------------------------------------------------------
(***************************************************************************)
(* The write: the sectors the sink took extend the image by the contents   *)
(* of the buffer, which Ready says are planned for their addresses.        *)
(***************************************************************************)
LEMMA WriteInvariant ==
  ASSUME StreamInv, Write
  PROVE  StreamInv'
<1>1. /\ StreamTypeOK /\ stage = "write" /\ job \in Jobs
      /\ sink_pos = pos /\ total_written = pos /\ pos \in Nat
      /\ n \in Nat /\ n >= 1 /\ n <= BufferSectors /\ pos + n <= DiskLength
      /\ BufferSectors \in Nat /\ DiskLength \in Nat /\ job.sink \in SinkKinds
  BY JobNumbers DEF Write, StreamInv, StreamTypeOK, Positions, Ready
<1>2. PICK w \in WriteOutcomes(job.sink, n) :
        /\ image' = ImageAfter(w.taken)
        /\ sink_pos' = sink_pos + w.taken
        /\ IF w.ok
           THEN /\ total_written' = total_written + w.ret
                /\ pos' = pos + w.ret
                /\ CloseShadowHandle
                /\ Enter("loop")
                /\ UNCHANGED leaked
           ELSE /\ leaked' = (leaked \/ handle = "open")
                /\ Enter("failed")
                /\ UNCHANGED <<total_written, pos, double_close, handle>>
  BY DEF Write
<1>3. w.ok \in BOOLEAN /\ w.taken \in 0..n /\ (w.ok => w.ret = w.taken)
  BY <1>1, WriteFacts
<1>4. UNCHANGED <<job, to_write, buffer, n, part, stream_status, fallbacks, emptied>>
  BY DEF Write
<1>5. /\ sink_pos' = pos + w.taken /\ sink_pos' \in Nat /\ sink_pos' <= DiskLength
      /\ stage' \in {"loop", "failed"}
      /\ stage' = "loop" => pos' = sink_pos' /\ total_written' = sink_pos'
      /\ stage' = "failed" => pos' = pos /\ total_written' = total_written
  BY <1>1, <1>2, <1>3 DEF Enter
<1>6. /\ DOMAIN image = 0..(DiskLength - 1)
      /\ DOMAIN buffer = 0..(BufferSectors - 1)
  BY <1>1 DEF StreamTypeOK
<1>7. ASSUME NEW i \in 0..(DiskLength - 1)
      PROVE  image'[i] = IF pos <= i /\ i < pos + w.taken THEN buffer[i - pos] ELSE image[i]
  BY <1>1, <1>2, <1>6 DEF ImageAfter
<1>8. StreamTypeOK'
  <2>1. image' \in [0..(DiskLength - 1) -> Written \cup {Unwritten}]
    <3>1. ASSUME NEW i \in 0..(DiskLength - 1)
          PROVE  image'[i] \in Written \cup {Unwritten}
      <4>1. CASE pos <= i /\ i < pos + w.taken
        <5>1. i - pos \in 0..(BufferSectors - 1)
          BY <1>1, <1>3, <4>1
        <5> QED
          BY <1>1, <1>7, <4>1, <5>1 DEF StreamTypeOK
      <4>2. CASE ~(pos <= i /\ i < pos + w.taken)
        BY <1>1, <1>7, <4>2 DEF StreamTypeOK
      <4> QED
        BY <4>1, <4>2
    <3>2. image' = [i \in 0..(DiskLength - 1) |-> image'[i]]
      BY <1>2, <1>6 DEF ImageAfter
    <3> QED
      BY <3>1, <3>2
  <2>2. (handle \in {"none", "open", "closed"})' /\ double_close' \in BOOLEAN
        /\ leaked' \in BOOLEAN
    BY <1>1, <1>2, <1>3 DEF StreamTypeOK, CloseShadowHandle
  <2>3. Unwritten' = Unwritten
    BY DEF Unwritten
  <2>4. /\ pos' \in Nat /\ total_written' \in Nat /\ stage' \in Locations
    BY <1>1, <1>5 DEF Locations
  <2> QED
    BY <1>1, <1>4, <1>5, <2>1, <2>2, <2>3, <2>4, JobUnchanged DEF StreamTypeOK
<1>9. Positions'
  BY <1>1, <1>4, <1>5, JobUnchanged DEF Positions
<1>10. (Chunk /\ OnShadow /\ Ready)'
  BY <1>5 DEF Chunk, InChunk, OnShadow, Ready
<1>11. FirstSector'
  <2>1. SUFFICES ASSUME pos' = 0, stage' = "loop", DiskLength > 0
                 PROVE  buffer[0] = Raw(0)
    BY <1>4, <1>5, JobUnchanged DEF FirstSector, Raw
  <2>2. pos = 0
    BY <1>1, <1>3, <1>5, <2>1
  <2>3. buffer[0] \in PlanOf(0)
    BY <1>1, <2>2 DEF StreamInv, Ready
  <2>4. ~InMiddle(0)
    BY <1>1, JobNumbers DEF InMiddle
  <2> QED
    BY <2>3, <2>4 DEF PlanOf
<1>12. LayoutPreserved'
  <2>1. ASSUME NEW i \in 0..(DiskLength - 1)
        PROVE  IF i < sink_pos' THEN image'[i] \in PlanOf(i) ELSE image'[i] = Unwritten
    <3>1. CASE pos <= i /\ i < pos + w.taken
      <4>1. i - pos \in 0..(n - 1) /\ pos + (i - pos) = i
        BY <1>1, <1>3, <3>1
      <4>2. buffer[i - pos] \in PlanOf(i)
        BY <1>1, <4>1 DEF StreamInv, Ready
      <4> QED
        BY <1>5, <1>7, <3>1, <4>2
    <3>2. CASE ~(pos <= i /\ i < pos + w.taken)
      <4>1. i < sink_pos' <=> i < sink_pos
        BY <1>1, <1>3, <1>5, <3>2
      <4>2. IF i < sink_pos THEN image[i] \in PlanOf(i) ELSE image[i] = Unwritten
        BY <1>6 DEF StreamInv, LayoutPreserved
      <4> QED
        BY <1>7, <3>2, <4>1, <4>2
    <3> QED
      BY <3>1, <3>2
  <2>2. DOMAIN image' = 0..(DiskLength - 1)
    BY <1>2, <1>6 DEF ImageAfter
  <2>3. \A i : PlanOf(i)' = PlanOf(i)
    BY <1>4, JobUnchanged
  <2> QED
    BY <2>1, <2>2, <2>3 DEF LayoutPreserved, Unwritten
<1> QED
  BY <1>8, <1>9, <1>10, <1>11, <1>12 DEF StreamInv

LEMMA FlushInvariant ==
  ASSUME StreamInv, Flush
  PROVE  StreamInv'
<1>1. /\ StreamTypeOK /\ stage = "flush" /\ pos = DiskLength /\ total_written = DiskLength
  BY DEF Flush, StreamInv, Positions
<1>2. /\ stage' \in {"failed", "done"}
      /\ UNCHANGED <<job, pos, total_written, to_write, buffer, n, part, handle,
                     stream_status, fallbacks, emptied, image, sink_pos, double_close, leaked>>
  BY <1>1 DEF Flush, Enter
<1>3. StreamTypeOK'
  BY <1>1, <1>2, JobUnchanged DEF StreamTypeOK, Locations
<1>4. Positions'
  BY <1>1, <1>2, JobUnchanged DEF StreamInv, Positions
<1>5. (Chunk /\ FirstSector /\ OnShadow /\ Ready)'
  BY <1>2 DEF Chunk, InChunk, FirstSector, OnShadow, Ready
<1>6. LayoutPreserved'
  BY <1>2, LayoutUnchanged DEF StreamInv
<1> QED
  BY <1>3, <1>4, <1>5, <1>6 DEF StreamInv

LEMMA StutterInvariant ==
  ASSUME StreamInv, UNCHANGED streamvars
  PROVE  StreamInv'
<1>1. UNCHANGED <<job, stage, pos, total_written, to_write, buffer, n, part, handle,
                  stream_status, fallbacks, emptied, image, sink_pos, double_close, leaked>>
  BY DEF streamvars
<1>2. StreamTypeOK'
  BY <1>1, JobUnchanged DEF StreamInv, StreamTypeOK
<1>3. Positions'
  BY <1>1, JobUnchanged DEF StreamInv, Positions
<1>4. Chunk'
  <2>1. InChunk' = InChunk
    BY <1>1 DEF InChunk
  <2>2. ChunkEnd(pos + to_write)' = ChunkEnd(pos + to_write)
    BY <1>1, ChunkEndUnchanged
  <2> QED
    BY <1>1, <2>1, <2>2, JobUnchanged DEF StreamInv, Chunk
<1>5. (FirstSector /\ OnShadow /\ Ready)'
  BY <1>1, JobUnchanged DEF StreamInv, FirstSector, OnShadow, Ready, Raw
<1>6. LayoutPreserved'
  BY <1>1, LayoutUnchanged DEF StreamInv
<1> QED
  BY <1>2, <1>3, <1>4, <1>5, <1>6 DEF StreamInv

LEMMA StepInvariant ==
  ASSUME StreamInv, [StreamNext]_streamvars
  PROVE  StreamInv'
<1>1. CASE ReadSector0
  BY <1>1, ReadSector0Invariant
<1>2. CASE NextChunk \/ LoopEnds
  BY <1>2, LoopInvariant
<1>3. CASE FirstChunk
  BY <1>3, FirstChunkInvariant
<1>4. CASE FirstChunkPanics
  BY <1>4, FirstChunkPanicsInvariant
<1>5. CASE PrimaryGpt \/ BackupGpt
  BY <1>5, GptInvariant
<1>6. CASE Gap \/ ExcludedPartition
  BY <1>6, ZeroInvariant
<1>7. CASE RawPartition
  BY <1>7, RawPartitionInvariant
<1>8. CASE OpenShadow
  BY <1>8, OpenShadowInvariant
<1>9. CASE ReadShadow
  BY <1>9, ReadShadowInvariant
<1>10. CASE RawFallback
  BY <1>10, RawFallbackInvariant
<1>11. CASE Write
  BY <1>11, WriteInvariant
<1>12. CASE Flush
  BY <1>12, FlushInvariant
<1>13. CASE Returned \/ UNCHANGED streamvars
  BY <1>13, StutterInvariant DEF Returned
<1> QED
  BY <1>1, <1>2, <1>3, <1>4, <1>5, <1>6, <1>7, <1>8, <1>9, <1>10, <1>11, <1>12, <1>13
  DEF StreamNext

(* StreamInv is inductive, hence true in every reachable state. *)
THEOREM StreamInductive == StreamSpec => []StreamInv
<1>1. StreamInit => StreamInv
  BY InitInvariant
<1>2. StreamInv /\ [StreamNext]_streamvars => StreamInv'
  BY StepInvariant
<1> QED
  BY <1>1, <1>2, PTL DEF StreamSpec

-----------------------------------------------------------------------------
(* Every variable of stream_to stays in its range: no count passes the buffer it indexes. *)
THEOREM StreamTypeCorrect == StreamSpec => []StreamTypeOK
<1>1. StreamInv => StreamTypeOK
  BY DEF StreamInv
<1> QED
  BY <1>1, StreamInductive, PTL

(***************************************************************************)
(* "Preserves LBA positions" (src/image_builder.rs:3), for every disk: what *)
(* the destination holds is planned for its address, at every moment of    *)
(* the clone and whatever the reads and the sink answer.                   *)
(***************************************************************************)
THEOREM LayoutCorrect == StreamSpec => []LayoutPreserved
<1>1. StreamInv => LayoutPreserved
  BY DEF StreamInv
<1> QED
  BY <1>1, StreamInductive, PTL

(* Success of stream_to means that no sector of the disk is missing from the image. *)
THEOREM CompleteCorrect == StreamSpec => []CloneComplete
<1>1. StreamInv => CloneComplete
  <2>1. SUFFICES ASSUME StreamInv, stage = "done"
                 PROVE  /\ total_written = DiskLength
                        /\ \A i \in DOMAIN image : image[i] # Unwritten
    BY DEF CloneComplete
  <2>2. StreamTypeOK /\ pos = DiskLength /\ total_written = pos /\ sink_pos = pos /\ LayoutPreserved
    BY <2>1 DEF StreamInv, Positions
  <2>3. DiskLength \in Nat
    BY <2>2, JobNumbers DEF StreamTypeOK
  <2>4. ASSUME NEW i \in DOMAIN image
        PROVE  image[i] # Unwritten
    <3>1. i < sink_pos
      BY <2>2, <2>3, <2>4 DEF StreamTypeOK
    <3>2. image[i] \in PlanOf(i)
      BY <2>2, <2>4, <3>1 DEF LayoutPreserved
    <3>3. \A k : HasShadow(k) => CopyOf(k) # "unwritten"
      BY <2>2, GeometryAssumption DEF StreamTypeOK, IsJob, NotACopy, HasShadow, CopyOf
    <3>4. Unwritten \notin PlanOf(i)
      BY <3>3 DEF PlanOf, PartitionPlan, Raw, Shadow, Zero, Unwritten
    <3> QED
      BY <3>2, <3>4
  <2> QED
    BY <2>2, <2>4
<1> QED
  BY <1>1, StreamInductive, PTL

(* The loop never stops short of the end of the disk: the error after it is unreachable. *)
THEOREM NeverIncompleteCorrect == StreamSpec => []NeverIncomplete
<1>1. StreamInv => NeverIncomplete
  BY DEF StreamInv, Positions, NeverIncomplete
<1> QED
  BY <1>1, StreamInductive, PTL

-----------------------------------------------------------------------------
(***************************************************************************)
(* The three properties of what is reported along the way: the region on   *)
(* the display, the fallbacks and the handles.  Each needs to know what is *)
(* in the buffer or in read_handle between the steps, so each gets a       *)
(* strengthening of its own, inductive together with StreamInv.            *)
(***************************************************************************)
StatusInv ==
  /\ StatusTruthful
  /\ stage \in {"readShadow", "retryShadow", "fallback"} =>
       stream_status.source = "PartitionVss" /\ stream_status.part = Parts[part].num

HandleInv ==
  /\ HandleDiscipline
  /\ stage \in {"sector0", "loop", "region", "flush", "done", "panicked"} => handle = "none"
  /\ stage \in {"readShadow", "retryShadow", "fallback"} => handle = "open"
  /\ stage \notin {"failed", "fallback"} /\ ~(stage = "write" /\ handle = "closed") =>
       (double_close <=> emptied # {})
  /\ stage = "fallback" \/ (stage = "write" /\ handle = "closed") => emptied # {}

(* A live sector of a partition with a shadow copy could not be had from there, as was told. *)
Told(k, i) ==
  /\ i \in emptied
  /\ job.on_vss_fallback = "some" => Parts[k].num \in fallbacks

(* The same after a step. *)
ToldNext(k, i) ==
  /\ i \in emptied'
  /\ job'.on_vss_fallback = "some" => Parts'[k].num \in fallbacks'

Reported(i, content) ==
  \A k \in Owners(i) :
    InMiddle(i) /\ FirstOwner(k, i) /\ HasShadow(k) /\ content = Raw(i) => Told(k, i)

FallbackInv ==
  /\ \A i \in DOMAIN image : Reported(i, image[i])
  /\ stage = "write" => \A b \in 0..(n - 1) : Reported(pos + b, buffer[b])
  /\ stage = "fallback" => \A i \in pos..(pos + to_write - 1) : i \in emptied

(* What each way of reading leaves in the buffer. *)
LEMMA RawContents ==
  ASSUME StreamInv, stage = "region", ReadRaw(0, RawCounts, pos), stage' = "write"
  PROVE  /\ n' \in Nat /\ n' <= to_write
         /\ \A b \in 0..(n' - 1) : buffer'[b] = Raw(pos + b)
<1>1. /\ StreamTypeOK /\ pos \in Nat /\ to_write \in Nat /\ to_write <= BufferSectors
      /\ BufferSectors \in Nat
  BY ChunkFacts, JobNumbers DEF StreamInv, StreamTypeOK, InChunk
<1>2. PICK r \in RawCounts : buffer' = Filled(0, r, "raw", pos) /\ n' = 0 + r
  BY DEF ReadRaw, Enter
<1>3. r \in Nat /\ r <= to_write
  BY <1>1, AsDwordBound DEF RawCounts, ReadCounts
<1>4. DOMAIN buffer = 0..(BufferSectors - 1)
  BY <1>1 DEF StreamTypeOK
<1>5. ASSUME NEW b \in 0..(n' - 1)
      PROVE  buffer'[b] = Raw(pos + b)
  BY <1>1, <1>2, <1>3, <1>4 DEF Filled, Raw
<1> QED
  BY <1>2, <1>3, <1>5

LEMMA FirstContents ==
  ASSUME StreamInv, FirstChunk, stage' = "write"
  PROVE  /\ n' \in Nat /\ n' <= GptSectors
         /\ \A b \in 0..(n' - 1) : buffer'[b] = Raw(pos + b)
<1>1. /\ stage = "region" /\ pos = 0 /\ BufferSectors >= GptSectors
      /\ ReadRaw(1, ReadCounts(GptSectors - 1, 1, DiskLength), 1)
  BY DEF FirstChunk
<1>2. /\ StreamTypeOK /\ pos < DiskLength /\ BufferSectors \in Nat /\ DiskLength \in Nat
      /\ GptSectors \in Nat /\ GptSectors - 1 \in Nat
  BY <1>1, RegionFacts, JobNumbers
<1>3. buffer[0] = Raw(0)
  BY <1>1, <1>2 DEF StreamInv, FirstSector
<1>4. PICK r \in ReadCounts(GptSectors - 1, 1, DiskLength) :
         buffer' = Filled(1, r, "raw", 1) /\ n' = 1 + r
  BY <1>1 DEF ReadRaw, Enter
<1>5. r \in Nat /\ r <= GptSectors - 1
  BY <1>2, AsDwordBound DEF ReadCounts
<1>6. DOMAIN buffer = 0..(BufferSectors - 1)
  BY <1>2 DEF StreamTypeOK
<1>7. ASSUME NEW b \in 0..(n' - 1)
      PROVE  buffer'[b] = Raw(pos + b)
  <2>1. /\ b \in DOMAIN buffer /\ b < 1 + r /\ pos + b = b /\ 1 + (b - 1) = b /\ b \in Nat
    BY <1>1, <1>2, <1>4, <1>5, <1>6
  <2>2. CASE b = 0
    BY <1>3, <1>4, <2>1, <2>2 DEF Filled
  <2>3. CASE b # 0
    BY <1>4, <2>1, <2>3 DEF Filled, Raw
  <2> QED
    BY <2>2, <2>3
<1> QED
  BY <1>2, <1>4, <1>5, <1>7

LEMMA ZeroContents ==
  ASSUME StreamInv, stage = "region", buffer' = ZeroFilled(to_write), n' = to_write
  PROVE  \A b \in 0..(n' - 1) : buffer'[b] = Zero
<1>1. /\ StreamTypeOK /\ to_write \in Nat /\ to_write <= BufferSectors /\ BufferSectors \in Nat
  BY ChunkFacts, RegionFacts, JobNumbers
<1>2. DOMAIN buffer = 0..(BufferSectors - 1)
  BY <1>1 DEF StreamTypeOK
<1> QED
  BY <1>1, <1>2 DEF ZeroFilled

LEMMA ShadowContents ==
  ASSUME StreamInv, ReadShadow, stage' = "write"
  PROVE  /\ UNCHANGED <<job, pos, part, handle, stream_status, fallbacks, emptied, image>>
         /\ \A b \in 0..(n' - 1) : buffer'[b].src = CopyOf(part)
         /\ CopyOf(part) \notin NotACopy
<1>1. /\ StreamTypeOK /\ pos \in Nat /\ to_write \in Nat /\ to_write <= BufferSectors
      /\ BufferSectors \in Nat /\ CopyOf(part) \notin NotACopy
  BY ShadowFacts, ChunkFacts, JobNumbers DEF ReadShadow
<1>2. PICK r \in ShadowCounts :
        /\ buffer' = Filled(0, r, CopyOf(part), VolumeOffset) /\ n' = r
        /\ stage' = AfterShadowRead(r)
        /\ emptied' = IF r = 0 /\ stage = "retryShadow"
                      THEN emptied \cup (pos..(pos + to_write - 1))
                      ELSE emptied
        /\ UNCHANGED <<job, pos, part, handle, stream_status, fallbacks, image>>
  BY <1>1 DEF ReadShadow, Fail, Enter
<1>3. r \in Nat /\ r <= to_write
  BY <1>1, AsDwordBound DEF ShadowCounts, ReadCounts
<1>4. DOMAIN buffer = 0..(BufferSectors - 1)
  BY <1>1 DEF StreamTypeOK
<1>5. ASSUME NEW b \in 0..(n' - 1)
      PROVE  buffer'[b].src = CopyOf(part)
  BY <1>1, <1>2, <1>3, <1>4 DEF Filled
<1>6. emptied' = emptied
  BY <1>2, <1>3 DEF AfterShadowRead
<1> QED
  BY <1>1, <1>2, <1>5, <1>6

LEMMA FallbackContents ==
  ASSUME StreamInv, RawFallback, stage' = "write"
  PROVE  /\ UNCHANGED <<job, pos, part, emptied, image, double_close, leaked>>
         /\ handle' = "closed"
         /\ NotifyFallback
         /\ Report("PartitionRaw", Parts[part].num)
         /\ n' \in Nat /\ n' <= to_write
         /\ \A b \in 0..(n' - 1) : buffer'[b] = Raw(pos + b)
<1>1. /\ StreamTypeOK /\ pos \in Nat /\ to_write \in Nat /\ to_write <= BufferSectors
      /\ BufferSectors \in Nat /\ Parts[part].start + VolumeOffset = pos
  BY ShadowFacts, ChunkFacts, JobNumbers DEF RawFallback
<1>2. PICK r \in RawCounts \ {0} :
        /\ buffer' = Filled(0, r, "raw", pos) /\ n' = r
        /\ NotifyFallback
        /\ Report("PartitionRaw", Parts[part].num)
        /\ UNCHANGED double_close
  BY <1>1 DEF RawFallback, Enter
<1>3. r \in Nat /\ r <= to_write
  BY <1>1, AsDwordBound DEF RawCounts, ReadCounts
<1>4. DOMAIN buffer = 0..(BufferSectors - 1)
  BY <1>1 DEF StreamTypeOK
<1>5. ASSUME NEW b \in 0..(n' - 1)
      PROVE  buffer'[b] = Raw(pos + b)
  BY <1>1, <1>2, <1>3, <1>4 DEF Filled, Raw
<1> QED
  BY <1>2, <1>3, <1>5 DEF RawFallback

(* The only steps that reach the write: the others leave or stay in the loop. *)
LEMMA WriteReachedBy ==
  ASSUME StreamNext, stage' = "write"
  PROVE  \/ FirstChunk \/ PrimaryGpt \/ BackupGpt \/ ExcludedPartition \/ Gap
         \/ RawPartition \/ ReadShadow \/ RawFallback
<1>1. ~ReadSector0 /\ ~NextChunk /\ ~LoopEnds
  BY DEF ReadSector0, NextChunk, LoopEnds, Fail, Enter
<1>2. ~FirstChunkPanics /\ ~OpenShadow
  BY DEF FirstChunkPanics, OpenShadow, Fail, Enter
<1>3. ~Write
  BY DEF Write, Enter
<1>4. ~Flush
  BY DEF Flush, Enter
<1>5. ~Returned
  BY DEF Returned, StreamEnded, streamvars
<1> QED
  BY <1>1, <1>2, <1>3, <1>4, <1>5 DEF StreamNext

-----------------------------------------------------------------------------
(* The display tells where the data about to be written came from. *)
LEMMA DeviceFacts ==
  /\ DeviceOf("PrimaryGpt") = "raw" /\ DeviceOf("BackupGpt") = "raw"
  /\ DeviceOf("PartitionRaw") = "raw" /\ DeviceOf("PartitionVss") = CopyOf(part)
  /\ DeviceOf("Gap") = "zero" /\ DeviceOf("PartitionExcluded") = "zero"
  BY DEF DeviceOf

LEMMA StatusReady ==
  ASSUME stage' = "write", job' = job,
         NEW source \in {"PrimaryGpt", "BackupGpt", "PartitionRaw", "Gap", "PartitionExcluded"},
         stream_status'.source = source,
         \A b \in 0..(n' - 1) : buffer'[b].src = DeviceOf(source)
  PROVE  StatusInv'
<1>1. DeviceOf(stream_status.source)' = DeviceOf(source)
  BY DEF DeviceOf
<1>2. StatusTruthful'
  BY <1>1 DEF StatusTruthful
<1> QED
  BY <1>2 DEF StatusInv

LEMMA JobStays ==
  ASSUME StreamNext
  PROVE  job' = job
<1>1. CASE ReadSector0 \/ NextChunk \/ LoopEnds \/ FirstChunk \/ FirstChunkPanics
  BY <1>1 DEF ReadSector0, NextChunk, LoopEnds, FirstChunk, FirstChunkPanics, Fail
<1>2. CASE PrimaryGpt \/ BackupGpt \/ ExcludedPartition \/ Gap \/ RawPartition
  BY <1>2 DEF PrimaryGpt, BackupGpt, ExcludedPartition, Gap, RawPartition
<1>3. CASE OpenShadow \/ ReadShadow \/ RawFallback
  BY <1>3 DEF OpenShadow, ReadShadow, RawFallback, Fail
<1>4. CASE Write \/ Flush \/ Returned
  BY <1>4 DEF Write, Flush, Returned, streamvars
<1> QED
  BY <1>1, <1>2, <1>3, <1>4 DEF StreamNext

LEMMA StatusStep ==
  ASSUME StreamInv, StatusInv, StreamNext
  PROVE  StatusInv'
<1>1. CASE stage' = "write"
  <2>0. \A i : Raw(i).src = "raw" /\ Zero.src = "zero"
    BY DEF Raw, Zero
  <2>1. ASSUME ReadRaw(0, RawCounts, pos), stage = "region",
               NEW source \in {"PrimaryGpt", "BackupGpt", "PartitionRaw"}, NEW k,
               Report(source, k)
        PROVE  StatusInv'
    <3>1. stream_status'.source = source /\ DeviceOf(source) = "raw"
      BY <2>1, DeviceFacts DEF Report
    <3>2. \A b \in 0..(n' - 1) : buffer'[b].src = "raw"
      BY <1>1, <2>0, <2>1, RawContents
    <3> QED
      BY <1>1, <3>1, <3>2, JobStays, StatusReady
  <2>2. CASE FirstChunk
    <3>1. stream_status'.source = "PrimaryGpt" /\ DeviceOf("PrimaryGpt") = "raw"
      BY <2>2, DeviceFacts DEF FirstChunk, Report
    <3>2. \A b \in 0..(n' - 1) : buffer'[b].src = "raw"
      BY <1>1, <2>0, <2>2, FirstContents
    <3> QED
      BY <1>1, <3>1, <3>2, JobStays, StatusReady
  <2>3. CASE PrimaryGpt
    BY <2>1, <2>3 DEF PrimaryGpt
  <2>4. CASE BackupGpt
    BY <2>1, <2>4 DEF BackupGpt
  <2>5. CASE RawPartition
    BY <2>1, <2>5 DEF RawPartition
  <2>6. CASE Gap
    <3>1. stream_status'.source = "Gap" /\ DeviceOf("Gap") = "zero"
      BY <2>6, DeviceFacts DEF Gap, Report
    <3>2. \A b \in 0..(n' - 1) : buffer'[b].src = "zero"
      BY <2>0, <2>6, ZeroContents DEF Gap
    <3> QED
      BY <1>1, <3>1, <3>2, JobStays, StatusReady
  <2>7. CASE ExcludedPartition
    <3>1. stream_status'.source = "PartitionExcluded" /\ DeviceOf("PartitionExcluded") = "zero"
      BY <2>7, DeviceFacts DEF ExcludedPartition, Report
    <3>2. \A b \in 0..(n' - 1) : buffer'[b].src = "zero"
      BY <2>0, <2>7, ZeroContents DEF ExcludedPartition
    <3> QED
      BY <1>1, <3>1, <3>2, JobStays, StatusReady
  <2>8. CASE ReadShadow
    <3>1. /\ UNCHANGED <<job, part, stream_status>>
          /\ \A b \in 0..(n' - 1) : buffer'[b].src = CopyOf(part)
      BY <1>1, <2>8, ShadowContents
    <3>2. stream_status.source = "PartitionVss" /\ stream_status.part = Parts[part].num
      BY <2>8 DEF StatusInv, ReadShadow
    <3>3. DeviceOf(stream_status.source)' = CopyOf(part) /\ Parts' = Parts
      BY <3>1, <3>2 DEF DeviceOf, CopyOf, Parts
    <3> QED
      BY <1>1, <3>1, <3>2, <3>3 DEF StatusInv, StatusTruthful
  <2>9. CASE RawFallback
    <3>1. stream_status'.source = "PartitionRaw" /\ DeviceOf("PartitionRaw") = "raw"
      BY <1>1, <2>9, FallbackContents, DeviceFacts DEF Report
    <3>2. \A b \in 0..(n' - 1) : buffer'[b].src = "raw"
      BY <1>1, <2>0, <2>9, FallbackContents
    <3> QED
      BY <1>1, <3>1, <3>2, JobStays, StatusReady
  <2> QED
    BY <1>1, <2>2, <2>3, <2>4, <2>5, <2>6, <2>7, <2>8, <2>9, WriteReachedBy
<1>2. CASE stage' \in {"readShadow", "retryShadow", "fallback"}
  <2>1. CASE OpenShadow
    <3>1. PICK k \in Owners(pos) :
            /\ Report("PartitionVss", Parts[k].num) /\ part' = k /\ stage' = "readShadow"
            /\ job' = job
      BY <1>2, <2>1 DEF OpenShadow, Fail, Enter
    <3>2. stream_status'.source = "PartitionVss" /\ stream_status'.part = Parts'[part'].num
      BY <3>1 DEF Report, Parts
    <3> QED
      BY <3>1, <3>2 DEF StatusInv, StatusTruthful
  <2>2. CASE ReadShadow
    <3>1. /\ stage \in {"readShadow", "retryShadow"}
          /\ UNCHANGED <<stream_status, part, job>>
      BY <2>2 DEF ReadShadow, Fail
    <3>2. Parts' = Parts
      BY <3>1 DEF Parts
    <3> QED
      BY <1>2, <3>1, <3>2 DEF StatusInv, StatusTruthful
  <2>3. OpenShadow \/ ReadShadow
    <3>1. ~ReadSector0 /\ ~NextChunk /\ ~LoopEnds
      BY <1>2 DEF ReadSector0, NextChunk, LoopEnds, Fail, Enter
    <3>2. ~FirstChunk /\ ~FirstChunkPanics /\ ~PrimaryGpt /\ ~BackupGpt /\ ~RawPartition
      BY <1>2 DEF FirstChunk, FirstChunkPanics, PrimaryGpt, BackupGpt, RawPartition, ReadRaw,
                  Enter
    <3>3. ~ExcludedPartition /\ ~Gap /\ ~RawFallback /\ ~Write /\ ~Flush
      BY <1>2 DEF ExcludedPartition, Gap, RawFallback, Write, Flush, Enter
    <3>4. ~Returned
      BY <1>2 DEF Returned, StreamEnded, streamvars
    <3> QED
      BY <3>1, <3>2, <3>3, <3>4 DEF StreamNext
  <2> QED
    BY <2>1, <2>2, <2>3
<1>3. CASE stage' \notin {"write", "readShadow", "retryShadow", "fallback"}
  BY <1>3 DEF StatusInv, StatusTruthful
<1> QED
  BY <1>1, <1>2, <1>3

-----------------------------------------------------------------------------
(* One handle at a time, closed once, except on the fallback that delivers data. *)
LEMMA HandleStep ==
  ASSUME StreamInv, HandleInv, StreamNext
  PROVE  HandleInv'
<1> USE DEF HandleInv, HandleDiscipline
<1>1. StreamTypeOK /\ handle \in {"none", "open", "closed"} /\ double_close \in BOOLEAN
      /\ leaked \in BOOLEAN
  BY DEF StreamInv, StreamTypeOK
<1>2. CASE ReadSector0 \/ NextChunk \/ LoopEnds
  BY <1>1, <1>2 DEF ReadSector0, NextChunk, LoopEnds, Fail, Enter
<1>3. CASE FirstChunk \/ FirstChunkPanics \/ PrimaryGpt \/ BackupGpt \/ RawPartition
  <2>1. /\ stage = "region" /\ stage' \in {"write", "failed", "panicked"}
        /\ UNCHANGED <<handle, emptied, double_close, leaked>>
    BY <1>3 DEF FirstChunk, FirstChunkPanics, PrimaryGpt, BackupGpt, RawPartition, ReadRaw,
                Enter
  <2> QED
    BY <1>1, <2>1
<1>4. CASE ExcludedPartition \/ Gap
  BY <1>1, <1>4 DEF ExcludedPartition, Gap, Enter
<1>5. CASE OpenShadow
  BY <1>1, <1>5 DEF OpenShadow, Fail, Enter
<1>6. CASE ReadShadow
  <2>1. CASE Fail
    BY <1>1, <1>6, <2>1 DEF ReadShadow, Fail, Enter
  <2>2. CASE ~Fail
    <3>1. /\ stage \in {"readShadow", "retryShadow"}
          /\ UNCHANGED <<handle, double_close, leaked>>
      BY <1>6, <2>2 DEF ReadShadow
    <3>2. PICK r \in ShadowCounts :
            /\ stage' = AfterShadowRead(r)
            /\ emptied' = IF r = 0 /\ stage = "retryShadow"
                          THEN emptied \cup (pos..(pos + to_write - 1))
                          ELSE emptied
      BY <1>6, <2>2 DEF ReadShadow, Enter
    <3>3. r \in Nat /\ pos \in Nat /\ to_write \in Nat /\ pos \in pos..(pos + to_write - 1)
      <4>1. InChunk /\ to_write \in Nat /\ pos \in Nat /\ to_write >= 1
        BY <3>1, ShadowFacts, ChunkFacts DEF StreamInv, Chunk, InChunk
      <4> QED
        BY <4>1, AsDwordBound DEF ShadowCounts, ReadCounts
    <3>4. CASE r > 0
      BY <1>1, <3>1, <3>2, <3>4 DEF AfterShadowRead
    <3>5. CASE r = 0 /\ stage = "readShadow"
      BY <1>1, <3>1, <3>2, <3>5 DEF AfterShadowRead
    <3>6. CASE r = 0 /\ stage = "retryShadow"
      <4>1. stage' = "fallback" /\ emptied' # {}
        BY <3>2, <3>3, <3>6 DEF AfterShadowRead
      <4> QED
        BY <1>1, <3>1, <4>1
    <3> QED
      BY <3>1, <3>3, <3>4, <3>5, <3>6
  <2> QED
    BY <2>1, <2>2
<1>7. CASE RawFallback
  <2>1. CASE stage' = "write"
    BY <1>1, <1>7, <2>1, FallbackContents DEF RawFallback
  <2>2. CASE stage' = "failed"
    BY <1>1, <1>7, <2>2 DEF RawFallback
  <2> QED
    BY <1>7, <2>1, <2>2 DEF RawFallback, Enter
<1>8. CASE Write
  <2>1. /\ stage = "write" /\ emptied' = emptied
        /\ \/ /\ stage' = "loop" /\ handle' = "none" /\ leaked' = leaked
              /\ double_close' = (double_close \/ handle = "closed")
           \/ stage' = "failed"
    BY <1>8 DEF Write, CloseShadowHandle, Enter
  <2>2. CASE stage' = "failed"
    BY <2>2
  <2>3. CASE stage' = "loop"
    <3>1. double_close' <=> emptied' # {}
      BY <2>1, <2>3
    <3>2. ~leaked'
      BY <2>1, <2>3
    <3> QED
      BY <2>1, <2>3, <3>1, <3>2
  <2> QED
    BY <2>1, <2>2, <2>3
<1>9. CASE Flush
  BY <1>1, <1>9 DEF Flush, Enter
<1>10. CASE Returned
  BY <1>10 DEF Returned, streamvars
<1> QED
  BY <1>2, <1>3, <1>4, <1>5, <1>6, <1>7, <1>8, <1>9, <1>10 DEF StreamNext

-----------------------------------------------------------------------------
(* on_vss_fallback is called before the live data of a shadow partition is written. *)
LEMMA GeometryUnchanged ==
  ASSUME job' = job
  PROVE  /\ Parts' = Parts
         /\ \A i : Owners(i)' = Owners(i) /\ InMiddle(i)' = InMiddle(i) /\ Raw(i)' = Raw(i)
         /\ \A k, i : FirstOwner(k, i)' = FirstOwner(k, i)
         /\ \A k : HasShadow(k)' = HasShadow(k)
  BY DEF Owners, InMiddle, Parts, FirstOwner, HasShadow, Used, PartEnd, BackupStart,
         DiskLength, Raw

LEMMA FirstOwnerUnique ==
  ASSUME job \in Jobs, NEW i, NEW k, NEW l, FirstOwner(k, i), FirstOwner(l, i)
  PROVE  k = l
<1>1. k \in Nat /\ l \in Nat /\ k <= l /\ l <= k
  BY JobNumbers DEF FirstOwner, Owners, Used
<1> QED
  BY <1>1

(* What was told stays told: no partition number and no sector is taken back. *)
LEMMA FallbackReady ==
  ASSUME FallbackInv, job' = job, fallbacks \subseteq fallbacks', emptied \subseteq emptied',
         UNCHANGED image,
         stage' = "write" =>
           \A b \in 0..(n' - 1) : \A k \in Owners(pos' + b) :
             InMiddle(pos' + b) /\ FirstOwner(k, pos' + b) /\ HasShadow(k)
               /\ buffer'[b] = Raw(pos' + b) => ToldNext(k, pos' + b),
         stage' = "fallback" => \A i \in pos'..(pos' + to_write' - 1) : i \in emptied'
  PROVE  FallbackInv'
<1>1. ASSUME NEW i \in DOMAIN image'
      PROVE  Reported(i, image[i])'
  <2>1. Reported(i, image[i])
    BY <1>1 DEF FallbackInv
  <2> QED
    BY <2>1, GeometryUnchanged DEF Reported, Told
<1>2. ASSUME stage' = "write", NEW b \in 0..(n' - 1)
      PROVE  Reported(pos + b, buffer[b])'
  BY <1>2, GeometryUnchanged DEF Reported, Told, ToldNext
<1> QED
  BY <1>1, <1>2 DEF FallbackInv

LEMMA InChunkAddress ==
  ASSUME StreamInv, InChunk, NEW len \in Nat, len <= to_write, NEW b \in 0..(len - 1)
  PROVE  pos + b \in pos..(pos + to_write - 1) /\ pos + b \in Nat
<1>1. pos \in Nat /\ to_write \in Nat
  BY ChunkFacts
<1> QED
  BY <1>1

LEMMA FallbackStep ==
  ASSUME StreamInv, FallbackInv, StreamNext
  PROVE  FallbackInv'
<1>1. CASE stage' = "write"
  <2> DEFINE Live(b) == \A k \in Owners(pos + b) :
               InMiddle(pos + b) /\ FirstOwner(k, pos + b) /\ HasShadow(k)
                 /\ buffer'[b] = Raw(pos + b) => ToldNext(k, pos + b)
  <2>0. ASSUME NEW c, c # "raw", \A b \in 0..(n' - 1) : buffer'[b].src = c
        PROVE  \A b \in 0..(n' - 1) : Live(b)
    <3>1. \A i : Raw(i).src # c
      BY <2>0 DEF Raw
    <3> QED
      BY <2>0, <3>1
  <2>1. Zero.src = "zero"
    BY DEF Zero
  <2>2. CASE FirstChunk
    <3>1. pos = 0 /\ GptSectors \in Nat
      BY <2>2, RegionFacts, JobNumbers DEF FirstChunk
    <3>2. \A b \in 0..(n' - 1) : ~InMiddle(pos + b)
      BY <1>1, <2>2, <3>1, FirstContents DEF InMiddle
    <3> QED
      BY <1>1, <2>2, <3>2, FallbackReady DEF FirstChunk
  <2>3. CASE PrimaryGpt \/ BackupGpt
    <3>1. /\ stage = "region" /\ InChunk /\ ReadRaw(0, RawCounts, pos)
          /\ InPrimary(pos) \/ InBackup(pos)
      BY <2>3 DEF PrimaryGpt, BackupGpt, InChunk
    <3>2. n' \in Nat /\ n' <= to_write
      BY <1>1, <3>1, RawContents
    <3>3. ASSUME NEW b \in 0..(n' - 1)
          PROVE  ~InMiddle(pos + b)
      <4>1. pos + b \in pos..(pos + to_write - 1) /\ pos + b \in Nat
        BY <3>1, <3>2, InChunkAddress
      <4>2. InPrimary(pos + b) \/ InBackup(pos + b)
        BY <3>1, <4>1, ChunkFacts
      <4>3. BackupStart \in Nat /\ GptSectors \in Nat
        BY <3>1, RegionFacts, JobNumbers
      <4> QED
        BY <4>1, <4>2, <4>3 DEF InMiddle, InPrimary, InBackup
    <3> QED
      BY <1>1, <2>3, <3>3, FallbackReady DEF PrimaryGpt, BackupGpt
  <2>4. CASE RawPartition
    <3>1. stage = "region" /\ InChunk /\ InMiddle(pos) /\ ReadRaw(0, RawCounts, pos)
      BY <2>4 DEF RawPartition, InChunk
    <3>2. PICK k \in Owners(pos) : FirstOwner(k, pos) /\ ~HasShadow(k)
      BY <2>4 DEF RawPartition
    <3>3. n' \in Nat /\ n' <= to_write /\ job \in Jobs
      BY <1>1, <3>1, RawContents, RegionFacts
    <3>4. ASSUME NEW b \in 0..(n' - 1), NEW l, FirstOwner(l, pos + b)
          PROVE  ~HasShadow(l)
      <4>1. pos + b \in pos..(pos + to_write - 1)
        BY <3>1, <3>3, InChunkAddress
      <4>2. Owners(pos + b) = Owners(pos)
        BY <3>1, <4>1, ChunkFacts
      <4>3. FirstOwner(k, pos + b)
        BY <3>2, <4>2 DEF FirstOwner
      <4> QED
        BY <3>2, <3>3, <3>4, <4>3, FirstOwnerUnique
    <3> QED
      BY <1>1, <2>4, <3>4, FallbackReady DEF RawPartition
  <2>5. CASE Gap \/ ExcludedPartition
    <3>1. \A b \in 0..(n' - 1) : buffer'[b].src = "zero"
      BY <2>1, <2>5, ZeroContents DEF Gap, ExcludedPartition
    <3>2. \A b \in 0..(n' - 1) : Live(b)
      BY <2>0, <3>1
    <3> QED
      BY <1>1, <2>5, <3>2, FallbackReady DEF Gap, ExcludedPartition
  <2>6. CASE ReadShadow
    <3>1. CopyOf(part) # "raw" /\ \A b \in 0..(n' - 1) : buffer'[b].src = CopyOf(part)
      BY <1>1, <2>6, ShadowContents DEF NotACopy
    <3>2. \A b \in 0..(n' - 1) : Live(b)
      BY <2>0, <3>1
    <3> QED
      BY <1>1, <2>6, <3>2, ShadowContents, FallbackReady
  <2>7. CASE RawFallback
    <3>1. /\ UNCHANGED <<job, pos, emptied, image>> /\ NotifyFallback
          /\ n' \in Nat /\ n' <= to_write
          /\ \A i \in pos..(pos + to_write - 1) : i \in emptied
      BY <1>1, <2>7, FallbackContents DEF RawFallback, FallbackInv
    <3>2. InChunk /\ InMiddle(pos) /\ FirstOwner(part, pos) /\ job \in Jobs
      BY <2>7, ShadowFacts DEF RawFallback, StreamInv, OnShadow
    <3>3. ASSUME NEW b \in 0..(n' - 1), NEW l, FirstOwner(l, pos + b)
          PROVE  l = part
      <4>1. pos + b \in pos..(pos + to_write - 1)
        BY <3>1, <3>2, InChunkAddress
      <4>2. Owners(pos + b) = Owners(pos)
        BY <3>2, <4>1, ChunkFacts
      <4>3. FirstOwner(part, pos + b)
        BY <3>2, <4>2 DEF FirstOwner
      <4> QED
        BY <3>2, <3>3, <4>3, FirstOwnerUnique
    <3>4. fallbacks \subseteq fallbacks' /\ Parts' = Parts
      BY <3>1 DEF NotifyFallback, Parts
    <3>5. ASSUME NEW b \in 0..(n' - 1)
          PROVE  Live(b)
      <4>1. pos + b \in emptied'
        BY <3>1, <3>2, InChunkAddress
      <4>2. job'.on_vss_fallback = "some" => Parts'[part].num \in fallbacks'
        BY <3>1, <3>4 DEF NotifyFallback
      <4> QED
        BY <3>3, <4>1, <4>2, <3>1, <3>4 DEF ToldNext
    <3> QED
      BY <1>1, <3>1, <3>4, <3>5, FallbackReady
  <2> QED
    BY <1>1, <2>2, <2>3, <2>4, <2>5, <2>6, <2>7, WriteReachedBy
<1>2. CASE stage' # "write" /\ Write
  <2>1. /\ StreamTypeOK /\ stage = "write" /\ sink_pos = pos /\ pos \in Nat /\ n \in Nat
        /\ job.sink \in SinkKinds /\ DOMAIN image = 0..(DiskLength - 1) /\ DiskLength \in Nat
    BY <1>2, JobNumbers DEF Write, StreamInv, StreamTypeOK, Positions, Ready
  <2>2. PICK w \in WriteOutcomes(job.sink, n) : image' = ImageAfter(w.taken)
    BY <1>2 DEF Write
  <2>3. w.taken \in 0..n
    BY <2>1, WriteFacts
  <2>4. UNCHANGED <<job, fallbacks, emptied>> /\ stage' # "fallback"
    BY <1>2 DEF Write, Enter
  <2>5. ASSUME NEW i \in DOMAIN image
        PROVE  Reported(i, image'[i])
    <3>1. CASE pos <= i /\ i < pos + w.taken
      <4>1. i - pos \in 0..(n - 1) /\ pos + (i - pos) = i /\ image'[i] = buffer[i - pos]
        BY <2>1, <2>2, <2>3, <3>1 DEF ImageAfter
      <4>2. Reported(pos + (i - pos), buffer[i - pos])
        BY <2>1, <4>1 DEF FallbackInv
      <4> QED
        BY <4>1, <4>2
    <3>2. CASE ~(pos <= i /\ i < pos + w.taken)
      <4>1. image'[i] = image[i]
        BY <2>1, <2>2, <3>2 DEF ImageAfter
      <4> QED
        BY <4>1 DEF FallbackInv
    <3> QED
      BY <3>1, <3>2
  <2>6. DOMAIN image' = DOMAIN image
    BY <2>2 DEF ImageAfter
  <2>7. ASSUME NEW i \in DOMAIN image'
        PROVE  Reported(i, image[i])'
    <3>1. Reported(i, image'[i])
      BY <2>5, <2>6
    <3> QED
      BY <2>4, <3>1, GeometryUnchanged DEF Reported, Told
  <2> QED
    BY <1>2, <2>4, <2>7 DEF FallbackInv
<1>3. CASE stage' # "write" /\ ~Write
  <2>1. CASE ReadShadow
    <3>1. UNCHANGED <<job, image, fallbacks>> /\ emptied \subseteq emptied'
      BY <2>1 DEF ReadShadow, Fail
    <3>2. stage' = "fallback" => \A i \in pos'..(pos' + to_write' - 1) : i \in emptied'
      <4>1. StreamTypeOK /\ to_write \in Nat /\ InChunk
        BY <2>1, ShadowFacts, ChunkFacts DEF ReadShadow
      <4>2. \A r \in ShadowCounts : r \in Nat
        BY <4>1, AsDwordBound DEF ShadowCounts, ReadCounts
      <4> QED
        BY <2>1, <4>2 DEF ReadShadow, AfterShadowRead, Fail, Enter
    <3> QED
      BY <1>3, <3>1, <3>2, FallbackReady
  <2>2. CASE ~ReadShadow
    <3>1. CASE ReadSector0 \/ NextChunk \/ LoopEnds
      <4>1. UNCHANGED <<job, image, fallbacks, emptied>> /\ stage' # "fallback"
        BY <3>1 DEF ReadSector0, NextChunk, LoopEnds, Fail, Enter
      <4> QED
        BY <1>3, <4>1, FallbackReady
    <3>2. CASE FirstChunk \/ FirstChunkPanics \/ PrimaryGpt \/ BackupGpt \/ RawPartition
      <4>1. UNCHANGED <<job, image, fallbacks, emptied>> /\ stage' # "fallback"
        BY <3>2 DEF FirstChunk, FirstChunkPanics, PrimaryGpt, BackupGpt, RawPartition, ReadRaw,
                    Enter
      <4> QED
        BY <1>3, <4>1, FallbackReady
    <3>3. CASE ExcludedPartition \/ Gap \/ OpenShadow
      <4>1. UNCHANGED <<job, image, fallbacks, emptied>> /\ stage' # "fallback"
        BY <3>3 DEF ExcludedPartition, Gap, OpenShadow, Fail, Enter
      <4> QED
        BY <1>3, <4>1, FallbackReady
    <3>4. CASE RawFallback
      <4>1. UNCHANGED <<job, image, fallbacks, emptied>> /\ stage' # "fallback"
        BY <1>3, <3>4 DEF RawFallback, Enter
      <4> QED
        BY <1>3, <4>1, FallbackReady
    <3>5. CASE Flush
      <4>1. UNCHANGED <<job, image, fallbacks, emptied>> /\ stage' # "fallback"
        BY <3>5 DEF Flush, Enter
      <4> QED
        BY <1>3, <4>1, FallbackReady
    <3>6. CASE Returned
      <4>1. UNCHANGED <<job, image, fallbacks, emptied>> /\ stage' # "fallback"
        BY <3>6 DEF Returned, StreamEnded, streamvars
      <4> QED
        BY <1>3, <4>1, FallbackReady
    <3> QED
      BY <1>3, <2>2, <3>1, <3>2, <3>3, <3>4, <3>5, <3>6 DEF StreamNext
  <2> QED
    BY <2>1, <2>2
<1> QED
  BY <1>1, <1>2, <1>3

-----------------------------------------------------------------------------
(* All three, with the invariant they rest on, are inductive. *)
ReportInv == StatusInv /\ HandleInv /\ FallbackInv

LEMMA ReportInit ==
  ASSUME StreamInit
  PROVE  ReportInv
<1>1. StatusInv /\ HandleInv
  BY DEF StreamInit, StatusInv, StatusTruthful, HandleInv, HandleDiscipline
<1>2. \A i \in DOMAIN image : image[i] # Raw(i)
  BY DEF StreamInit, Unwritten, Raw
<1>3. FallbackInv
  BY <1>2 DEF StreamInit, FallbackInv, Reported
<1> QED
  BY <1>1, <1>3 DEF ReportInv

LEMMA ReportStep ==
  ASSUME StreamInv, ReportInv, [StreamNext]_streamvars
  PROVE  ReportInv'
<1>1. CASE StreamNext
  BY <1>1, StatusStep, HandleStep, FallbackStep DEF ReportInv
<1>2. CASE UNCHANGED streamvars
  <2>1. StatusInv'
    BY <1>2 DEF streamvars, ReportInv, StatusInv, StatusTruthful, DeviceOf, CopyOf, Parts
  <2>2. HandleInv'
    BY <1>2 DEF streamvars, ReportInv, HandleInv, HandleDiscipline
  <2>3. FallbackInv'
    <3>1. /\ UNCHANGED <<job, fallbacks, emptied, image, stage, n, pos, to_write, buffer>>
          /\ FallbackInv
      BY <1>2 DEF streamvars, ReportInv
    <3>2. \A k, i : Told(k, i) => ToldNext(k, i)
      BY <3>1, GeometryUnchanged DEF Told, ToldNext
    <3>3. stage' = "write" =>
            \A b \in 0..(n' - 1) : \A k \in Owners(pos' + b) :
              InMiddle(pos' + b) /\ FirstOwner(k, pos' + b) /\ HasShadow(k)
                /\ buffer'[b] = Raw(pos' + b) => ToldNext(k, pos' + b)
      BY <3>1, <3>2 DEF FallbackInv, Reported
    <3>4. stage' = "fallback" => \A i \in pos'..(pos' + to_write' - 1) : i \in emptied'
      BY <3>1 DEF FallbackInv
    <3> QED
      BY <3>1, <3>3, <3>4, FallbackReady
  <2> QED
    BY <2>1, <2>2, <2>3 DEF ReportInv
<1> QED
  BY <1>1, <1>2

LEMMA ReportInductive == StreamSpec => []ReportInv
<1>1. StreamInit => ReportInv
  BY ReportInit
<1>2. StreamInv /\ ReportInv /\ [StreamNext]_streamvars => ReportInv'
  BY ReportStep
<1> QED
  BY <1>1, <1>2, StreamInductive, PTL DEF StreamSpec

(***************************************************************************)
(* The display never names another source than the one the data about to   *)
(* be written was read from, whatever was retried or replaced before.      *)
(***************************************************************************)
THEOREM StatusCorrect == StreamSpec => []StatusTruthful
<1>1. ReportInv => StatusTruthful
  BY DEF ReportInv, StatusInv
<1> QED
  BY <1>1, ReportInductive, PTL

(***************************************************************************)
(* For every layout, overlaps included, the live data of a partition with  *)
(* a shadow copy reaches the image only where the copy was asked twice and *)
(* gave nothing, and after on_vss_fallback was called, if there is one.    *)
(***************************************************************************)
THEOREM FallbackCorrect == StreamSpec => []FallbackReported
<1>1. ReportInv => FallbackReported
  BY DEF ReportInv, FallbackInv, Reported, Told, FallbackReported
<1> QED
  BY <1>1, ReportInductive, PTL

(* No handle is open between two chunks, and the second CloseHandle is that of a fallback. *)
THEOREM HandleCorrect == StreamSpec => []HandleDiscipline
<1>1. ReportInv => HandleDiscipline
  BY DEF ReportInv, HandleInv
<1> QED
  BY <1>1, ReportInductive, PTL

-----------------------------------------------------------------------------
(* stream_to as a one-pass copy: what ImageCopy can see of it. *)
CopyOutcome ==
  CASE stage = "done" -> "done"
    [] stage \in {"failed", "incomplete", "panicked"} -> "failed"
    [] OTHER -> "copying"

LEMMA OutcomeFacts ==
  /\ stage = "done" => CopyOutcome = "done"
  /\ stage \in {"failed", "incomplete", "panicked"} => CopyOutcome = "failed"
  /\ stage \notin {"done", "failed", "incomplete", "panicked"} => CopyOutcome = "copying"
BY DEF CopyOutcome

LEMMA PlanUnchanged ==
  ASSUME job' = job
  PROVE  [i \in 0..(DiskLength - 1) |-> PlanOf(i)]' = [i \in 0..(DiskLength - 1) |-> PlanOf(i)]
<1>1. DiskLength' = DiskLength /\ \A i : PlanOf(i)' = PlanOf(i)
  BY JobUnchanged
<1> QED
  BY <1>1

(* The steps before and after a write leave the destination alone. *)
LEMMA OnlyWriteWrites ==
  ASSUME StreamInv, StreamNext, ~Write, ~Flush
  PROVE  /\ UNCHANGED <<job, image, sink_pos>>
         /\ stage' = "done" => stage = "done"
         /\ stage \in {"done", "failed", "incomplete", "panicked"} => stage' = stage
<1>1. CASE ReadSector0 \/ NextChunk \/ LoopEnds
  BY <1>1 DEF ReadSector0, NextChunk, LoopEnds, Fail, Enter
<1>2. CASE FirstChunk \/ FirstChunkPanics \/ PrimaryGpt \/ BackupGpt \/ RawPartition
  BY <1>2 DEF FirstChunk, FirstChunkPanics, PrimaryGpt, BackupGpt, RawPartition, ReadRaw, Enter
<1>3. CASE ExcludedPartition \/ Gap \/ OpenShadow
  BY <1>3 DEF ExcludedPartition, Gap, OpenShadow, Fail, Enter
<1>4. CASE ReadShadow
  BY <1>4 DEF ReadShadow, AfterShadowRead, Fail, Enter
<1>5. CASE RawFallback
  BY <1>5 DEF RawFallback, Enter
<1>6. CASE Returned
  BY <1>6 DEF Returned, streamvars
<1> QED
  BY <1>1, <1>2, <1>3, <1>4, <1>5, <1>6 DEF StreamNext

LEMMA WriteCopies ==
  ASSUME StreamInv, Write
  PROVE  Copying!Copy
<1>1. /\ StreamTypeOK /\ stage = "write" /\ sink_pos = pos /\ pos \in Nat
      /\ n \in Nat /\ pos + n <= DiskLength /\ DiskLength \in Nat /\ job.sink \in SinkKinds
  BY JobNumbers DEF Write, StreamInv, StreamTypeOK, Positions, Ready
<1>2. PICK w \in WriteOutcomes(job.sink, n) :
        /\ image' = ImageAfter(w.taken)
        /\ sink_pos' = sink_pos + w.taken
        /\ stage' \in {"loop", "failed"}
  BY DEF Write, Enter
<1>3. w.taken \in 0..n
  BY <1>1, WriteFacts
<1>4. DOMAIN image = 0..(DiskLength - 1)
  BY <1>1 DEF StreamTypeOK
<1>5. /\ sink_pos' \in Nat /\ sink_pos' >= sink_pos
      /\ \A i \in sink_pos..(sink_pos' - 1) : i \in 0..(DiskLength - 1)
      /\ DOMAIN image' = 0..(DiskLength - 1)
  BY <1>1, <1>2, <1>3, <1>4 DEF ImageAfter
<1>6. ASSUME NEW i \in 0..(DiskLength - 1)
      PROVE  IF i \in sink_pos..(sink_pos' - 1)
             THEN image'[i] \in PlanOf(i)
             ELSE image'[i] = image[i]
  <2>1. CASE i \in sink_pos..(sink_pos' - 1)
    <3>1. image'[i] = buffer[i - pos] /\ i - pos \in 0..(n - 1) /\ pos + (i - pos) = i
      BY <1>1, <1>2, <1>3, <1>4, <2>1 DEF ImageAfter
    <3> QED
      BY <1>1, <2>1, <3>1 DEF StreamInv, Ready
  <2>2. CASE i \notin sink_pos..(sink_pos' - 1)
    BY <1>1, <1>2, <1>3, <1>4, <2>2 DEF ImageAfter
  <2> QED
    BY <2>1, <2>2
<1>7. CopyOutcome = "copying" /\ CopyOutcome' \in {"copying", "failed"}
  BY <1>1, <1>2 DEF CopyOutcome
<1>8. job' = job
  BY DEF Write
<1> QED
  BY <1>5, <1>6, <1>7, <1>8, PlanUnchanged DEF Copying!Copy, Copying!Sectors, CopyOutcome

LEMMA FlushCopies ==
  ASSUME StreamInv, Flush
  PROVE  Copying!CopyNext
<1>1. /\ stage = "flush" /\ sink_pos = DiskLength /\ DiskLength \in Nat /\ sink_pos \in Nat
      /\ DOMAIN image = 0..(DiskLength - 1)
  BY JobNumbers DEF Flush, StreamInv, Positions, StreamTypeOK
<1>2. stage' \in {"failed", "done"} /\ UNCHANGED <<job, image, sink_pos>>
  BY DEF Flush, Enter, StreamInv, Positions
<1>3. CopyOutcome = "copying"
  BY <1>1, OutcomeFacts
<1>4. CASE stage' = "failed"
  <2>1. CopyOutcome' = "failed"
    BY <1>4 DEF CopyOutcome
  <2>2. /\ \A i \in sink_pos..(sink_pos' - 1) : i \in 0..(DiskLength - 1)
        /\ \A i \in 0..(DiskLength - 1) : i \notin sink_pos..(sink_pos' - 1)
        /\ sink_pos' >= sink_pos
    BY <1>1, <1>2
  <2>3. Copying!Copy
    BY <1>1, <1>2, <1>3, <2>1, <2>2, PlanUnchanged
    DEF Copying!Copy, Copying!Sectors, CopyOutcome
  <2> QED
    BY <2>3 DEF Copying!CopyNext
<1>5. CASE stage' = "done"
  <2>1. CopyOutcome' = "done"
    BY <1>5 DEF CopyOutcome
  <2>2. Copying!Finish
    BY <1>1, <1>2, <1>3, <2>1, PlanUnchanged DEF Copying!Finish, Copying!Sectors, CopyOutcome
  <2> QED
    BY <2>2 DEF Copying!CopyNext
<1> QED
  BY <1>2, <1>4, <1>5

LEMMA OtherStepCopies ==
  ASSUME StreamInv, StreamNext, ~Write, ~Flush
  PROVE  Copying!Copy \/ UNCHANGED Copying!absvars
<1>1. /\ UNCHANGED <<job, image, sink_pos>>
      /\ stage' = "done" => stage = "done"
      /\ stage \in {"done", "failed", "incomplete", "panicked"} => stage' = stage
  BY OnlyWriteWrites
<1>2. sink_pos \in Nat /\ DOMAIN image = 0..(DiskLength - 1)
  BY DEF StreamInv, StreamTypeOK
<1>3. CASE CopyOutcome' = CopyOutcome
  BY <1>1, <1>3, PlanUnchanged DEF Copying!absvars, CopyOutcome
<1>4. CASE CopyOutcome' # CopyOutcome
  <2>1. CopyOutcome = "copying" /\ CopyOutcome' = "failed"
    BY <1>1, <1>4 DEF CopyOutcome
  <2>2. \A i : i \notin sink_pos..(sink_pos' - 1)
    BY <1>1, <1>2
  <2>3. sink_pos' >= sink_pos
    BY <1>1, <1>2
  <2> QED
    BY <1>1, <1>2, <2>1, <2>2, <2>3, PlanUnchanged
    DEF Copying!Copy, Copying!Sectors, CopyOutcome
<1> QED
  BY <1>3, <1>4

(***************************************************************************)
(* For every disk, layout, sink and buffer the chunk loop is the one-pass  *)
(* copy of ImageCopy: each sector once, in order, at its own address, and  *)
(* success only at the end.                                                *)
(***************************************************************************)
THEOREM ImplementsCopyCorrect == StreamSpec => ImplementsCopy
<1>1. StreamInit => Copying!CopyInit
  <2> SUFFICES ASSUME StreamInit PROVE Copying!CopyInit
    OBVIOUS
  <2>1. CopyOutcome = "copying"
    BY OutcomeFacts DEF StreamInit
  <2> QED
    BY <2>1 DEF StreamInit, Copying!CopyInit, Copying!Sectors, CopyOutcome
<1>2. StreamInv /\ [StreamNext]_streamvars => [Copying!CopyNext]_(Copying!absvars)
  <2> SUFFICES ASSUME StreamInv, [StreamNext]_streamvars
               PROVE  Copying!CopyNext \/ UNCHANGED Copying!absvars
    OBVIOUS
  <2>1. CASE Write
    BY <2>1, WriteCopies DEF Copying!CopyNext
  <2>2. CASE Flush
    BY <2>2, FlushCopies
  <2>3. CASE StreamNext /\ ~Write /\ ~Flush
    BY <2>3, OtherStepCopies DEF Copying!CopyNext
  <2>4. CASE UNCHANGED streamvars
    BY <2>4, PlanUnchanged DEF streamvars, Copying!absvars
  <2> QED
    BY <2>1, <2>2, <2>3, <2>4
<1> QED
  BY <1>1, <1>2, StreamInductive, PTL DEF StreamSpec, ImplementsCopy, Copying!CopySpec

=============================================================================
