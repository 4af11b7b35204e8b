---------------------------- MODULE ImageBuilder ----------------------------
(***************************************************************************)
(* ImageBuilder::stream_to (src/image_builder.rs): the loop that writes    *)
(* the image of a whole disk to a sink, chunk by chunk, choosing for each  *)
(* chunk where its data comes from.                                        *)
(***************************************************************************)
EXTENDS Geometry, Sinks

(***************************************************************************)
(* A clone is a job of Geometry with the sink, whether the caller passes   *)
(* an on_vss_fallback (the window does, the command line does not), and    *)
(* the length of the read buffer, which ImageBuilder::new makes one sector *)
(* at least.                                                               *)
(***************************************************************************)
ASSUME BuilderAssumption ==
  /\ GptSectors <= DwordSectors
  /\ \A j \in Jobs : /\ j.sink \in SinkKinds
                     /\ j.on_vss_fallback \in {"some", "none"}
                     /\ j.buffer \in Nat \ {0}

VARIABLES
  stage,          \* where stream_to is
  pos,            \* the disk address of the next chunk
  total_written,  \* what the sink says it has written
  to_write,       \* the length of the current chunk
  buffer,         \* the read buffer, sector by sector
  n,              \* how much of the buffer is to be written
  part,           \* the partition entry of the current chunk
  handle,         \* read_handle, when it is a shadow copy: "none", "open" or "closed"
  stream_status,  \* the StreamRegionInfo last reported
  fallbacks,      \* the partition numbers given to on_vss_fallback
  emptied,        \* history: the disk addresses at which both reads of a shadow copy gave nothing
  image,          \* what the sink's destination holds, sector by sector
  sink_pos,       \* the destination's file pointer
  double_close,   \* CloseHandle was called on a closed handle
  leaked          \* a shadow copy handle was dropped open

streamvars == <<job, stage, pos, total_written, to_write, buffer, n, part, handle,
                stream_status, fallbacks, emptied, image, sink_pos, double_close, leaked>>

-----------------------------------------------------------------------------
BufferSectors == job.buffer

(* Mutant: a chunk that starts in a gap may run into the next partition. *)
ChunkLimitsNoNextStart ==
  {pos + BufferSectors, DiskLength}
    \cup (IF InPrimary(pos) THEN {GptSectors} ELSE {})
    \cup (IF InMiddle(pos) THEN {BackupStart} \cup {PartEnd(k) : k \in Owners(pos)} ELSE {})

(* Mutant: `pos <= p_start`, so a chunk at the start of a partition is empty. *)
ChunkLimitsAtStart ==
  {pos + BufferSectors, DiskLength}
    \cup (IF InPrimary(pos) THEN {GptSectors} ELSE {})
    \cup (IF InMiddle(pos)
          THEN {BackupStart} \cup {Parts[k].start : k \in {l \in Used : pos <= Parts[l].start}}
          ELSE {})

(***************************************************************************)
(* Where a chunk that starts at pos may end at most: every limit the code  *)
(* applies to chunk_end.  The chunk ends at the smallest one.              *)
(***************************************************************************)
ChunkLimits ==
  {pos + BufferSectors, DiskLength}
    \cup (IF InPrimary(pos) THEN {GptSectors} ELSE {})
    \cup (IF InMiddle(pos)
          THEN {BackupStart}
               \cup {Parts[k].start : k \in {l \in Used : pos < Parts[l].start}}
               \cup {PartEnd(k) : k \in Owners(pos)}
          ELSE {})

ChunkEnd(e) == e \in ChunkLimits /\ \A l \in ChunkLimits : e <= l

-----------------------------------------------------------------------------
(* Steps every path is made of. *)
Enter(l) == stage' = l

(* Mutant: the display is updated only when the partition changes. *)
ReportNewPartition(source, k) ==
  stream_status' = IF k # 0 /\ stream_status.part = k
                   THEN stream_status
                   ELSE [source |-> source, part |-> k]

Report(source, k) == stream_status' = [source |-> source, part |-> k]

(* A buffer that received r sectors at index at, the first one being content first. *)
Filled(at, r, src, first) ==
  [b \in DOMAIN buffer |-> IF at <= b /\ b < at + r
                           THEN [src |-> src, at |-> first + (b - at)]
                           ELSE buffer[b]]

ZeroFilled(len) == [b \in DOMAIN buffer |-> IF b < len THEN Zero ELSE buffer[b]]

(***************************************************************************)
(* The sector counts one ReadFile of len sectors at an offset may return,  *)
(* on a device of the given size: anything up to what was asked for and    *)
(* what is there.                                                          *)
(***************************************************************************)
ReadCounts(len, offset, size) ==
  {r \in 0..AsDword(len) : r = 0 \/ offset + r <= size}

(* Mutant: the disk address is taken for the volume offset. *)
VolumeOffsetIsPos == pos

VolumeOffset  == pos - Parts[part].start
ShadowCounts  == ReadCounts(to_write, VolumeOffset, job.shadow[Parts[part].start].len)
RawCounts     == ReadCounts(to_write, pos, DiskLength)

(* An early return: handles held in read_handle are not closed on the way. *)
Fail ==
  /\ Enter("failed")
  /\ leaked' = (leaked \/ handle = "open")
  /\ UNCHANGED <<job, pos, total_written, to_write, buffer, n, part, handle,
                 stream_status, fallbacks, emptied, image, sink_pos, double_close>>

-----------------------------------------------------------------------------
StreamInit ==
  /\ job \in Jobs
  /\ stage = "sector0"
  /\ pos = 0
  /\ total_written = 0
  /\ to_write = 0
  /\ buffer = [b \in 0..(BufferSectors - 1) |-> Zero]
  /\ n = 0
  /\ part = 0
  /\ handle = "none"
  /\ stream_status = [source |-> "PrimaryGpt", part |-> 0]
  /\ fallbacks = {}
  /\ emptied = {}
  /\ image = [i \in 0..(DiskLength - 1) |-> Unwritten]
  /\ sink_pos = 0
  /\ double_close = FALSE
  /\ leaked = FALSE

(* Sector 0 is read once, before the loop, and must carry the MBR signature. *)
ReadSector0 ==
  /\ stage = "sector0"
  /\ \/ /\ DiskLength > 0
        /\ buffer' = Filled(0, 1, "raw", 0)
        /\ Enter("loop")
        /\ UNCHANGED <<job, pos, total_written, to_write, n, part, handle, stream_status,
                       fallbacks, emptied, image, sink_pos, double_close, leaked>>
     \/ Fail

(* The head of the loop: the end of the next chunk. *)
NextChunk ==
  /\ stage = "loop"
  /\ pos < DiskLength
  /\ \E e \in ChunkLimits :
        /\ ChunkEnd(e)
        /\ to_write' = e - pos
        /\ Enter(IF e = pos THEN "flush" ELSE "region")
  /\ UNCHANGED <<job, pos, total_written, buffer, n, part, handle, stream_status,
                 fallbacks, emptied, image, sink_pos, double_close, leaked>>

LoopEnds ==
  /\ stage = "loop"
  /\ pos >= DiskLength
  /\ Enter("flush")
  /\ UNCHANGED <<job, pos, total_written, to_write, buffer, n, part, handle, stream_status,
                 fallbacks, emptied, image, sink_pos, double_close, leaked>>

(***************************************************************************)
(* A read of the raw disk into the buffer at index at, the first sector    *)
(* being the one at address first.  A read of nothing into an empty buffer *)
(* and a failed read are errors.                                           *)
(***************************************************************************)
ReadRaw(at, counts, first) ==
  /\ \/ \E r \in counts :
          /\ buffer' = Filled(at, r, "raw", first)
          /\ n' = at + r
          /\ Enter(IF at + r = 0 THEN "failed" ELSE "write")
     \/ /\ Enter("failed")
        /\ UNCHANGED <<buffer, n>>
  /\ UNCHANGED leaked

(* Mutant: no bounds check on the slice behind sector 0. *)
FirstChunkUnchecked ==
  /\ stage = "region"
  /\ pos = 0
  /\ InPrimary(pos)
  /\ Report("PrimaryGpt", 0)
  /\ ReadRaw(1, ReadCounts(GptSectors - 1, 1, DiskLength), 1)
  /\ UNCHANGED <<job, pos, total_written, to_write, part, handle, fallbacks, emptied, image,
                 sink_pos, double_close>>

(***************************************************************************)
(* The first GPT chunk keeps sector 0 of the buffer and reads the rest of  *)
(* the header area behind it, whatever to_write is.  A buffer shorter than *)
(* the header area makes the slice panic.                                  *)
(***************************************************************************)
FirstChunk ==
  /\ stage = "region"
  /\ pos = 0
  /\ InPrimary(pos)
  /\ BufferSectors >= GptSectors
  /\ Report("PrimaryGpt", 0)
  /\ ReadRaw(1, ReadCounts(GptSectors - 1, 1, DiskLength), 1)
  /\ UNCHANGED <<job, pos, total_written, to_write, part, handle, fallbacks, emptied, image,
                 sink_pos, double_close>>

FirstChunkPanics ==
  /\ stage = "region"
  /\ pos = 0
  /\ InPrimary(pos)
  /\ BufferSectors < GptSectors
  /\ Report("PrimaryGpt", 0)
  /\ Enter("panicked")
  /\ UNCHANGED <<job, pos, total_written, to_write, buffer, n, part, handle, fallbacks, emptied,
                 image, sink_pos, double_close, leaked>>

PrimaryGpt ==
  /\ stage = "region"
  /\ pos # 0
  /\ InPrimary(pos)
  /\ Report("PrimaryGpt", 0)
  /\ ReadRaw(0, RawCounts, pos)
  /\ UNCHANGED <<job, pos, total_written, to_write, part, handle, fallbacks, emptied, image,
                 sink_pos, double_close>>

BackupGpt ==
  /\ stage = "region"
  /\ InBackup(pos)
  /\ Report("BackupGpt", 0)
  /\ ReadRaw(0, RawCounts, pos)
  /\ UNCHANGED <<job, pos, total_written, to_write, part, handle, fallbacks, emptied, image,
                 sink_pos, double_close>>

(* The loop over the partition entries stops at the first one that holds pos. *)
ExcludedPartition ==
  /\ stage = "region"
  /\ InMiddle(pos)
  /\ \E k \in Owners(pos) : FirstOwner(k, pos) /\ Excluded(k)
                            /\ Report("PartitionExcluded", Parts[k].num)
  /\ buffer' = ZeroFilled(to_write)
  /\ n' = to_write
  /\ Enter("write")
  /\ UNCHANGED <<job, pos, total_written, to_write, part, handle, fallbacks, emptied, image,
                 sink_pos, double_close, leaked>>

Gap ==
  /\ stage = "region"
  /\ InMiddle(pos)
  /\ Owners(pos) = {}
  /\ Report("Gap", 0)
  /\ buffer' = ZeroFilled(to_write)
  /\ n' = to_write
  /\ Enter("write")
  /\ UNCHANGED <<job, pos, total_written, to_write, part, handle, fallbacks, emptied, image,
                 sink_pos, double_close, leaked>>

RawPartition ==
  /\ stage = "region"
  /\ InMiddle(pos)
  /\ \E k \in Owners(pos) : /\ FirstOwner(k, pos)
                            /\ ~Excluded(k)
                            /\ ~HasShadow(k)
                            /\ Report("PartitionRaw", Parts[k].num)
                            /\ part' = k
  /\ ReadRaw(0, RawCounts, pos)
  /\ UNCHANGED <<job, pos, total_written, to_write, handle, fallbacks, emptied, image, sink_pos,
                 double_close>>

(* A handle on the shadow copy is opened for every chunk; open_volume_raw may fail. *)
OpenShadow ==
  /\ stage = "region"
  /\ InMiddle(pos)
  /\ \E k \in Owners(pos) :
        /\ FirstOwner(k, pos)
        /\ ~Excluded(k)
        /\ HasShadow(k)
        /\ \/ /\ Report("PartitionVss", Parts[k].num)
              /\ part' = k
              /\ handle' = "open"
              /\ Enter("readShadow")
              /\ UNCHANGED <<job, pos, total_written, to_write, buffer, n, fallbacks, emptied, image,
                             sink_pos, double_close, leaked>>
           \/ Fail

(* Mutant: the shadow copy is read again until it returns something. *)
RetryForEver(r) ==
  IF r > 0 THEN "write" ELSE IF stage = "readShadow" THEN "retryShadow" ELSE "readShadow"

AfterShadowRead(r) ==
  IF r > 0 THEN "write" ELSE IF stage = "readShadow" THEN "retryShadow" ELSE "fallback"

(* The first read and, when it returns nothing, one more; either may fail. *)
ReadShadow ==
  /\ stage \in {"readShadow", "retryShadow"}
  /\ \/ \E r \in ShadowCounts :
          /\ buffer' = Filled(0, r, CopyOf(part), VolumeOffset)
          /\ n' = r
          /\ emptied' = IF r = 0 /\ stage = "retryShadow"
                        THEN emptied \cup (pos..(pos + to_write - 1))
                        ELSE emptied
          /\ Enter(AfterShadowRead(r))
          /\ UNCHANGED <<job, pos, total_written, to_write, part, handle, stream_status,
                         fallbacks, image, sink_pos, double_close, leaked>>
     \/ Fail

(* Mutant: the callback is called for the first chunk of a partition only. *)
NotifyAtPartitionStart ==
  fallbacks' = IF VolumeOffset = 0 THEN fallbacks \cup {Parts[part].num} ELSE fallbacks

(* on_vss_fallback, if there is one. *)
NotifyFallback ==
  fallbacks' = IF job.on_vss_fallback = "some" THEN fallbacks \cup {Parts[part].num}
                                               ELSE fallbacks

(***************************************************************************)
(* Both reads returned nothing: the handle is closed and the chunk is read *)
(* from the raw disk.  When that also returns nothing the closed handle is *)
(* closed again on the way out.                                            *)
(***************************************************************************)
RawFallback ==
  /\ stage = "fallback"
  /\ handle' = "closed"
  /\ \/ \E r \in RawCounts \ {0} :
          /\ buffer' = Filled(0, r, "raw", Parts[part].start + VolumeOffset)
          /\ n' = r
          /\ NotifyFallback
          /\ Report("PartitionRaw", Parts[part].num)
          /\ Enter("write")
          /\ UNCHANGED double_close
     \/ \E closed_again \in BOOLEAN :   \* TRUE: a zero-byte read; FALSE: a failed one
          /\ double_close' = (double_close \/ closed_again)
          /\ Enter("failed")
          /\ UNCHANGED <<buffer, n, fallbacks, stream_status>>
  /\ UNCHANGED <<job, pos, total_written, to_write, part, emptied, image, sink_pos, leaked>>

(* What the destination holds once it has taken d sectors of the buffer. *)
ImageAfter(d) ==
  [i \in DOMAIN image |-> IF sink_pos <= i /\ i < sink_pos + d
                          THEN buffer[i - sink_pos]
                          ELSE image[i]]

(* Mutant: the handle is closed only when the whole chunk was read. *)
CloseAfterWholeChunk ==
  /\ double_close' = (double_close \/ (handle = "closed" /\ n = to_write))
  /\ handle' = IF n = to_write THEN "none" ELSE handle

(* The CloseHandle after a chunk of a partition; the fallback has closed it already. *)
CloseShadowHandle ==
  /\ double_close' = (double_close \/ handle = "closed")
  /\ handle' = "none"

(* sink.write, and the CloseHandle that follows when it succeeds. *)
Write ==
  /\ stage = "write"
  /\ \E w \in WriteOutcomes(job.sink, n) :
        /\ image' = ImageAfter(w.taken)
        /\ sink_pos' = sink_pos + w.taken
        /\ IF w.ok
           THEN /\ total_written' = total_written + w.ret
                /\ pos' = pos + w.ret
                /\ CloseShadowHandle
                /\ Enter("loop")
                /\ UNCHANGED leaked
           ELSE /\ leaked' = (leaked \/ handle = "open")
                /\ Enter("failed")
                /\ UNCHANGED <<total_written, pos, double_close, handle>>
  /\ UNCHANGED <<job, to_write, buffer, n, part, stream_status, fallbacks, emptied>>

(* sink.flush, then the comparison of total_written with the disk's length. *)
Flush ==
  /\ stage = "flush"
  /\ \E ok \in FlushOutcomes(job.sink) :
        Enter(IF ~ok THEN "failed"
             ELSE IF total_written # DiskLength THEN "incomplete" ELSE "done")
  /\ UNCHANGED <<job, pos, total_written, to_write, buffer, n, part, handle, stream_status,
                 fallbacks, emptied, image, sink_pos, double_close, leaked>>

StreamEnded == stage \in {"done", "failed", "incomplete", "panicked"}

Returned == StreamEnded /\ UNCHANGED streamvars

StreamNext ==
  \/ ReadSector0 \/ NextChunk \/ LoopEnds
  \/ FirstChunk \/ FirstChunkPanics \/ PrimaryGpt \/ BackupGpt
  \/ ExcludedPartition \/ Gap \/ RawPartition
  \/ OpenShadow \/ ReadShadow \/ RawFallback
  \/ Write \/ Flush \/ Returned

(* One thread runs stream_to and nothing it calls blocks for ever. *)
StreamSpec == StreamInit /\ [][StreamNext]_streamvars /\ WF_streamvars(StreamNext)

-----------------------------------------------------------------------------
Locations == {"sector0", "loop", "region", "readShadow", "retryShadow", "fallback",
              "write", "flush", "done", "failed", "incomplete", "panicked"}

Sources == {"PrimaryGpt", "BackupGpt", "Gap", "PartitionVss", "PartitionRaw",
            "PartitionExcluded"}

(* Every variable stays in its range; what is not a count or an address is finite. *)
StreamTypeOK ==
  /\ job \in Jobs
  /\ stage \in Locations
  /\ pos \in Nat
  /\ total_written \in Nat
  /\ to_write \in Nat
  /\ buffer \in [0..(BufferSectors - 1) -> Written]
  /\ n \in 0..BufferSectors
  /\ part \in Nat
  /\ handle \in {"none", "open", "closed"}
  /\ stream_status \in [source : Sources, part : Nat]
  /\ fallbacks \subseteq Nat
  /\ emptied \subseteq 0..(DiskLength - 1)
  /\ image \in [0..(DiskLength - 1) -> Written \cup {Unwritten}]
  /\ sink_pos \in Nat
  /\ double_close \in BOOLEAN
  /\ leaked \in BOOLEAN

(***************************************************************************)
(* "Preserves LBA positions" (src/image_builder.rs:3): however reads are   *)
(* cut short, retried or replaced and writes are cut short, every sector   *)
(* the destination holds is at the address it has on the source and has a  *)
(* content planned for that address; nothing is written further on.        *)
(***************************************************************************)
LayoutPreserved ==
  \A i \in DOMAIN image :
    IF i < sink_pos THEN image[i] \in PlanOf(i) ELSE image[i] = Unwritten

(***************************************************************************)
(* stream_to answers Ok only when every sector of the disk is in the image *)
(* and the count it returns is the disk's length.                          *)
(***************************************************************************)
CloneComplete ==
  stage = "done" => /\ total_written = DiskLength
                 /\ \A i \in DOMAIN image : image[i] # Unwritten

(***************************************************************************)
(* The loop leaves only at the end of the disk: the "Incomplete clone"     *)
(* error after it is never returned.                                       *)
(***************************************************************************)
NeverIncomplete == stage # "incomplete"

(***************************************************************************)
(* No silent mix of shadow and live data inside stream_to: a sector of a   *)
(* partition with a shadow copy is read from the raw disk only where the   *)
(* shadow copy was asked for it twice and gave nothing; and if the caller  *)
(* has passed an on_vss_fallback, it was called for that partition.        *)
(***************************************************************************)
FallbackReported ==
  \A i \in DOMAIN image : \A k \in Owners(i) :
    /\ InMiddle(i)
    /\ FirstOwner(k, i)
    /\ HasShadow(k)
    /\ image[i] = Raw(i)
    => /\ i \in emptied
       /\ job.on_vss_fallback = "some" => Parts[k].num \in fallbacks

(***************************************************************************)
(* The region last reported to the progress display is where the data      *)
(* about to be written came from, also after a fallback; for a shadow copy *)
(* it is that of the partition on display.                                 *)
(***************************************************************************)
DeviceOf(source) ==
  CASE source \in {"PrimaryGpt", "BackupGpt", "PartitionRaw"} -> "raw"
    [] source = "PartitionVss"                              -> CopyOf(part)
    [] source \in {"Gap", "PartitionExcluded"}              -> "zero"

StatusTruthful ==
  stage = "write" =>
    /\ \A b \in 0..(n - 1) : buffer[b].src = DeviceOf(stream_status.source)
    /\ stream_status.source = "PartitionVss" => stream_status.part = Parts[part].num

(***************************************************************************)
(* Shadow copy handles: none is open between chunks, one is lost only by   *)
(* an early return, and CloseHandle is called on a closed handle only on   *)
(* the fallback path: on the fallback that delivers data, always, whether  *)
(* or not anybody is told of it.                                           *)
(***************************************************************************)
HandleDiscipline ==
  /\ stage \in {"loop", "region", "flush"} => handle = "none"
  /\ leaked => stage = "failed"
  /\ stage \in {"loop", "flush", "done"} => (double_close <=> emptied # {})

(***************************************************************************)
(* stream_to ends, unless from some point on the sink keeps answering      *)
(* Ok(0), which LocalDiskSink does when WriteFile writes nothing.          *)
(***************************************************************************)
WriteStalls == stage = "write" /\ stage' = "loop" /\ pos' = pos

EndsUnlessStalled == <>[][~WriteStalls]_streamvars => <>StreamEnded

(***************************************************************************)
(* "Excluded partitions (by partition number) are written as zeros"        *)
(* (src/image_builder.rs:125), wherever they lie outside the GPT areas.    *)
(***************************************************************************)
ExcludedIsZero ==
  stage = "done" => \A i \in DOMAIN image : \A k \in Owners(i) :
                   InMiddle(i) /\ Excluded(k) => image[i] = Zero

(***************************************************************************)
(* The chunk loop implements the one-pass copy of ImageCopy.               *)
(***************************************************************************)
Copying == INSTANCE ImageCopy WITH
  plan    <- [i \in 0..(DiskLength - 1) |-> PlanOf(i)],
  copied  <- sink_pos,
  outcome <- CASE stage = "done" -> "done"
               [] stage \in {"failed", "incomplete", "panicked"} -> "failed"
               [] OTHER -> "copying"

ImplementsCopy == Copying!CopySpec
=============================================================================
