# Verification of diskclone

TLA+ specifications of [diskclone](../src/README.md), a Windows program that clones a whole disk
while the system runs: it takes a VSS snapshot of the volumes on the disk and streams an image
made of GPT areas, gaps, shadow copies and raw partitions to a file, to another disk or over SSH.
The specifications are translated from the Rust sources; TLC checks them on small instances and
TLAPS proves every safety property and every refinement that the runs check, for every value of the constants.

    tlc -config MCImageBuilder.cfg MCImageBuilder     # and so on, see "Runs"
    tlapm ImageBuilder_proofs.tla                     # and the other *_proofs modules

Lengths and addresses are counted in sectors of 512 bytes everywhere.

## 1. Inventory

| component | source | state it keeps | operations |
|---|---|---|---|
| Image builder | `src/src/image_builder.rs` | disk handle, drive layout, shadow map, buffer; within `stream_to`: position, total, current handle, status, image | `new`, `stream_to`, `Drop` |
| Local sinks | `local_sink.rs`, the window's `ProgressSink` | a file or disk handle and its file pointer; a counter | `new`, `write`, `flush`, `Drop` |
| SSH destination | `ssh_sink.rs` | session, channel; on the other side the command and what it has stored | `create_ssh_session`, `new`, `new_cat`, `write`, `flush` |
| Preview | `diagram.rs` | none outside one call | `build_diagram_regions`, `format_diagram_ascii` |
| VSS snapshot | `vss.rs` | backup components (an `Option`), snapshot ids | `create_for_disk`, `build_partition_shadow_map`, `get_shadow_path`, `finish`, `Drop` |
| Snapshot analysis | `vss.rs` | none | `analyze_snapshot_support` |
| Disk access | `disk.rs` | none; handles belong to the caller | open, layout, list of disks, `read_sectors` |
| Command line | `main.rs` | one clone, start to end | `main` |
| DiskClone Visual | `diskclone-visual/src/main.rs` | the window's fields, two channels per clone, one per analysis, threads | `update`, `start_clone`, `send_confirm_and_start`, `run_clone` |
| Diagnostics, opening a shadow copy in Explorer | `vss.rs`, `image_builder.rs` | a drive letter | printouts, one mount |

How they interact. `main` and the worker of the window do the same thing: they read the layout,
make a `VssSnapshot`, give it to `ImageBuilder::new`, which asks it once for a map from disk
offsets to shadow copy paths, show `diagram_regions`, wait for the user, open a sink, call
`stream_to`, and call `finish`. The map holds paths only: nothing but the order of these calls
keeps the snapshot alive while the paths are in use. `stream_to` calls the sink, a status cell
behind a mutex, and a fallback callback, which the window passes and the command line does not. In the window the worker is a thread; it sends
`WorkerMsg`s and blocks on a confirmation channel, and the window reads the messages when it draws a
frame. Another thread analyses each disk that is selected. Analyses, clones and the list of disks open
the same physical disks, and what they share is decided by Windows from the modes they open them with.

What is hard here, and what makes each component correct:

- **Image builder.** Short, empty and failed reads and writes in any combination, chunks that have
  to stop at every region boundary, a retry and a fallback to another device inside one chunk, a
  handle that two places close. Correct: each sector is at its own address with the content the
  layout calls for; `Ok` means all of it; live sectors stand in for a shadow copy only where that gave nothing; the handles are closed; it ends.
- **Local sinks.** `as DWORD` truncates; a write of nothing is `Ok(0)`; one sink repeats short writes,
  the other does not. Correct: what a sink says it took is what it took.
- **SSH destination.** Four methods of authentication in a row; two processes that wait for each other over a
  window of limited size; a command that may end, fail or close its output whenever it likes; a connection that
  breaks or goes silent. Correct: every method gets its turn and no more than needed; calls return; `flush` waits for the command.
- **Preview.** The same layout walked by a different algorithm with a different shadow lookup.
  Correct: no holes, every partition that is copied is shown, and what is shown is what is copied.
- **VSS snapshot.** Every call may fail, waiting for an asynchronous operation does not tell
  whether it succeeded, volumes may move between enumeration and mapping. Correct: completed
  exactly once on every path, alive while the image is built, the map right, and no volume taken for another.
- **Snapshot analysis.** Asks for the extents of the volumes three times, and the clone asks twice more. Correct:
  what it announces is what the clone does.
- **Disk access.** Several openers of one disk. Correct: nobody writes to a disk that is being cloned; handles are closed.
- **Command line.** `process::exit`, aborts and Ctrl+C with a snapshot held.
- **Window.** Old workers that still run when a new clone starts, messages of the old and the new
  one, an analysis of a disk no longer selected, frames that come only when asked for. Correct:
  a confirmation goes to the worker whose layout is on display, "Done" is true, no worker and no
  snapshot is forgotten, what the user waits for is answered.

`PROJECT.json` lists each hazard at its line with the properties that watch it.

## 2. Modules

| module | models | with |
|---|---|---|
| `Geometry` | the input of a clone (`job`), regions, owners, `PlanOf`: what each sector may hold | |
| `Sinks` | outcomes of one call of `write` and `flush` of the three sinks | |
| `ImageCopy` | abstract specification: a one-pass copy | |
| `ImageBuilder` | `stream_to` | extends `Geometry`, `Sinks`; implements `ImageCopy` |
| `SinkCalls` | abstract specification: a sequence of calls with the outcomes of `Sinks` | extends `Sinks` |
| `LocalSinks` | `FileSink`, `LocalDiskSink`, `ProgressSink`, a step per `WriteFile` | implements `SinkCalls` |
| `SshChannel` | session, channel and remote command | implements `SinkCalls` |
| `Diagram` | `build_diagram_regions` | extends `Geometry`, compared with its `PlanOf` |
| `Vss` | `VssSnapshot` and the volumes of the machine | |
| `Cli` | the process of the command line; `stream_to` is one step | extends `Vss` |
| `Clone` | the same with the whole of `stream_to` | extends `Cli` and `ImageBuilder` |
| `Analysis` | `analyze_snapshot_support` and the clone that follows | extends `Cli` |
| `DiskHandles` | who has a physical disk open, and how | |
| `Gui` | window, workers, analysis threads, channels | |
| `MC*` | instances for TLC; `MCGuiExclusions` adds one history variable to `Gui` | |
| `*_proofs` | theorems, see section 4 | `Clone_proofs` extends `Cli_proofs` and `ImageBuilder_proofs` |

### ImageBuilder

`stage` follows `stream_to`: `sector0` (one read before the loop), `loop` (its head), `region` (which
of the branches), `readShadow`, `retryShadow`, `fallback`, `write`, `flush`, and the ends `done`,
`failed`, `incomplete`, `panicked`. Each call into Windows or into the sink is in a step of its own
and has every outcome the call may have. `buffer` and `image` are functions from sectors to
*contents*, a content being the device a sector was read from (the raw disk, which of the shadow copies, or
none for the zero fill) and which sector of that device it was. That is all the properties tell apart, and it makes stale data in the
buffer visible: what an earlier chunk left there still carries its own address; a sector of another volume carries that one's name.

`ChunkLimits` collects the limits the code applies to `chunk_end` one after another, and
`ChunkEnd` says the chunk ends at the smallest. `FirstChunk` reads the rest of the header area into
the buffer behind sector 0, as the code does, and panics where the slice would. `handle`,
`double_close` and `leaked` follow `read_handle` on all paths. `on_vss_fallback` says whether the caller passed a
callback: if so, `fallbacks` are the partitions it was called for. `emptied` is history: the addresses at which a shadow copy was read twice and gave nothing. `total_written` is what the sink says, `image` and `sink_pos` what it did.

`ImageCopy` knows none of this: sectors arrive in order, each with one of the contents planned for
it, and success needs all of them. The refinement maps `copied` to the sink's file pointer.

### Sinks, SinkCalls, LocalSinks, SshChannel

`ImageBuilder` is given `WriteOutcomes` and `FlushOutcomes`: for each kind of sink what one call may
take and answer. `SinkCalls` is the sequence of calls these allow, and the two detailed modules implement
it: what the model of `stream_to` assumes of a sink is what the code of the sinks does.

`LocalSinks` has a step for each `WriteFile`, which takes any part of what it is asked for as a DWORD and
may fail after it has taken some; `AfterWriteFile` is what `FileSink` (one call) and `LocalDiskSink`
(again until nothing is left or nothing was written) make of it. The refinement hides a write that
is under way.

In `SshChannel` the client tries its methods, starts the command, and writes with `write_all`, which hands over pieces
as long as there is room in the window. The command stores what it receives, may fail at any time, and may close its
output long before it ends, as `dd` does on the way; the server closes the channel when the command has ended.
The connection may break, or go silent so that nobody is told; a silent one may be found broken later.
libssh2, the server and the command are external, modelled from how `ssh_sink.rs` uses them.

### Diagram

One step per turn of the loop. `NextPartition` is the stable sort by start, `ShadowPaths` the
lookup in the `HashMap`: the key equal to the start, else any key inside the partition, which one
being up to the order of the map. `PlanOf`, which is the choice `stream_to` makes, has the first rule only: hence the comparison.

### Vss, Cli and Clone

`pc` runs through `create_for_disk` (`create`, `scan`, `add`), `created`, `map`, and the caller's
`sink`, `stream`, `finish`; `return` and `unwind` are the two ways to `Drop`; `exited`, `aborted` and `killed` are the
ends without one. `--debug-vss` ends before a snapshot is made, `--debug-image` puts its printout in the place of the clone. `held` is
`backup_components.is_some()` of a living `VssSnapshot`; `made` and `completes` are history. Each
volume has a list of extents which `MoveVolume` may change at any time; a buffer holds `MaxExtents`
of them (three in the program). What Windows and the external crate do is assumed: a failure of
`FindNextVolumeW` is taken for the end of the list; a wait may answer `Ok` though any of the shadow copies
failed to be made, or fail though they were made (`DoSnapshotSet`); properties can be had of shadow copies that exist. `moved` and `missed` are history: the
volumes that have moved, and those for which a call failed without an error. The properties are about each volume
that is in neither, or not in `moved`, whatever has happened to the others. What the program believes of a volume (`StartsOnDisk`, which needs its extents
to fit the buffer) and what is so (`LiesOnDisk`) are kept apart, and the properties speak of the latter. A shadow copy that Windows deletes
under a running clone is not a state of its own: reads from it are among those that give nothing or fail.

`Clone` replaces `Cli`'s one step for `stream_to` by the steps of `ImageBuilder`, whose variables and definitions have names of their own
for this (`stage`, `StreamNext`, `StreamTypeOK`). `StartStream` makes the job: the disk, its table, and the shadow map that
`build_partition_shadow_map` has really made, each shadow copy with the name and the length of its volume; it excludes nothing and passes no callback. `StreamReturns` takes `stream_to`'s answer to
`finish`, to the unwinding or to the abort. `Jobs`, the clones `ImageBuilder` considers, must include all that may come out of this, `Builders`
(`CloneAssumption`); the run takes exactly these.

### Analysis

The loops of `analyze_snapshot_support` one after the other (`enumerate`, `scan`, `info`, `support`, `answer`), each volume a step,
each question to Windows asked again as the code does, each of which may fail without an error (`NotQueried`); `Keys` is its lookup, start first, else
any key inside. Then comes the clone of `Cli`, so that the answer can be compared with the map.

### DiskHandles

`handles` are the open handles with their disk, opener and use; `Access` and `Share` are the modes each use asks for, and
`Shareable` is the rule of Windows that both sides must agree. A clone goes `layout`, `builder`, `new`, `made`, `stream`; an
analysis ends behind `layout`; `failed` is an end that skips `CloseHandle`. Between layout and
builder a snapshot is made or not, which changes nothing here.

### Gui

A frame is four steps (messages, source row, analysis, controls), and threads run between any two.
`worker[w].pc` follows `run_clone` and the closure around it; `messages[w]` and `confirm[w]` are the
channels, and dropping an end is modelled where the code drops or overwrites it. A worker that is
cancelled sends `Cancelled` and then `Done`: that nobody reads this `Done` is a property here, not an assumption.
The name of an ended thread is used again. `stream_to` is one step here, which may never be taken: nothing is promised of it.
Closing the window ends the process and with it every thread; so would a panic of any
thread, since the release profile aborts.

## 3. Runs

| run | module, cfg | expects | instance |
|---|---|---|---|
| `image_builder` | `MCImageBuilder` | pass | 9-sector disks, `GptSectors` 2, `DwordSectors` 4, buffers of 1, 3, 5, all sinks, 6 layouts, with and without exclusions, a callback, for one layout also none, and disks of 1 to 4 sectors without partitions |
| `excluded_zero` | `MCImageBuilder`, `MCExcluded` | violation | the same layouts, file sink, buffer of 3 |
| `local_sinks` | `LocalSinks`, `MCLocalSinks` | pass | `DwordSectors` 4, writes of 1, 3, 4 and 6 sectors, room for 8 |
| `ssh_channel` | `SshChannel`, `MCSshChannel` | pass | every set of methods the user has and the server accepts, images of up to 3 sectors in writes of 1 and 2, a window of 2 |
| `flushed_is_stored` | `SshChannel`, `MCFlushedIsStored` | violation | the same with images of up to 2 sectors |
| `diagram` | `MCDiagram` | pass | every layout of up to two entries out of 24, on disks of 1, 3 and 8 sectors, every set of shadow offsets out of 3; three adjacent partitions in any order |
| `clone` | `MCClone` | pass | a disk of 7 sectors, GPT areas of 2, two tables; two volumes with any of 5 extent lists of up to 3 extents on two disks, `MaxExtents` 2; shadow copies longer and shorter than a partition; buffers of 1 and 2; a file |
| `analysis` | `MCAnalysis` | pass | two volumes with any of 5 extent lists; a GPT table with an unused entry, one partition that two volumes may start in, an MBR table with an extended partition |
| `disk_handles` | `DiskHandles`, `MCDiskHandles` | pass | two disks, three threads and the list of disks |
| `gui_safety` | `MCGui`, `MCGuiSafety` | pass | two drives, one partition number, two workers alive at a time |
| `gui_liveness` | `MCGui`, `MCGuiLiveness` | pass | one drive, two workers |
| `gui_exclusions` | `MCGuiExclusions` | violation | as `gui_safety` |

Why these bounds are enough. *Sizes.* The code compares addresses with region boundaries, so what
matters is which boundary comes first, not how far it is. `GptSectors` 2 has a first and a last
sector; buffers of 1, 3 and 5 are shorter than the GPT area, longer than it, and longer than a
DWORD (`DwordSectors` 4), which is the only way the truncation shows. Nine sectors leave five in the
middle: gap, partition, gap, or two partitions and a gap, of more than one chunk each. The layouts
have the cases the loop over the partitions tells apart: adjacent, out of order, unused, nested, shadow copy
shorter than the partition, partition into the backup area. `clone` has fewer of these, as `image_builder` has them all: it needs
a map with nothing, one or both volumes in it, right and wrong, two chunks in a partition, and a buffer that makes `stream_to` panic. A third extent
exceeds a buffer of two. In `local_sinks` a write of 6 is truncated to 2, one of 4 to nothing, and the destination fills up in the second or third
write. In `ssh_channel` an image of 3 fills a window of 2 and blocks `write_all` in the middle. *Actors.* A clone in the window concerns the
current worker and older ones; older ones interact with the window only through dropped channels, so
one is as good as many. Three threads on two disks are a reader, a writer and one that comes between.

What the passing runs show:

- `image_builder`: `LayoutPreserved` (whatever was short, empty or failed before, a sector that
  is written is at its own address with a planned content), `CloneComplete` (`Ok` means every sector,
  and the count is the disk's length), `NeverIncomplete` (the "Incomplete clone" error is dead code),
  `FallbackReported` (a live sector in a shadowed partition only where the shadow copy gave nothing twice, and the callback, if there is one, was called for it), `StatusTruthful` (the
  region on display is where the data comes from, down to whose shadow copy it is), `HandleDiscipline` (no handle is open between
  chunks, one is lost only by an early return, and the second `CloseHandle` happens on the fallback path
  and there always), `ImplementsCopy` (refinement), `EndsUnlessStalled`.
- `local_sinks`: `ProgressHonest`, `WriteReturns` and the refinement `ImplementsSinkCalls`.
- `ssh_channel`: `EveryMethodTried`, `FlushWaitsForCommand` (not for its output to close, which is earlier, and if the
  command succeeded everything is stored), `CallsReturn` (unless the connection goes silent, for which there is no timeout)
  and the refinement `ImplementsSinkCalls`.
- `diagram`: `RegionsCover`, `PartitionsShown`, and on regular GPT disks `RegionsTile` and
  `PreviewMatchesPlan`.
- `clone`: `CompletedExactlyOnce`, `MapComplete`, `SuccessIsComplete` (exit code 0 after a clone means a whole image and a completed snapshot),
  `SupportedFromShadow` (in a finished clone, a volume that has not moved and was not missed comes sector by sector from its own shadow copy,
  unless that gave nothing; and live if VSS does not support it or its extents do not fit the buffer), `OwnCopyOrLive` (whatever fails in silence and
  wherever others move, nothing is written of a volume that has not moved but its own sectors), `ShadowsReadAreThere` (a path that is opened leads to a shadow copy
  that was made, of the volume the map names, and not yet given back).
- `analysis`: `PredictionHolds` on regular tables, `NeverUnderstated` on all.
- `disk_handles`: `SourceProtected`, `LostOnlyByFailedQuery`.
- `gui_safety`: `ConfirmReachesWorker`, `DoneMeansCloned`, `StreamsInSight`, `NoForgottenWorker`,
  `AnalysisOfSelection`, `OverlapOnlyAfterCancel`.
- `gui_liveness`: `SnapshotAnswered`, `CloneAnswered`, `AbandonedWorkerEnds`.

Each type invariant gives the ranges. In `ImageBuilder` (`StreamTypeOK`) it says that no index passes the buffer or the
disk, in `Diagram` that no size underflows; these two are run. Those of the other modules are in no configuration, since section 4 proves
them; to check one, add `INVARIANT TypeOK` (`AnalysisTypeOK`) to the configuration of the module. Every property of a passing run has
a mutant in its module (a definition marked "Mutant:") with which TLC finds it violated.

### Fairness

- `stream_to` is one thread in a loop of calls that return: weak fairness of `StreamNext`. Nothing is
  assumed of their outcome, so `EndsUnlessStalled` has to assume that the sink does not answer `Ok(0)` for ever.
- `LocalSinks`: a `WriteFile` that was called returns and `write` goes on, whatever it has taken. The caller is not fair.
- `SshChannel`: the client goes on when it can; on a connection that works the command reads and stores its input and ends when that has ended,
  and the server reports the end. That the command fails or closes its output early is not fair, nor is it that a silent connection is ever found broken.
- In `Gui` every thread goes on, which holds because the calls return; but not in `stream_to`, which need not (`LocalDiskSink` answers `Ok(0)` for ever,
  a silent SSH session has no timeout), so `Stream` is never fair and `CloneAnswered` excepts runs that stay there. The window is different: egui
  draws a frame when there is input or when a repaint was requested. So a new frame is fair only
  while `RepaintRequested` holds; a frame begun is finished. Users are never fair: no liveness
  property waits for a click, and all of them end when the window is closed.
- `Diagram`, `Vss`, `Cli`, `Clone`, `Analysis` and `DiskHandles` have safety properties only and no fairness.

### Findings

| run | what the code does |
|---|---|
| `excluded_zero` | an excluded logical partition is copied when the extended one around it is the first entry |
| `flushed_is_stored` | `flush` never asks for the exit status of the remote command, whose errors go to `/dev/null`: a `dd` that failed counts as a finished clone |
| `gui_exclusions` | excluded partition numbers outlive Done and Error, and are excluded from the next clone, of another disk |

### What the passing properties except

Some passing properties have a condition because the code does less than one might hope. Each is deliberate:

- `EndsUnlessStalled`: `LocalDiskSink::write` leaves its loop on a write of nothing "to avoid infinite loop"
  (`local_sink.rs:187`), answers `Ok(0)`, and `stream_to` goes round its own loop for ever. `WriteReturns` shows that the sink itself does return.
- `FallbackReported`, `SupportedFromShadow`: after two empty reads of a shadow copy live sectors go into the image and the
  clone ends with `Ok`. The window passes a callback and shows it; the command line passes `None` (`main.rs:127`, 142, 167) and nobody is told.
- `CloneAnswered`: unless `stream_to` never returns, for the reasons of `EndsUnlessStalled` and `CallsReturn`. An answer may also be an error
  about a complete clone, when only `finish` failed (`diskclone-visual/src/main.rs:300`).
- `PreviewMatchesPlan`, `RegionsTile`: regular disks only. On an MBR disk an extended and a logical partition are previewed as shadow copies
  and read live, since only the preview takes any key inside a partition (`diagram.rs:85`).
- `MapComplete`, `SupportedFromShadow`: not for volumes that have moved (the extents are asked for again, `vss.rs:382`) or that a call failed for without an
  error (`vss.rs:374`, 534, 562, 584); of these only `OwnCopyOrLive` speaks, and of those that moved none. A volume counts for the disk of its first extent
  (`vss.rs:585`), and one with more extents than the buffer holds (`vss.rs:766`) is copied live although it is supported. Nobody is told of any of this.
- `PredictionHolds`, `NeverUnderstated`: only when no volume moved and no call failed without an error, in the analysis or in the clone.
- `NeverUnderstated` is one direction only: on irregular tables the analysis announces shadow copies for partitions that are read live (`vss.rs:138`).
- `CompletedExactlyOnce`: `process::exit` on a bad SSH target, which is looked at after the snapshot was made (`main.rs:153`), an abort, Ctrl+C
  and the end of the window run no `Drop`. Nor does it count a snapshot that Windows accepted and whose wait failed (`vss.rs:332`): there is no `VssSnapshot` to drop.
- `SourceProtected` holds by the share modes of Windows alone: nothing in the program compares target and source, in the window a target chosen
  earlier may become the source, and the clone then fails when its sink is opened.
- `LostOnlyByFailedQuery`: an error between `open_physical_disk` and `CloseHandle` leaves the handle open until the process ends (`disk.rs:159`).
- `CallsReturn`: no timeout is set on the session.

Three more things seen on the way, about which there is no property: the look at the first sector of an output file (`main.rs:128`) never happens,
because `FileSink` shares nothing with other openers; drive letters in the preview are those of the disk selected now (`diskclone-visual/src/main.rs:542`),
which need not be the one on display; `vss.rs:48` says partitions "used or not" are analysed, unused entries are skipped.

## 4. Proofs

Eight modules of theorems, all leaves proved by SMT, Zenon or LS4. Every safety property and every refinement of a passing run
has its theorem. Hardly any of them is inductive, so each module has an inductive invariant that says more; what it adds, and why, is below.

| properties | inductive invariant | module |
|---|---|---|
| `StreamTypeOK`, `LayoutPreserved`, `CloneComplete`, `NeverIncomplete`, `ImplementsCopy` | `StreamInv` | `ImageBuilder_proofs` |
| `StatusTruthful`, `FallbackReported`, `HandleDiscipline` | `StreamInv` and `ReportInv` | `ImageBuilder_proofs` |
| `TypeOK`, `RegionsCover` of the preview | `IInv` | `Diagram_proofs` |
| `PartitionsShown`, `RegionsTile`, `PreviewMatchesPlan` | `PInv` | `Diagram_proofs` |
| `CompletedExactlyOnce`, `AliveDuringBuild` | `IInv` | `Cli_proofs` |
| `TypeOK`, `MapComplete` of the command line | `Typed`, `Exact` | `Cli_proofs` |
| `AnalysisTypeOK`, `PredictionHolds`, `NeverUnderstated` | `AInv` | `Cli_proofs` |
| `SuccessIsComplete`, `SupportedFromShadow`, `OwnCopyOrLive`, `ShadowsReadAreThere` | `CloneInv` with those of its two parts | `Clone_proofs` |
| `TypeOK`, `ProgressHonest`, `ImplementsSinkCalls` | `IInv` | `LocalSinks_proofs` |
| `TypeOK`, `EveryMethodTried`, `FlushWaitsForCommand`, `ImplementsSinkCalls` | `SInv` | `SshChannel_proofs` |
| `TypeOK`, `SourceProtected`, `LostOnlyByFailedQuery` | `IInv` | `DiskHandles_proofs` |
| `TypeOK`, `ConfirmReachesWorker`, `DoneMeansCloned`, `StreamsInSight`, `NoForgottenWorker`, `AnalysisOfSelection`, `OverlapOnlyAfterCancel` | `GInv` | `Gui_proofs` |

**ImageBuilder_proofs**, for every disk, layout, shadow map, exclusion set, sink and buffer size. Assumptions:
`GeometryAssumption` (lengths are naturals, the GPT area is not empty), `BuilderAssumption` (a buffer of
one sector at least, which `new` sees to; the GPT area fits a DWORD) and `DwordAssumption`. That
the image is right after a write needs to know what is in the buffer, hence `Ready` (every one of
the first `n` sectors of the buffer is a planned content of its address); that needs to know that a chunk lies in one region and one
partition, hence `Chunk` with lemma `ChunkHomogeneous`; a shadow read happens two steps
after its partition was found, hence `OnShadow`; sector 0 is read before the loop and written in it,
hence `FirstSector`; and `Positions` ties `pos`, `total_written` and the sink's pointer together. `StreamInv` is their
conjunction with `StreamTypeOK` and `LayoutPreserved`, `StreamInductive` proves it, one lemma per action. `WriteFacts` is all the proof knows of sinks.
What is reported on the way needs a strengthening for each of the three properties: `StatusInv` (the region on display is the shadow copy's until the
fallback has changed it), `HandleInv` (where `read_handle` is open, and that it is closed twice if and only if a shadow copy gave nothing), `FallbackInv`
(not only the image but the buffer holds no live sector of a shadowed partition but those `Told`). In the refinement only `Write` and the return of `Ok` are
steps of `ImageCopy`, all others stutter.

**LocalSinks_proofs**, for any lengths, room and width of a DWORD
(`LocalAssumption`, `DwordAssumption`). `Counted` says what the counter lacks within a write, `OneWriteFile` that a file
sees one `WriteFile`. `AsDwordOfRest` is the arithmetic: what is left of a write, truncated, is what is left of the
truncated write, so that the loop as a whole takes no more than one truncated call would. `CallOutcomes` turns the end of a write into an outcome of `Sinks`.

**SshChannel_proofs**, for any writes, image and window, whatever the server accepts (`ChannelAssumption`: the window and each write have a sector at least).
`Remaining` says that a method the loop is past was offered if the user has it, and not accepted; `Stored` that a command the client knows to have ended well
has seen the end of its input, which is sent only when nothing is left to write; `Counted` ties what `write_all` has handed over to what the
channel took and the command received. The refinement hides the pieces of `write_all` and everything the command does.

**Diagram_proofs**, for every layout, with `GeometryAssumption` only. `IInv` adds `CoveredToPos` to the two properties it is for:
everything below `pos` is in a region already pushed. `PInv` says what has been pushed: every partition the loop is past is shown, unless it starts in the backup area
(`ShownSoFar`); and, on a regular disk, that the regions form a `Chain` that ends at `pos`, that the partitions the loop is past end there at
the latest (`Behind`) and those left begin there at the earliest (`Ahead`), so that a gap belongs to no partition, and that each region pushed is `Truthful`.

**Cli_proofs**, for any number of volumes that move at any time. Assumption: `VssAssumption` (extent lists are sequences of offsets in Nat, the buffer holds one
at least). `Counted` says that the snapshot is completed if and only if it was made and is no longer held; `Held`
says at which points it is. `Steps` says which sets are still empty where, and `Exact`, volume by volume, that each loop has done with it so far what it calls for: the map names it at
its place or nowhere if it has not moved and was not missed (`ExactOf`), and its place has no other volume's copy if it has not moved (`OwnKey`, theorem `OwnKeys`); both need `Apart`,
by which two volumes never claim the same offset. For the analysis, on any partition
table, `Phases` orders its loops before the clone, and `Learnt` says that what it knows of the volumes it has looked at is true while nothing has moved or failed unnoticed
(`Informed`, `Asked`, `Answered`). When the clone is about to stream, `Exact` and `Learnt` speak of the same volumes at the same offsets (`SameKeys`),
and what remains is to compare the two lookups: `Announced` for one direction, `YesIsTrue`, which needs a regular table, for the other.

**Clone_proofs**, for any disk, tables, volumes, sink and buffers. Every step of the composition is a step of `Cli` or happens inside
`stream_to` and changes nothing there (`IsCli`), which carries `CompletedExactlyOnce` and `MapComplete` over. `CloneInv` is what the two parts have to say to each other: either
`stream_to` has not been called, or it was given the table and the shadow map, each key with the copy of its volume; these have not changed since, the map still names the volumes that nothing has
happened to at their places (`Mapped`), the invariants of `ImageBuilder`
hold, and a process behind it got there because `stream_to` was done (`Streamed`). That the map made by `Vss` is one `ImageBuilder`
is proved for is `BuilderAmongJobs`, by `CloneAssumption`; that `StartStream` leads to an initial state of `ImageBuilder` is in `StartStreamInv`.
What is planned for a sector of a volume then follows from the one key it may have (`PlanInVolume`), and what is written is planned (`LayoutPreserved`); which of the two contents it is, in a clone that
has succeeded, is in `FallbackReported`.

**DiskHandles_proofs**, for any number of disks and threads (`HandlesAssumption`: `None` is
neither). `Owned` says that a handle is on the disk its opener works on; that no new handle conflicts is in `OpenProtects`.

**Gui_proofs**, for any sets of drives, partition numbers and worker threads (`GuiAssumption`: `None` is none of them). Each property depends on what is still in a
worker's channel, and that on how far the worker is and how the window has answered it. `Followed` is the table of these: for each phase of the window in which it reads
a worker's messages, where that worker is and what its channel holds (`Creating`, `Asking`, `Cloning`, `Leaving`). Every other worker is
`Dismissable`: it waits on a closed channel or is on its way out (`Bystanders`), however many there are. `Ends` says that all ends of channels the window holds are those of
one worker, `Choices` what the selections are taken from. `WorkerMoved` treats a step of any thread, and one lemma each the steps of a frame.

Only model-checked, as the provers cannot reach them: the liveness properties (`EndsUnlessStalled`, `WriteReturns`, `CallsReturn`, `SnapshotAnswered`,
`CloneAnswered`, `AbandonedWorkerEnds`) and with them `ENABLED`. The three violations are counterexamples found by TLC.

## 5. Not modelled

Formatting, texts and logs; credentials and paths, and how a path is quoted for the remote shell; the contents of sectors beyond their origin,
hence also the MBR signature, which only decides whether sector 0 is accepted; the output of `debug_vss_diag` and `debug_image_diag` (in `Cli`
they are the steps they are for the snapshot); `open_shadow_in_explorer`, one sequence of calls that ends with a drive letter mounted, which no other code
reads and the program never gives back; `get_shadow_path`, which the clone does not call; the comparison of volume names (a
shadow copy is named by its volume); drive letters in the analysis; the progress counter and the
status texts in `Gui` (the counter is in `LocalSinks`); error types, build scripts and CI files.

## 6. Plan

1. Done: all modules above, and the proofs of section 4.
2. Left: the wider preview of the window, which joins layout and analysis by partition number (`diskclone-visual/src/main.rs:542`); the safety part of
   the liveness properties, that is, that a state in which a thread waits always has a step that ends the wait, as invariants that can be proved.
