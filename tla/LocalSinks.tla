----------------------------- MODULE LocalSinks -----------------------------
(***************************************************************************)
(* FileSink and LocalDiskSink (src/local_sink.rs) call by call of Windows, *)
(* from CreateFileW to CloseHandle, inside the ProgressSink of the window. *)
(* The caller writes for as long as it likes, flushes, and stops at the    *)
(* first error.                                                            *)
(***************************************************************************)
EXTENDS Sinks

CONSTANTS
  Lengths,   \* the lengths write may be called with
  Capacity   \* how many sectors the destination has room for

ASSUME LocalAssumption == Lengths \subseteq Nat \ {0} /\ Capacity \in Nat

VARIABLES
  sort,            \* "file" or "disk"; never changes
  pc,              \* where the sink's caller, or write, is
  handle,          \* "none", "open" or "closed"
  len,             \* data.len() of the current write
  total_written,   \* what this write has got rid of
  got,             \* what the last WriteFile has taken
  destination,     \* the sectors that are on the disk or in the file
  bytes_written,   \* ProgressSink's counter, in sectors
  outcome          \* "open", "failed" or "flushed"

data == <<len, total_written, got, destination, bytes_written>>

vars == <<sort, pc, handle, data, outcome>>

Goto(l) == pc' = l

Init ==
  /\ sort \in {"file", "disk"}
  /\ pc = "new"
  /\ handle = "none"
  /\ len = 0
  /\ total_written = 0
  /\ got = 0
  /\ destination = 0
  /\ bytes_written = 0
  /\ outcome = "open"

(* CreateFileW; a file is emptied. *)
New ==
  /\ pc = "new"
  /\ \/ handle' = "open" /\ Goto("caller")
     \/ handle' = handle /\ Goto("end")
  /\ UNCHANGED <<sort, data, outcome>>

WriteBegins ==
  /\ pc = "caller"
  /\ outcome = "open"
  /\ len' \in Lengths
  /\ total_written' = 0
  /\ got' = 0
  /\ Goto("WriteFile")
  /\ UNCHANGED <<sort, handle, destination, bytes_written, outcome>>

Room == Capacity - destination

(* Mutant: ProgressSink counts the data it was given, before the inner write. *)
CountData(ret) == bytes_written' = bytes_written + len

(* ProgressSink: fetch_add of the count the inner write returned. *)
CountProgress(ret) == bytes_written' = bytes_written + ret

Return == Goto("caller") /\ UNCHANGED <<len, total_written, destination, got>>

ReturnOk(ret) == Return /\ CountProgress(ret) /\ UNCHANGED outcome

ReturnErr == Return /\ outcome' = "failed" /\ UNCHANGED bytes_written

(***************************************************************************)
(* What WriteFile may take when it is asked for len - total_written, as a  *)
(* DWORD: any part of it there is room for.                                *)
(***************************************************************************)
Taken == {d \in 0..AsDword(len - total_written) : d <= Room}

(* One WriteFile; on an error it may have taken something all the same. *)
WriteFile ==
  /\ pc = "WriteFile"
  /\ got' \in Taken
  /\ destination' = destination + got'
  /\ total_written' = total_written + got'
  /\ Goto("written") \/ Goto("error")
  /\ UNCHANGED <<sort, handle, len, bytes_written, outcome>>

(* Mutant: no break when WriteFile has written nothing. *)
DiskWriteEndless == total_written < len

(* The loop of LocalDiskSink::write goes round again. *)
DiskWriteAgain == total_written < len /\ got > 0

(* Mutant: FileSink takes a short write for a whole one. *)
FileTookAll == TRUE

FileWhole == got = len

(* What write makes of the answer of WriteFile. *)
AfterWriteFile ==
  /\ \/ pc = "error" /\ ReturnErr
     \/ pc = "written" /\ sort = "file" /\ IF FileWhole THEN ReturnOk(len) ELSE ReturnErr
     \/ /\ pc = "written"
        /\ sort = "disk"
        /\ IF DiskWriteAgain
           THEN Goto("WriteFile") /\ UNCHANGED <<data, outcome>>
           ELSE ReturnOk(total_written)
  /\ UNCHANGED <<sort, handle>>

(* FlushFileBuffers; LocalDiskSink does not look at its answer. *)
Flush ==
  /\ pc = "caller"
  /\ outcome = "open"
  /\ \E ok \in BOOLEAN : outcome' = IF ok \/ sort = "disk" THEN "flushed" ELSE "failed"
  /\ UNCHANGED <<sort, pc, handle, data>>

(* Drop closes the handle: after the flush, an error, or when the caller gives up. *)
Drop ==
  /\ pc = "caller"
  /\ handle' = "closed"
  /\ Goto("end")
  /\ UNCHANGED <<sort, data, outcome>>

Over == pc = "end" /\ UNCHANGED vars

Next ==
  \/ New \/ WriteBegins \/ WriteFile \/ AfterWriteFile \/ Flush \/ Drop \/ Over

(* A WriteFile that was called returns, and write goes on; the caller may take its time. *)
Spec == Init /\ [][Next]_vars /\ WF_vars(WriteFile \/ AfterWriteFile)

-----------------------------------------------------------------------------
Writing == {"WriteFile", "written", "error"}

(***************************************************************************)
(* The range of every variable: what one write has got rid of stays below  *)
(* what a DWORD can count and below what it was given, however the loop    *)
(* goes, and the handle is open whenever Windows is called with it.        *)
(***************************************************************************)
TypeOK ==
  /\ sort \in {"file", "disk"}
  /\ pc \in {"new", "caller", "end"} \cup Writing
  /\ handle \in {"none", "open", "closed"}
  /\ pc \in {"caller"} \cup Writing => handle = "open"
  /\ len \in Lengths \cup {0}
  /\ total_written \in 0..AsDword(len)
  /\ got \in 0..AsDword(len)
  /\ destination \in 0..Capacity
  /\ bytes_written \in Nat
  /\ outcome \in {"open", "failed", "flushed"}

(***************************************************************************)
(* The progress the window shows is never more than what the destination   *)
(* has taken, and exactly that after a flush, also when writes were short. *)
(***************************************************************************)
ProgressHonest ==
  /\ bytes_written <= destination
  /\ outcome = "flushed" => bytes_written = destination

(***************************************************************************)
(* "avoid infinite loop" (src/local_sink.rs:188): a write returns, even on *)
(* a destination that takes nothing.                                       *)
(***************************************************************************)
WriteReturns == pc \in Writing ~> pc = "caller"

(***************************************************************************)
(* The loops around WriteFile, its short counts and its errors add up to   *)
(* the outcomes of one call that stream_to is modelled with.               *)
(***************************************************************************)
Calls == INSTANCE SinkCalls WITH
  taken <- IF pc \in Writing THEN destination - total_written ELSE destination,
  told  <- bytes_written

ImplementsSinkCalls == Calls!CallsSpec
=============================================================================
