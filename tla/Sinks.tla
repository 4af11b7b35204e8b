------------------------------- MODULE Sinks -------------------------------
(***************************************************************************)
(* What one call of ImageSink::write may do, for each of the three sinks   *)
(* of src/local_sink.rs and src/ssh_sink.rs, and what a sink answers to    *)
(* flush.  All lengths are in sectors of 512 bytes.                        *)
(*                                                                         *)
(* WriteFile takes its length as a DWORD, and the two local sinks pass     *)
(* `data.len() as DWORD`: a length of 2^32 bytes or more is truncated.     *)
(* DwordSectors is 2^32 / 512 in the program; a model uses a small one.    *)
(***************************************************************************)
EXTENDS Integers

CONSTANT DwordSectors   \* the number of sectors at which a DWORD byte count wraps

ASSUME DwordAssumption == DwordSectors \in Nat \ {0}

SinkKinds == {"file", "disk", "ssh"}   \* FileSink, LocalDiskSink, SshSink

(* `len as DWORD` *)
AsDword(n) == IF n < DwordSectors THEN n ELSE n % DwordSectors

(***************************************************************************)
(* The outcomes of a write of n sectors.  ok: Ok or Err.  ret: the count   *)
(* the sink returns when Ok.  taken: the sectors the device, file or       *)
(* channel has accepted, which on Err may be any prefix.                   *)
(***************************************************************************)
Outcome(ok, ret, taken) == [ok |-> ok, ret |-> ret, taken |-> taken]

Failed(max) == {Outcome(FALSE, 0, d) : d \in 0..max}

(* FileSink::write: one WriteFile; a short write is an error. *)
FileWrite(n) ==
  (IF AsDword(n) = n THEN {Outcome(TRUE, n, n)} ELSE {}) \cup Failed(AsDword(n))

(* Mutant: Ok(data.len()) after the loop, however much was written. *)
LocalDiskWriteClaimsAll(n) ==
  {Outcome(TRUE, n, d) : d \in 0..AsDword(n)} \cup Failed(AsDword(n))

(***************************************************************************)
(* LocalDiskSink::write: WriteFile again for the rest until all is written *)
(* or a call writes nothing; the count is returned as Ok in both cases.    *)
(* Since every call is asked for (n - total) as DWORD, the total cannot    *)
(* pass AsDword(n): there the next call asks for 0 sectors.                *)
(***************************************************************************)
LocalDiskWrite(n) ==
  {Outcome(TRUE, d, d) : d \in 0..AsDword(n)} \cup Failed(AsDword(n))

(* SshSink::write: Channel::write_all, all of the data or an error. *)
SshWrite(n) == {Outcome(TRUE, n, n)} \cup Failed(n)

WriteOutcomes(kind, n) ==
  CASE kind = "file" -> FileWrite(n)
    [] kind = "disk" -> LocalDiskWrite(n)
    [] kind = "ssh"  -> SshWrite(n)

(* LocalDiskSink::flush ignores what FlushFileBuffers answers. *)
FlushOutcomes(kind) == IF kind = "disk" THEN {TRUE} ELSE BOOLEAN
=============================================================================
