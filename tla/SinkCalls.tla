----------------------------- MODULE SinkCalls -----------------------------
(***************************************************************************)
(* What stream_to may rely on, whatever sink it was given: a sequence of   *)
(* calls of ImageSink::write, each with an outcome of Sinks, that ends     *)
(* with the first error or with flush.                                     *)
(***************************************************************************)
EXTENDS Sinks

CONSTANT Lengths   \* the lengths write may be called with

VARIABLES
  sort,     \* which of the sinks it is; never changes
  taken,    \* what the destination had taken when the last call returned
  told,     \* the sum of the counts write has returned
  outcome   \* "open", "failed" or "flushed"

callvars == <<sort, taken, told, outcome>>

CallsInit ==
  /\ sort \in SinkKinds
  /\ taken = 0
  /\ told = 0
  /\ outcome = "open"

WriteCall ==
  /\ outcome = "open"
  /\ \E len \in Lengths : \E w \in WriteOutcomes(sort, len) :
        /\ taken' = taken + w.taken
        /\ told' = IF w.ok THEN told + w.ret ELSE told
        /\ outcome' = IF w.ok THEN "open" ELSE "failed"
  /\ UNCHANGED sort

FlushCall ==
  /\ outcome = "open"
  /\ \E ok \in FlushOutcomes(sort) : outcome' = IF ok THEN "flushed" ELSE "failed"
  /\ UNCHANGED <<sort, taken, told>>

CallsNext == WriteCall \/ FlushCall

CallsSpec == CallsInit /\ [][CallsNext]_callvars
=============================================================================
