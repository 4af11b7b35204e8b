----------------------------- MODULE ImageCopy -----------------------------
(***************************************************************************)
(* What a clone promises, without chunks, handles, retries or sinks: the   *)
(* image is written front to back, each sector once and at its own         *)
(* address, with one of the contents planned for that address, and the     *)
(* clone reports success only when every sector is there.                  *)
(***************************************************************************)
EXTENDS Integers

CONSTANT Unwritten      \* the content of a sector no one has written yet

VARIABLES
  plan,     \* for each sector of the disk, the contents it may be given
  image,    \* for each sector of the disk, what the destination holds
  copied,   \* the sectors written so far are 0 .. copied-1
  outcome   \* "copying", "done" or "failed"

absvars == <<plan, image, copied, outcome>>

Sectors == DOMAIN plan

CopyInit ==
  /\ image = [i \in Sectors |-> Unwritten]
  /\ copied = 0
  /\ outcome = "copying"

(* The next sectors arrive, and the clone may find it cannot go on. *)
Copy ==
  /\ outcome = "copying"
  /\ copied' \in Nat
  /\ copied' >= copied
  /\ \A i \in copied..(copied' - 1) : i \in Sectors
  /\ DOMAIN image' = Sectors
  /\ \A i \in Sectors : IF i \in copied..(copied' - 1)
                         THEN image'[i] \in plan[i]
                         ELSE image'[i] = image[i]
  /\ outcome' \in {"copying", "failed"}
  /\ UNCHANGED plan

Finish ==
  /\ outcome = "copying"
  /\ \A i \in Sectors : i < copied
  /\ outcome' = "done"
  /\ UNCHANGED <<plan, image, copied>>

CopyNext == Copy \/ Finish

CopySpec == CopyInit /\ [][CopyNext]_absvars
=============================================================================
