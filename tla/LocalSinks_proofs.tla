-------------------------- MODULE LocalSinks_proofs --------------------------
(***************************************************************************)
(* Proofs about the two local sinks, for any lengths, any room on the      *)
(* destination and any width of a DWORD: what the window counts is what    *)
(* the destination took, and the calls have the outcomes of SinkCalls.     *)
(***************************************************************************)
EXTENDS LocalSinks, TLAPS

(* Casting a length to a DWORD never makes it longer. *)
LEMMA AsDwordBound ==
  ASSUME NEW x \in Nat
  PROVE  AsDword(x) \in Nat /\ AsDword(x) <= x
BY DwordAssumption DEF AsDword

(* A remainder is known by its range and by what it leaves of the number. *)
LEMMA RemainderUnique ==
  ASSUME NEW d \in Nat \ {0}, NEW q \in Int, NEW k \in Int, NEW r \in 0..(d - 1), NEW s \in 0..(d - 1),
         d * q + r = d * k + s
  PROVE  r = s
<1>1. CASE q > k
  <2>1. d * (q - k) >= d
    BY <1>1
  <2> QED
    BY <2>1
<1>2. CASE k > q
  <2>1. d * (k - q) >= d
    BY <1>2
  <2> QED
    BY <2>1
<1>3. CASE q = k
  BY <1>3
<1> QED
  BY <1>1, <1>2, <1>3

(***************************************************************************)
(* The loop of LocalDiskSink::write asks for the rest as a DWORD each      *)
(* time: together the calls cannot get rid of more than the first may.     *)
(***************************************************************************)
LEMMA AsDwordOfRest ==
  ASSUME NEW x \in Nat, NEW t \in 0..AsDword(x)
  PROVE  AsDword(x - t) + t = AsDword(x)
<1> DEFINE D == DwordSectors
<1>0. D \in Nat /\ D > 0 /\ t \in Nat /\ t <= x
  BY AsDwordBound, DwordAssumption
<1>1. CASE x < D
  BY <1>0, <1>1 DEF AsDword
<1>2. CASE x >= D
  <2>1. AsDword(x) = x % D
    BY <1>0, <1>2 DEF AsDword
  <2> DEFINE q == x \div D
             r == x % D
             k == (x - t) \div D
             s == (x - t) % D
  <2>2. x = D * q + r /\ q \in Int /\ r \in 0..(D - 1)
    BY <1>0
  <2>3. x - t = D * k + s /\ k \in Int /\ s \in 0..(D - 1)
    BY <1>0
  <2>4. r - t \in 0..(D - 1)
    BY <1>0, <2>1, <2>2
  <2>5. q >= 1
    <3>1. CASE q <= 0
      <4>1. D * q <= 0
        BY <1>0, <2>2, <3>1
      <4> QED
        BY <1>0, <1>2, <2>2, <4>1
    <3> QED
      BY <2>2, <3>1
  <2>6. D * q >= D
    BY <1>0, <2>2, <2>5
  <2>7. x - t >= D
    BY <1>0, <2>2, <2>4, <2>6
  <2>8. AsDword(x - t) = s
    BY <1>0, <2>7 DEF AsDword
  <2>9. D * q + (r - t) = D * k + s
    BY <1>0, <2>2, <2>3
  <2>10. r - t = s
    <3>1. D \in Nat \ {0} /\ q \in Int /\ k \in Int /\ s \in 0..(D - 1)
      BY <1>0, <2>2, <2>3
    <3> HIDE DEF q, r, k, s, D
    <3> QED
      BY ONLY <3>1, <2>4, <2>9, RemainderUnique, Zenon
  <2> HIDE DEF q, r, k, s, D
  <2> QED
    <3>1. AsDword(x) = r
      BY <2>1 DEF r, D
    <3> QED
      BY <1>0, <2>2, <2>8, <2>10, <3>1
<1> QED
  BY <1>0, <1>1, <1>2
-----------------------------------------------------------------------------
(***************************************************************************)
(* What ProgressHonest needs to know within a write: the counter lacks     *)
(* what this write has got rid of so far, and a file has seen one WriteFile *)
(* only.                                                                   *)
(***************************************************************************)
Counted ==
  /\ pc \in Writing =>
       len \in Lengths /\ outcome = "open" /\ bytes_written = destination - total_written
  /\ pc \notin Writing /\ outcome # "failed" => bytes_written = destination
  /\ bytes_written <= destination

OneWriteFile ==
  sort = "file" =>
    /\ pc = "WriteFile" => total_written = 0
    /\ pc \in {"written", "error"} => total_written = got

IInv == TypeOK /\ Counted /\ OneWriteFile

LEMMA InitIInv == Init => IInv
BY LocalAssumption, AsDwordBound DEF Init, IInv, TypeOK, Counted, OneWriteFile, Writing, AsDword

LEMMA WriteFileIInv == IInv /\ WriteFile => IInv'
<1> SUFFICES ASSUME IInv, WriteFile PROVE IInv'
  OBVIOUS
<1> USE DEF IInv
<1>1. len \in Nat
  BY LocalAssumption DEF TypeOK
<1>2. total_written \in Nat /\ total_written <= AsDword(len) /\ AsDword(len) <= len
  BY <1>1, AsDwordBound DEF TypeOK
<1>3. PICK g \in Nat : got' = g /\ g <= AsDword(len - total_written) /\ g <= Capacity - destination
  BY <1>1, <1>2, AsDwordBound DEF WriteFile, Taken, Room
<1>4. AsDword(len - total_written) + total_written = AsDword(len)
  BY <1>1, <1>2, AsDwordOfRest
<1>5. AsDword(len) \in Nat /\ AsDword(len - total_written) \in Nat
  BY <1>1, <1>2, AsDwordBound
<1>6. /\ pc = "WriteFile" /\ pc' \in {"written", "error"}
      /\ destination' = destination + g /\ total_written' = total_written + g
      /\ UNCHANGED <<sort, handle, len, bytes_written, outcome>>
  BY <1>3 DEF WriteFile, Goto
<1>7. TypeOK'
  <2>1. g \in 0..AsDword(len) /\ total_written + g \in 0..AsDword(len)
    BY <1>2, <1>3, <1>4, <1>5
  <2>2. destination + g \in 0..Capacity
    BY <1>3, LocalAssumption DEF TypeOK
  <2> QED
    BY <1>3, <1>6, <2>1, <2>2 DEF TypeOK, Writing
<1>8. Counted'
  <2>1. destination \in Nat /\ bytes_written \in Nat
    BY LocalAssumption DEF TypeOK
  <2>2. outcome = "open" /\ bytes_written = destination - total_written
    BY <1>6 DEF Counted, Writing
  <2>3. bytes_written = (destination + g) - (total_written + g) /\ bytes_written <= destination + g
    BY <1>2, <2>1, <2>2
  <2> QED
    BY <1>6, <2>2, <2>3 DEF Counted, Writing
<1>9. OneWriteFile'
  <2>1. sort = "file" => total_written + g = g
    BY <1>2, <1>6 DEF OneWriteFile
  <2> QED
    BY <1>3, <1>6, <2>1 DEF OneWriteFile
<1> QED
  BY <1>7, <1>8, <1>9

LEMMA AfterIInv == IInv /\ AfterWriteFile => IInv'
<1> SUFFICES ASSUME IInv, AfterWriteFile PROVE IInv'
  OBVIOUS
<1> USE DEF IInv
<1>1. len \in Nat /\ AsDword(len) \in Nat /\ total_written \in Nat /\ got \in Nat
      /\ destination \in Nat /\ bytes_written \in Nat
  BY LocalAssumption, AsDwordBound DEF TypeOK
<1>2. pc \in {"written", "error"} /\ UNCHANGED <<sort, handle, len, total_written, destination, got>>
  BY DEF AfterWriteFile, ReturnOk, ReturnErr, Return, data
<1>3. CASE pc' = "caller" /\ UNCHANGED bytes_written /\ outcome' = "failed"
  BY <1>1, <1>2, <1>3 DEF TypeOK, Counted, OneWriteFile, Writing
<1>4. CASE pc' = "caller" /\ bytes_written' = bytes_written + total_written /\ UNCHANGED outcome
  BY <1>1, <1>2, <1>4 DEF TypeOK, Counted, OneWriteFile, Writing
<1>5. CASE /\ pc' = "WriteFile" /\ UNCHANGED <<bytes_written, outcome>>
           /\ sort = "disk"
  BY <1>1, <1>2, <1>5 DEF TypeOK, Counted, OneWriteFile, Writing
<1>6. \/ pc' = "caller" /\ UNCHANGED bytes_written /\ outcome' = "failed"
      \/ pc' = "caller" /\ bytes_written' = bytes_written + total_written /\ UNCHANGED outcome
      \/ pc' = "WriteFile" /\ UNCHANGED <<bytes_written, outcome>> /\ sort = "disk"
  BY DEF AfterWriteFile, ReturnOk, ReturnErr, Return, CountProgress, FileWhole, Goto, data,
         OneWriteFile
<1> QED
  BY <1>3, <1>4, <1>5, <1>6

LEMMA CallerIInv == IInv /\ (New \/ WriteBegins \/ Flush \/ Drop) => IInv'
<1> SUFFICES ASSUME IInv, New \/ WriteBegins \/ Flush \/ Drop PROVE IInv'
  OBVIOUS
<1> USE DEF IInv, Goto, Writing
<1>0. \A l \in Lengths : l \in Nat /\ AsDword(l) \in Nat
  BY LocalAssumption, AsDwordBound
<1>1. CASE New
  BY <1>1 DEF New, data, TypeOK, Counted, OneWriteFile
<1>2. CASE WriteBegins
  <2>1. destination \in Nat /\ bytes_written \in Nat
    BY LocalAssumption DEF TypeOK
  <2>2. TypeOK'
    BY <1>0, <1>2 DEF WriteBegins, TypeOK
  <2> QED
    BY <1>2, <2>1, <2>2 DEF WriteBegins, Counted, OneWriteFile
<1>3. CASE Flush
  BY <1>3 DEF Flush, data, TypeOK, Counted, OneWriteFile
<1>4. CASE Drop
  BY <1>4 DEF Drop, data, TypeOK, Counted, OneWriteFile
<1> QED
  BY <1>1, <1>2, <1>3, <1>4

(* IInv holds initially and every step keeps it. *)
THEOREM Inductive == Spec => []IInv
<1>1. IInv /\ [Next]_vars => IInv'
  <2> SUFFICES ASSUME IInv, [Next]_vars PROVE IInv'
    OBVIOUS
  <2>1. CASE UNCHANGED vars
    BY <2>1 DEF vars, data, IInv, TypeOK, Counted, OneWriteFile, Writing
  <2> QED
    BY <2>1, WriteFileIInv, AfterIInv, CallerIInv DEF Next, Over
<1> QED
  BY <1>1, InitIInv, PTL DEF Spec

(***************************************************************************)
(* However a write is split and truncated: what it has got rid of fits the *)
(* DWORD it was asked for, and the handle is open whenever it is used.     *)
(***************************************************************************)
THEOREM TypeCorrect == Spec => []TypeOK
BY Inductive, PTL DEF IInv

(* What the window shows as written is what the destination has taken. *)
THEOREM ProgressCorrect == Spec => []ProgressHonest
<1>1. IInv => ProgressHonest
  BY DEF IInv, Counted, Writing, ProgressHonest
<1> QED
  BY <1>1, Inductive, PTL
-----------------------------------------------------------------------------
(* What the destination had taken when the last call of write returned. *)
TakenByCalls == IF pc \in Writing THEN destination - total_written ELSE destination

(* The two outcomes the local sinks have for a call that got rid of t sectors. *)
LEMMA CallOutcomes ==
  ASSUME NEW n \in Nat, NEW t \in 0..AsDword(n)
  PROVE  /\ Outcome(FALSE, 0, t) \in Calls!WriteOutcomes("file", n)
         /\ Outcome(FALSE, 0, t) \in Calls!WriteOutcomes("disk", n)
         /\ Outcome(TRUE, t, t) \in Calls!WriteOutcomes("disk", n)
         /\ AsDword(n) = n => Outcome(TRUE, n, n) \in Calls!WriteOutcomes("file", n)
<1>1. Calls!AsDword(n) = AsDword(n)
  BY DEF Calls!AsDword, AsDword
<1>2. \A ok, ret, d : Calls!Outcome(ok, ret, d) = Outcome(ok, ret, d)
  BY DEF Calls!Outcome, Outcome
<1>3. Outcome(FALSE, 0, t) \in Calls!Failed(AsDword(n))
  BY <1>2 DEF Calls!Failed
<1>4. /\ Calls!WriteOutcomes("file", n) = Calls!FileWrite(n)
      /\ Calls!WriteOutcomes("disk", n) = Calls!LocalDiskWrite(n)
  BY DEF Calls!WriteOutcomes
<1>5. /\ Outcome(FALSE, 0, t) \in Calls!FileWrite(n)
      /\ AsDword(n) = n => Outcome(TRUE, n, n) \in Calls!FileWrite(n)
  BY <1>1, <1>2, <1>3 DEF Calls!FileWrite
<1>6. Outcome(FALSE, 0, t) \in Calls!LocalDiskWrite(n) /\ Outcome(TRUE, t, t) \in Calls!LocalDiskWrite(n)
  BY <1>1, <1>2, <1>3 DEF Calls!LocalDiskWrite
<1> QED
  BY <1>4, <1>5, <1>6

(* The end of a write is one call of SinkCalls. *)
LEMMA CallEnds ==
  ASSUME IInv, AfterWriteFile, pc' = "caller"
  PROVE  Calls!WriteCall
<1> USE DEF IInv
<1>1. /\ len \in Nat /\ AsDword(len) \in Nat /\ AsDword(len) <= len
      /\ total_written \in 0..AsDword(len) /\ got \in 0..AsDword(len)
      /\ destination \in Nat /\ bytes_written \in Nat
  BY LocalAssumption, AsDwordBound DEF TypeOK
<1>2. /\ pc \in {"written", "error"} /\ outcome = "open" /\ len \in Lengths
      /\ UNCHANGED <<sort, len, total_written, destination>>
  BY DEF AfterWriteFile, ReturnOk, ReturnErr, Return, data, Counted, Writing
<1>3. TakenByCalls' = TakenByCalls + total_written
  BY <1>1, <1>2 DEF TakenByCalls, Writing
<1>4. sort \in {"file", "disk"}
  BY DEF TypeOK
<1>5. ASSUME NEW w \in Calls!WriteOutcomes(sort, len), w.taken = total_written, w.ok \in BOOLEAN,
             bytes_written' = IF w.ok THEN bytes_written + w.ret ELSE bytes_written,
             outcome' = IF w.ok THEN "open" ELSE "failed"
      PROVE  Calls!WriteCall
  BY <1>2, <1>3, <1>5 DEF Calls!WriteCall, TakenByCalls
<1>6. CASE outcome' = "failed" /\ UNCHANGED bytes_written
  <2> DEFINE w == Outcome(FALSE, 0, total_written)
  <2>1. w \in Calls!WriteOutcomes(sort, len)
    BY <1>1, <1>4, CallOutcomes
  <2>2. w.ok = FALSE /\ w.taken = total_written
    BY DEF Outcome
  <2> HIDE DEF w
  <2> QED
    BY <1>5, <1>6, <2>1, <2>2
<1>7. CASE bytes_written' = bytes_written + total_written /\ UNCHANGED outcome
           /\ (sort = "file" => total_written = len)
  <2> DEFINE w == Outcome(TRUE, total_written, total_written)
  <2>1. w \in Calls!WriteOutcomes(sort, len)
    <3>1. CASE sort = "disk"
      BY <1>1, <3>1, CallOutcomes
    <3>2. CASE sort = "file"
      <4>1. AsDword(len) = len
        BY <1>1, <1>7, <3>2
      <4> QED
        BY <1>1, <1>7, <3>2, <4>1, CallOutcomes
    <3> QED
      BY <1>4, <3>1, <3>2
  <2>2. w.ok = TRUE /\ w.taken = total_written /\ w.ret = total_written
    BY DEF Outcome
  <2> HIDE DEF w
  <2> QED
    BY <1>2, <1>5, <1>7, <2>1, <2>2
<1>8. \/ outcome' = "failed" /\ UNCHANGED bytes_written
      \/ bytes_written' = bytes_written + total_written /\ UNCHANGED outcome
         /\ (sort = "file" => total_written = len)
  BY <1>2 DEF AfterWriteFile, ReturnOk, ReturnErr, CountProgress, FileWhole, Goto, OneWriteFile
<1> QED
  BY <1>6, <1>7, <1>8

(* Inside a write, and around it, nothing can be seen of the calls. *)
LEMMA CallsUnseen ==
  ASSUME IInv,
         New \/ WriteBegins \/ WriteFile \/ (AfterWriteFile /\ pc' # "caller") \/ Drop \/ UNCHANGED vars
  PROVE  UNCHANGED Calls!callvars
<1> USE DEF IInv
<1>0. destination \in Nat /\ total_written \in Nat
  <2>1. len \in Nat
    BY LocalAssumption DEF TypeOK
  <2> QED
    BY <2>1, LocalAssumption, AsDwordBound DEF TypeOK
<1>1. UNCHANGED <<sort, bytes_written, outcome>>
  BY DEF New, WriteBegins, WriteFile, AfterWriteFile, Drop, ReturnOk, ReturnErr, Return, Goto,
         data, vars
<1>2. UNCHANGED TakenByCalls
  <2>1. CASE New \/ Drop
    BY <2>1 DEF New, Drop, Goto, data, TakenByCalls, Writing
  <2>2. CASE WriteBegins
    BY <1>0, <2>2 DEF WriteBegins, Goto, TakenByCalls, Writing
  <2>3. CASE WriteFile
    <3>1. PICK g \in Nat : got' = g
      BY <2>3, LocalAssumption, AsDwordBound, AsDwordOfRest DEF WriteFile, Taken, TypeOK
    <3> QED
      BY <1>0, <2>3, <3>1 DEF WriteFile, Goto, TakenByCalls, Writing
  <2>4. CASE AfterWriteFile /\ pc' # "caller"
    BY <2>4 DEF AfterWriteFile, ReturnOk, ReturnErr, Return, Goto, data, TakenByCalls, Writing
  <2>5. CASE UNCHANGED vars
    BY <2>5 DEF vars, data, TakenByCalls, Writing
  <2> QED
    BY <2>1, <2>2, <2>3, <2>4, <2>5
<1> QED
  BY <1>1, <1>2 DEF Calls!callvars, TakenByCalls

LEMMA FlushIsCall == IInv /\ Flush => Calls!FlushCall
<1> SUFFICES ASSUME IInv, Flush PROVE Calls!FlushCall
  OBVIOUS
<1>1. sort \in {"file", "disk"} /\ UNCHANGED <<sort, destination, total_written, bytes_written, pc>>
      /\ outcome = "open"
  BY DEF IInv, TypeOK, Flush, data
<1>2. Calls!FlushOutcomes(sort) = IF sort = "disk" THEN {TRUE} ELSE BOOLEAN
  BY DEF Calls!FlushOutcomes
<1>3. PICK ok \in BOOLEAN : outcome' = IF ok \/ sort = "disk" THEN "flushed" ELSE "failed"
  BY DEF Flush
<1>4. \E o \in Calls!FlushOutcomes(sort) : outcome' = IF o THEN "flushed" ELSE "failed"
  BY <1>1, <1>2, <1>3
<1> QED
  BY <1>1, <1>4 DEF Calls!FlushCall, Writing

(***************************************************************************)
(* For any lengths, room and DWORD: the loops around WriteFile have the    *)
(* outcomes of one call that stream_to is modelled with.                   *)
(***************************************************************************)
THEOREM ImplementsCalls == Spec => ImplementsSinkCalls
<1>1. Init => Calls!CallsInit
  BY DEF Init, Calls!CallsInit, Calls!SinkKinds, Writing
<1>2. IInv /\ [Next]_vars => [Calls!CallsNext]_(Calls!callvars)
  BY CallEnds, CallsUnseen, FlushIsCall DEF Next, Over, Calls!CallsNext
<1> QED
  BY <1>1, <1>2, Inductive, PTL DEF Spec, ImplementsSinkCalls, Calls!CallsSpec
=============================================================================
