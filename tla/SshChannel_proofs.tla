------------------------- MODULE SshChannel_proofs -------------------------
(***************************************************************************)
(* Proofs about the SSH destination for any lengths of the writes, any     *)
(* size of the image and of the window, whatever the server accepts and    *)
(* whenever the command, the channel or the connection fails.              *)
(***************************************************************************)
EXTENDS SshChannel, TLAPS

(***************************************************************************)
(* The inductive invariant has three parts.  Counted relates what write    *)
(* returned to what the channel took.  Remaining says that a method behind *)
(* the loop was not accepted, or it would have ended it.  Stored is what   *)
(* makes flush worth waiting for: a command that the client knows to have  *)
(* ended well saw the end of its input, and the client sends that only     *)
(* when there is nothing more to write.                                    *)
(***************************************************************************)
Types ==
  /\ pc \in {"connect", "auth", "session", "caller", "write", "wait_eof", "wait_close",
             "failed", "refused", "flushed", "dropped"}
  /\ own \subseteq MethodSet /\ accepted \subseteq own /\ offered \subseteq own
  /\ next \in 1..5
  /\ link \in {"up", "broken", "silent"}
  /\ command \in {"none", "running", "ended"}
  /\ status \in {0, 1}
  /\ eof_sent \in BOOLEAN /\ remote_eof \in BOOLEAN /\ remote_close \in BOOLEAN

Counted ==
  /\ asked \in Lengths \cup {0} /\ asked \in Nat
  /\ done \in 0..asked
  /\ written \in 0..ImageSize
  /\ told \in 0..written
  /\ received \in 0..written /\ written - received <= Window
  /\ stored \in 0..received
  /\ pc = "write" => asked \in Lengths /\ told + done = written /\ told + asked <= ImageSize
  /\ pc \notin {"write", "failed"} => told = written
  /\ pc \in {"connect", "auth", "session", "refused"} => written = 0

Remaining ==
  /\ pc = "connect" => next = 1
  /\ pc = "refused" => next = 5
  /\ link = "up" /\ pc \in {"auth", "refused"} =>
       \A i \in 1..4 : i < next =>
         Methods[i] \notin accepted /\ (Methods[i] \in own => Methods[i] \in offered)
  /\ link = "up" /\ "password" \in offered => accepted \subseteq {"password"}

Stored ==
  /\ pc \in {"connect", "auth", "session", "refused"} => command = "none"
  /\ pc \in {"wait_eof", "wait_close", "flushed"} => eof_sent = TRUE
  /\ pc \in {"connect", "auth", "session", "caller", "write"} => eof_sent = FALSE
  /\ pc = "flushed" => remote_close = TRUE
  /\ remote_close = TRUE => command = "ended"
  /\ command = "ended" /\ status = 0 =>
       stored = received /\ (link = "up" \/ remote_close = TRUE => eof_sent = TRUE /\ received = written)

SInv == Types /\ Counted /\ Remaining /\ Stored

-----------------------------------------------------------------------------
(* The methods, one by one. *)
LEMMA MethodFacts ==
  /\ DOMAIN Methods = 1..4
  /\ Len(Methods) = 4
  /\ Methods[1] = "agent" /\ Methods[2] = "id_ed25519" /\ Methods[3] = "id_rsa"
  /\ Methods[4] = "password"
  /\ MethodSet = {"agent", "id_ed25519", "id_rsa", "password"}
<1>1. DOMAIN Methods = 1..4 /\ Len(Methods) = 4
  BY DEF Methods
<1>2. /\ Methods[1] = "agent" /\ Methods[2] = "id_ed25519" /\ Methods[3] = "id_rsa"
      /\ Methods[4] = "password"
  BY DEF Methods
<1>3. \A i \in 1..4 : i = 1 \/ i = 2 \/ i = 3 \/ i = 4
  OBVIOUS
<1>4. MethodSet = {"agent", "id_ed25519", "id_rsa", "password"}
  BY <1>1, <1>2, <1>3 DEF MethodSet
<1> QED
  BY <1>1, <1>2, <1>4

LEMMA InitSInv ==
  ASSUME Init
  PROVE  SInv
<1>1. Types
  <2>1. own \subseteq MethodSet /\ accepted \subseteq own /\ offered = {}
    BY DEF Init
  <2>2. /\ pc = "connect" /\ next = 1 /\ link = "up" /\ command = "none" /\ status = 0
        /\ eof_sent = FALSE /\ remote_eof = FALSE /\ remote_close = FALSE
    BY DEF Init
  <2>3. next \in 1..5 /\ offered \subseteq own /\ own \subseteq MethodSet /\ accepted \subseteq own
    BY <2>1, <2>2
  <2>4. eof_sent \in BOOLEAN /\ remote_eof \in BOOLEAN /\ remote_close \in BOOLEAN
    BY <2>2
  <2>5. /\ link \in {"up", "broken", "silent"} /\ command \in {"none", "running", "ended"}
        /\ status \in {0, 1}
    BY <2>2
  <2> QED
    BY <2>2, <2>3, <2>4, <2>5 DEF Types
<1>2. Counted
  BY ChannelAssumption DEF Init, Counted
<1>3. Remaining /\ Stored
  BY DEF Init, Remaining, Stored
<1> QED
  BY <1>1, <1>2, <1>3 DEF SInv

(* create_ssh_session and new. *)
LEMMA SessionSteps ==
  ASSUME SInv, Connect \/ TryMethod \/ NoMethodLeft \/ New
  PROVE  SInv'
<1> USE DEF SInv
<1>1. CASE Connect
  <2>1. pc = "connect" /\ pc' \in {"auth", "failed"}
        /\ UNCHANGED <<session, link, sending, remote, told_client>>
    BY <1>1 DEF Connect, Goto
  <2>2. Types' /\ Counted'
    BY <2>1 DEF Types, Counted, session, sending, remote, told_client
  <2>3. Remaining' /\ Stored'
    BY <2>1 DEF Remaining, Stored, session, sending, remote, told_client
  <2> QED
    BY <2>2, <2>3
<1>2. CASE TryMethod
  <2>1. /\ pc = "auth" /\ next \in 1..4
        /\ offered' = offered \cup ({Methods[next]} \cap own)
        /\ \/ pc' = "session" /\ next' = next
           \/ /\ Methods[next] \notin accepted \/ link = "broken"
              /\ next' = next + 1
              /\ pc' = "auth"
        /\ UNCHANGED <<own, accepted, link, sending, remote, told_client>>
    BY <1>2, MethodFacts DEF TryMethod, Goto, NextMethod
  <2>2. Types'
    BY <2>1 DEF Types, sending, remote, told_client
  <2>3. Counted' /\ Stored'
    BY <2>1 DEF Counted, Stored, sending, remote, told_client
  <2>4. Remaining'
    <3>1. ASSUME link = "up", pc' = "auth", NEW i \in 1..4, i < next'
          PROVE  Methods[i] \notin accepted /\ (Methods[i] \in own => Methods[i] \in offered')
      <4>1. CASE i < next
        BY <2>1, <3>1, <4>1 DEF Remaining
      <4>2. CASE i = next
        BY <2>1, <3>1, <4>2
      <4> QED
        BY <2>1, <3>1, <4>1, <4>2
    <3>2. ASSUME link = "up", "password" \in offered', "password" \notin offered
          PROVE  accepted \subseteq {"password"}
      <4>1. Methods[next] = "password"
        BY <2>1, <3>2
      <4>2. next = 4
        <5>1. \A i \in 1..4 : i = 1 \/ i = 2 \/ i = 3 \/ i = 4
          OBVIOUS
        <5> QED
          BY <2>1, <4>1, <5>1, MethodFacts
      <4>3. Methods[1] \notin accepted /\ Methods[2] \notin accepted /\ Methods[3] \notin accepted
        BY <2>1, <3>2, <4>2 DEF Remaining
      <4> QED
        BY <4>3, MethodFacts DEF Types
    <3> QED
      BY <2>1, <3>1, <3>2 DEF Remaining
  <2> QED
    BY <2>2, <2>3, <2>4
<1>3. CASE NoMethodLeft
  <2>1. pc = "auth" /\ next = 5 /\ pc' = "refused"
        /\ UNCHANGED <<session, link, sending, remote, told_client>>
    BY <1>3, MethodFacts DEF NoMethodLeft, Goto, Types
  <2>2. Types' /\ Counted'
    BY <2>1 DEF Types, Counted, session, sending, remote, told_client
  <2>3. Remaining' /\ Stored'
    BY <2>1 DEF Remaining, Stored, session, sending, remote, told_client
  <2> QED
    BY <2>2, <2>3
<1>4. CASE New
  <2>1. /\ pc = "session" /\ pc' \in {"caller", "failed"}
        /\ command' = command \/ command' = "running"
        /\ UNCHANGED <<status, received, stored, session, link, sending, told_client>>
        /\ command' = "running" => pc' = "caller" \/ command' = command
    BY <1>4 DEF New, Goto, remote
  <2>2. Types' /\ Counted'
    BY <2>1 DEF Types, Counted, session, sending, told_client
  <2>3. Remaining'
    BY <2>1 DEF Remaining, session
  <2>4. Stored'
    BY <2>1 DEF Stored, sending, told_client
  <2> QED
    BY <2>2, <2>3, <2>4
<1> QED
  BY <1>1, <1>2, <1>3, <1>4

(* write: begins with a length that still fits, ends with all of it handed over, or fails. *)
LEMMA WriteSteps ==
  ASSUME SInv, WriteBegins \/ WritePiece \/ WriteReturns \/ WriteFails
  PROVE  SInv'
<1> USE DEF SInv
<1>1. Lengths \subseteq Nat /\ ImageSize \in Nat /\ Window \in Nat
  BY ChannelAssumption
<1>2. CASE WriteBegins
  <2>1. /\ pc = "caller" /\ pc' = "write" /\ asked' \in Lengths /\ written + asked' <= ImageSize
        /\ done' = 0
        /\ UNCHANGED <<session, link, written, told, eof_sent, remote, told_client>>
    BY <1>2 DEF WriteBegins, Goto
  <2>2. Types' /\ Remaining' /\ Stored'
    BY <2>1 DEF Types, Remaining, Stored, session, remote, told_client
  <2>3. Counted'
    <3>1. asked' \in Nat /\ told = written /\ written \in Nat /\ told' = told /\ written' = written
      BY <1>1, <2>1 DEF Counted
    <3>2. done' \in 0..asked' /\ told' + done' = written' /\ told' + asked' <= ImageSize
      BY <2>1, <3>1
    <3> QED
      BY <1>1, <2>1, <3>1, <3>2 DEF Counted, remote
  <2> QED
    BY <2>2, <2>3
<1>3. CASE WritePiece
  <2>1. PICK piece \in 1..Room : /\ done + piece <= asked
                                 /\ done' = done + piece
                                 /\ written' = written + piece
    BY <1>3 DEF WritePiece
  <2>2. /\ pc = "write"
        /\ UNCHANGED <<session, pc, link, asked, told, eof_sent, remote, told_client>>
    BY <1>3 DEF WritePiece
  <2>3. Types' /\ Remaining'
    BY <2>2 DEF Types, Remaining, session, remote, told_client
  <2>4. Stored'
    BY <2>2 DEF Stored, remote, told_client
  <2>5. Counted'
    <3>1. piece \in Nat /\ piece <= Window - (written - received)
      BY <1>1, <2>1 DEF Room, Counted
    <3> QED
      BY <1>1, <2>1, <2>2, <3>1 DEF Counted, remote
  <2> QED
    BY <2>3, <2>4, <2>5
<1>4. CASE WriteReturns
  <2>1. /\ pc = "write" /\ pc' = "caller" /\ done = asked /\ told' = told + asked
        /\ UNCHANGED <<session, link, asked, done, written, eof_sent, remote, told_client>>
    BY <1>4 DEF WriteReturns, HandedOver, Goto
  <2>2. Types' /\ Remaining' /\ Stored'
    BY <2>1 DEF Types, Remaining, Stored, session, remote, told_client
  <2>3. Counted'
    BY <1>1, <2>1 DEF Counted, remote
  <2> QED
    BY <2>2, <2>3
<1>5. CASE WriteFails
  <2>1. /\ pc' = "failed" /\ UNCHANGED <<session, link, sending, remote, told_client>>
    BY <1>5 DEF WriteFails, Fail, Goto
  <2>2. Types' /\ Remaining' /\ Stored'
    BY <2>1 DEF Types, Remaining, Stored, session, sending, remote, told_client
  <2>3. Counted'
    BY <2>1 DEF Counted, sending, remote
  <2> QED
    BY <2>2, <2>3
<1> QED
  BY <1>2, <1>3, <1>4, <1>5

(* flush, and the end without it. *)
LEMMA FlushSteps ==
  ASSUME SInv, Flush \/ WaitEof \/ WaitClose \/ FlushFails \/ Abandon
  PROVE  SInv'
<1> USE DEF SInv
<1>1. CASE Flush \/ Abandon
  <2>1. /\ pc = "caller" /\ pc' \in {"wait_eof", "dropped"} /\ eof_sent' = TRUE
        /\ UNCHANGED <<session, link, asked, done, written, told, remote, told_client>>
    BY <1>1 DEF Flush, Abandon, CloseInput, Goto
  <2>2. Types' /\ Counted'
    BY <2>1 DEF Types, Counted, session, remote, told_client
  <2>3. Remaining' /\ Stored'
    BY <2>1 DEF Remaining, Stored, session, remote, told_client
  <2> QED
    BY <2>2, <2>3
<1>2. CASE WaitEof \/ WaitClose \/ FlushFails
  <2>1. /\ \/ pc = "wait_eof" /\ pc' = "wait_close"
           \/ pc = "wait_close" /\ pc' = "flushed" /\ remote_close = TRUE
           \/ pc' = "failed"
        /\ UNCHANGED <<session, link, sending, remote, told_client>>
    <3>1. CASE WaitEof
      BY <3>1 DEF WaitEof, AfterWaitEof, Goto
    <3>2. CASE WaitClose
      BY <3>2 DEF WaitClose, Goto, Types
    <3>3. CASE FlushFails
      BY <3>3 DEF FlushFails, Fail, Goto
    <3> QED
      BY <1>2, <3>1, <3>2, <3>3
  <2>2. Types' /\ Counted'
    BY <2>1 DEF Types, Counted, session, sending, remote, told_client
  <2>3. Remaining' /\ Stored'
    BY <2>1 DEF Remaining, Stored, session, sending, remote, told_client
  <2> QED
    BY <2>2, <2>3
<1> QED
  BY <1>1, <1>2

(* The other side: it takes what was written, ends, and tells the client so. *)
LEMMA RemoteSteps ==
  ASSUME SInv, Server \/ TellEof \/ CommandFails \/ LinkFails
  PROVE  SInv'
<1> USE DEF SInv
<1>1. CASE Receive
  <2>1. /\ link = "up" /\ command # "none" /\ received < written /\ received' = received + 1
        /\ UNCHANGED <<session, pc, link, sending, command, status, stored, told_client>>
    BY <1>1 DEF Receive
  <2>2. Types' /\ Remaining'
    BY <2>1 DEF Types, Remaining, session, sending, told_client
  <2>3. Counted'
    BY <2>1, ChannelAssumption DEF Counted, sending
  <2>4. Stored'
    <3>1. ~(command = "ended" /\ status = 0)
      BY <2>1 DEF Stored, Counted
    <3> QED
      BY <2>1, <3>1 DEF Stored, sending, told_client
  <2> QED
    BY <2>2, <2>3, <2>4
<1>2. CASE Store
  <2>1. /\ command = "running" /\ stored < received /\ stored' = stored + 1
        /\ UNCHANGED <<session, pc, link, sending, command, status, received, told_client>>
    BY <1>2 DEF Store
  <2>2. Types' /\ Remaining' /\ Stored'
    BY <2>1 DEF Types, Remaining, Stored, session, sending, told_client
  <2>3. Counted'
    BY <2>1, ChannelAssumption DEF Counted, sending
  <2> QED
    BY <2>2, <2>3
<1>3. CASE CommandEnds
  <2>1. /\ command = "running" /\ command' = "ended" /\ stored = received
        /\ link # "up" \/ (eof_sent /\ received = written)
        /\ UNCHANGED <<session, pc, link, sending, status, received, stored, told_client>>
    BY <1>3 DEF CommandEnds, InputEnded
  <2>2. Types' /\ Counted' /\ Remaining'
    BY <2>1 DEF Types, Counted, Remaining, session, sending, told_client
  <2>3. Stored'
    <3>1. remote_close # TRUE
      BY <2>1 DEF Stored
    <3>2. eof_sent \in BOOLEAN
      BY DEF Types
    <3>3. link = "up" => eof_sent = TRUE /\ received = written
      BY <2>1, <3>2
    <3> QED
      BY <2>1, <3>1, <3>3 DEF Stored, sending, told_client
  <2> QED
    BY <2>2, <2>3
<1>4. CASE CommandFails
  <2>1. /\ command = "running" /\ command' = "ended" /\ status' = 1
        /\ UNCHANGED <<session, pc, link, sending, received, stored, told_client>>
    BY <1>4 DEF CommandFails
  <2>2. Types' /\ Counted' /\ Remaining'
    BY <2>1 DEF Types, Counted, Remaining, session, sending, told_client
  <2>3. Stored'
    BY <2>1 DEF Stored, sending, told_client
  <2> QED
    BY <2>2, <2>3
<1>5. CASE TellEof
  <2>1. /\ remote_eof' = TRUE
        /\ UNCHANGED <<session, pc, link, sending, remote, remote_close>>
    BY <1>5 DEF TellEof
  <2>2. Types' /\ Counted' /\ Remaining' /\ Stored'
    BY <2>1 DEF Types, Counted, Remaining, Stored, session, sending, remote
  <2> QED
    BY <2>2
<1>6. CASE TellClose
  <2>1. /\ link = "up" /\ command = "ended" /\ remote_close' = TRUE
        /\ UNCHANGED <<session, pc, link, sending, remote, remote_eof>>
    BY <1>6 DEF TellClose
  <2>2. Types' /\ Counted' /\ Remaining'
    BY <2>1 DEF Types, Counted, Remaining, session, sending, remote
  <2>3. Stored'
    BY <2>1 DEF Stored, sending, remote
  <2> QED
    BY <2>2, <2>3
<1>7. CASE LinkFails
  <2>1. /\ link' \in {"broken", "silent"}
        /\ UNCHANGED <<session, pc, sending, remote, told_client>>
    BY <1>7 DEF LinkFails
  <2>2. Types' /\ Counted'
    BY <2>1 DEF Types, Counted, session, sending, remote, told_client
  <2>3. Remaining' /\ Stored'
    BY <2>1 DEF Remaining, Stored, session, sending, remote, told_client
  <2> QED
    BY <2>2, <2>3
<1> QED
  BY <1>1, <1>2, <1>3, <1>4, <1>5, <1>6, <1>7 DEF Server, TellEnd

(* The three parts are inductive together. *)
THEOREM Inductive == Spec => []SInv
<1>1. Init => SInv
  BY InitSInv
<1>2. SInv /\ [Next]_vars => SInv'
  <2> SUFFICES ASSUME SInv, [Next]_vars PROVE SInv'
    OBVIOUS
  <2>1. CASE Client
    BY <2>1, SessionSteps, WriteSteps, FlushSteps DEF Client
  <2>2. CASE Server \/ TellEof \/ CommandFails \/ LinkFails
    BY <2>2, RemoteSteps
  <2>3. CASE Over \/ UNCHANGED vars
    <3>1. UNCHANGED <<session, pc, link, sending, remote, told_client>>
      BY <2>3 DEF Over, vars
    <3>2. Types' /\ Counted'
      BY <3>1 DEF SInv, Types, Counted, session, sending, remote, told_client
    <3>3. Remaining' /\ Stored'
      BY <3>1 DEF SInv, Remaining, Stored, session, sending, remote, told_client
    <3> QED
      BY <3>2, <3>3 DEF SInv
  <2> QED
    BY <2>1, <2>2, <2>3 DEF Next
<1> QED
  BY <1>1, <1>2, PTL DEF Spec

-----------------------------------------------------------------------------
(* No count leaves its range: the window is never overfilled, write is never told too much. *)
THEOREM TypeCorrect == Spec => []TypeOK
<1>1. SInv => TypeOK
  BY MethodFacts DEF SInv, Types, Counted, TypeOK
<1> QED
  BY <1>1, Inductive, PTL

(***************************************************************************)
(* Whatever the user has and the server accepts: "Authentication failed"   *)
(* means that nothing would have done, and the password is the last thing  *)
(* a server is told.                                                       *)
(***************************************************************************)
THEOREM MethodsCorrect == Spec => []EveryMethodTried
<1>1. SInv => EveryMethodTried
  <2> SUFFICES ASSUME SInv, link = "up"
               PROVE  /\ pc = "refused" => offered = own /\ accepted = {}
                      /\ "password" \in offered => accepted \subseteq {"password"}
    BY DEF EveryMethodTried
  <2>1. ASSUME pc = "refused"
        PROVE  offered = own /\ accepted = {}
    <3>1. \A i \in 1..4 : Methods[i] \notin accepted /\ (Methods[i] \in own => Methods[i] \in offered)
      BY <2>1 DEF SInv, Remaining
    <3>2. \A m \in MethodSet : m \notin accepted /\ (m \in own => m \in offered)
      BY <3>1, MethodFacts
    <3> QED
      BY <3>2 DEF SInv, Types
  <2> QED
    BY <2>1 DEF SInv, Remaining
<1> QED
  BY <1>1, Inductive, PTL

(* An Ok of flush never comes before the command's end; the end of one that succeeded is enough. *)
THEOREM FlushCorrect == Spec => []FlushWaitsForCommand
<1>1. SInv => FlushWaitsForCommand
  <2> SUFFICES ASSUME SInv, pc = "flushed"
               PROVE  command = "ended" /\ (status = 0 => stored = told /\ told = written)
    BY DEF FlushWaitsForCommand
  <2>1. command = "ended" /\ remote_close = TRUE /\ told = written
    BY DEF SInv, Stored, Counted
  <2> QED
    BY <2>1 DEF SInv, Stored
<1> QED
  BY <1>1, Inductive, PTL

-----------------------------------------------------------------------------
(* What the channel had taken when the last call of write returned, and how it went. *)
TakenByCalls == IF pc = "write" THEN written - done ELSE written

CallOutcome ==
  CASE pc \in {"failed", "refused"} -> "failed"
    [] pc = "flushed"               -> "flushed"
    [] OTHER                        -> "open"

LEMMA OutcomeFacts ==
  /\ pc \in {"failed", "refused"} => CallOutcome = "failed"
  /\ pc = "flushed" => CallOutcome = "flushed"
  /\ pc \notin {"failed", "refused", "flushed"} => CallOutcome = "open"
  BY DEF CallOutcome

LEMMA OutcomeFactsNext ==
  /\ pc' \in {"failed", "refused"} => CallOutcome' = "failed"
  /\ pc' = "flushed" => CallOutcome' = "flushed"
  /\ pc' \notin {"failed", "refused", "flushed"} => CallOutcome' = "open"
  BY DEF CallOutcome

(* A call of write that handed over d sectors: all it was asked for, or an error. *)
LEMMA CallOutcomes ==
  ASSUME NEW len \in Nat, NEW d \in 0..len
  PROVE  /\ Outcome(FALSE, 0, d) \in Calls!WriteOutcomes("ssh", len)
         /\ Outcome(TRUE, len, len) \in Calls!WriteOutcomes("ssh", len)
<1>1. \A ok, ret, t : Calls!Outcome(ok, ret, t) = Outcome(ok, ret, t)
  BY DEF Calls!Outcome, Outcome
<1>2. Calls!WriteOutcomes("ssh", len) = Calls!SshWrite(len)
  BY DEF Calls!WriteOutcomes
<1>3. Outcome(FALSE, 0, d) \in Calls!Failed(len)
  BY <1>1 DEF Calls!Failed
<1> QED
  BY <1>1, <1>2, <1>3 DEF Calls!SshWrite

LEMMA WriteIsCall ==
  ASSUME SInv, WriteReturns \/ WriteFails
  PROVE  Calls!WriteCall
<1>1. /\ pc = "write" /\ asked \in Lengths /\ asked \in Nat /\ done \in 0..asked
      /\ written \in Nat /\ done \in Nat /\ told \in Nat /\ written - done \in Int
      /\ UNCHANGED <<asked, done, written>>
  <2>1. pc = "write" /\ UNCHANGED <<asked, done, written>>
    BY DEF WriteReturns, WriteFails, Fail, sending
  <2> QED
    BY <2>1, ChannelAssumption DEF SInv, Counted
<1>2. TakenByCalls = written - done /\ CallOutcome = "open"
  BY <1>1, OutcomeFacts DEF TakenByCalls
<1>3. ASSUME NEW w \in Calls!WriteOutcomes("ssh", asked), w.ok \in BOOLEAN,
             TakenByCalls' = TakenByCalls + w.taken,
             told' = IF w.ok THEN told + w.ret ELSE told,
             CallOutcome' = IF w.ok THEN "open" ELSE "failed"
      PROVE  Calls!WriteCall
  BY <1>1, <1>2, <1>3 DEF Calls!WriteCall, TakenByCalls, CallOutcome
<1>4. CASE WriteReturns
  <2>1. pc' = "caller" /\ done = asked /\ told' = told + asked
    BY <1>4 DEF WriteReturns, HandedOver, Goto
  <2>2. TakenByCalls' = TakenByCalls + asked /\ CallOutcome' = "open"
    BY <1>1, <1>2, <2>1, OutcomeFactsNext DEF TakenByCalls
  <2> DEFINE w == Outcome(TRUE, asked, asked)
  <2>3. w \in Calls!WriteOutcomes("ssh", asked) /\ w.ok = TRUE /\ w.taken = asked /\ w.ret = asked
    BY <1>1, CallOutcomes DEF Outcome
  <2> HIDE DEF w
  <2> QED
    BY <1>3, <2>1, <2>2, <2>3
<1>5. CASE WriteFails
  <2>1. pc' = "failed" /\ told' = told
    BY <1>5 DEF WriteFails, Fail, Goto, sending
  <2>2. TakenByCalls' = TakenByCalls + done /\ CallOutcome' = "failed"
    BY <1>1, <1>2, <2>1, OutcomeFactsNext DEF TakenByCalls
  <2> DEFINE w == Outcome(FALSE, 0, done)
  <2>3. w \in Calls!WriteOutcomes("ssh", asked) /\ w.ok = FALSE /\ w.taken = done
    BY <1>1, CallOutcomes DEF Outcome
  <2> HIDE DEF w
  <2> QED
    BY <1>3, <2>1, <2>2, <2>3
<1> QED
  BY <1>4, <1>5

(* The other steps that end the use of the sink: each is a flush, answered Ok or not. *)
LEMMA EndIsCall ==
  ASSUME SInv, pc \notin {"write", "failed", "refused", "flushed"},
         pc' \in {"failed", "refused", "flushed"}, UNCHANGED <<written, told>>
  PROVE  Calls!FlushCall
<1>1. TakenByCalls' = TakenByCalls
  BY DEF TakenByCalls
<1>2. CallOutcome = "open" /\ CallOutcome' \in {"failed", "flushed"}
  BY OutcomeFacts, OutcomeFactsNext
<1>3. Calls!FlushOutcomes("ssh") = BOOLEAN
  BY DEF Calls!FlushOutcomes
<1>4. \E ok \in Calls!FlushOutcomes("ssh") : CallOutcome' = IF ok THEN "flushed" ELSE "failed"
  BY <1>2, <1>3
<1> QED
  BY <1>1, <1>2, <1>4 DEF Calls!FlushCall, TakenByCalls, CallOutcome

(* Nothing else can be seen of the calls. *)
LEMMA Unseen ==
  ASSUME UNCHANGED <<TakenByCalls, told, CallOutcome>>
  PROVE  UNCHANGED Calls!callvars
  BY DEF Calls!callvars, TakenByCalls, CallOutcome

LEMMA OtherStepsUnseen ==
  ASSUME SInv,
         \/ (Connect /\ pc' = "auth") \/ TryMethod \/ (New /\ pc' = "caller")
         \/ WriteBegins \/ WritePiece \/ Flush \/ WaitEof \/ Abandon
         \/ Server \/ TellEof \/ CommandFails \/ LinkFails \/ UNCHANGED vars
  PROVE  UNCHANGED Calls!callvars
<1>1. told' = told
  BY DEF Connect, TryMethod, New, WriteBegins, WritePiece, Flush, WaitEof, Abandon, Server,
         Receive, Store, CommandEnds, TellEnd, TellEof, TellClose, CommandFails, LinkFails,
         vars, sending
<1>2. written \in Nat /\ done \in Nat
  BY ChannelAssumption DEF SInv, Counted
<1>3. CASE WriteBegins
  <2>1. pc = "caller" /\ pc' = "write" /\ done' = 0 /\ written' = written
    BY <1>3 DEF WriteBegins, Goto
  <2> QED
    BY <1>1, <1>2, <2>1, Unseen, OutcomeFacts, OutcomeFactsNext DEF TakenByCalls
<1>4. CASE WritePiece
  <2>1. PICK piece \in 1..Room : done' = done + piece /\ written' = written + piece
    BY <1>4 DEF WritePiece
  <2>2. pc = "write" /\ pc' = "write" /\ piece \in Int
    BY <1>4 DEF WritePiece
  <2>3. written' - done' = written - done
    BY <1>2, <2>1, <2>2
  <2> QED
    BY <1>1, <2>2, <2>3, Unseen, OutcomeFacts, OutcomeFactsNext DEF TakenByCalls
<1>5. CASE \/ (Connect /\ pc' = "auth") \/ TryMethod \/ (New /\ pc' = "caller")
           \/ Flush \/ WaitEof \/ Abandon
  <2>1. /\ pc \notin {"write", "failed", "refused", "flushed"}
        /\ pc' \notin {"write", "failed", "refused", "flushed"}
        /\ written' = written
    BY <1>5 DEF Connect, TryMethod, New, Flush, WaitEof, AfterWaitEof, Abandon, Goto, sending
  <2> QED
    BY <1>1, <2>1, Unseen, OutcomeFacts, OutcomeFactsNext DEF TakenByCalls
<1>6. CASE Server \/ TellEof \/ CommandFails \/ LinkFails \/ UNCHANGED vars
  <2>1. UNCHANGED <<pc, sending>>
    BY <1>6 DEF Server, Receive, Store, CommandEnds, TellEnd, TellEof, TellClose,
                CommandFails, LinkFails, vars
  <2>2. UNCHANGED TakenByCalls
    BY <2>1 DEF TakenByCalls, sending
  <2>3. UNCHANGED CallOutcome
    BY <2>1 DEF CallOutcome
  <2> QED
    BY <1>1, <2>2, <2>3, Unseen
<1> QED
  BY <1>3, <1>4, <1>5, <1>6

(***************************************************************************)
(* The session, the pieces of write_all, the window and the wait for the   *)
(* command, cut off anywhere, have the outcomes of one call each that      *)
(* stream_to is modelled with.                                             *)
(***************************************************************************)
THEOREM ImplementsCalls == Spec => ImplementsSinkCalls
<1>1. Init => Calls!CallsInit
  <2> SUFFICES ASSUME Init PROVE Calls!CallsInit
    OBVIOUS
  <2>1. TakenByCalls = 0 /\ CallOutcome = "open" /\ told = 0
    BY OutcomeFacts DEF Init, TakenByCalls
  <2> QED
    BY <2>1 DEF Calls!CallsInit, Calls!SinkKinds, TakenByCalls, CallOutcome
<1>2. SInv /\ [Next]_vars => [Calls!CallsNext]_(Calls!callvars)
  <2> SUFFICES ASSUME SInv, [Next]_vars PROVE Calls!CallsNext \/ UNCHANGED Calls!callvars
    OBVIOUS
  <2>1. CASE WriteReturns \/ WriteFails
    BY <2>1, WriteIsCall DEF Calls!CallsNext
  <2>2. CASE \/ (Connect /\ pc' # "auth") \/ NoMethodLeft \/ (New /\ pc' # "caller")
             \/ WaitClose \/ FlushFails
    <3>1. /\ pc \notin {"write", "failed", "refused", "flushed"}
          /\ pc' \in {"failed", "refused", "flushed"}
          /\ UNCHANGED <<written, told>>
      BY <2>2 DEF Connect, NoMethodLeft, New, WaitClose, FlushFails, Fail, Goto, sending
    <3> QED
      BY <3>1, EndIsCall DEF Calls!CallsNext
  <2>3. CASE ~(WriteReturns \/ WriteFails)
             /\ ~(\/ (Connect /\ pc' # "auth") \/ NoMethodLeft \/ (New /\ pc' # "caller")
                  \/ WaitClose \/ FlushFails)
    BY <2>3, OtherStepsUnseen DEF Next, Client, Over
  <2> QED
    BY <2>1, <2>2, <2>3
<1> QED
  BY <1>1, <1>2, Inductive, PTL DEF Spec, ImplementsSinkCalls, Calls!CallsSpec
=============================================================================
