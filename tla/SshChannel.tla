----------------------------- MODULE SshChannel -----------------------------
(***************************************************************************)
(* The SSH destination (src/ssh_sink.rs): create_ssh_session, SshSink::new *)
(* or new_cat, write and flush, with the other end of the connection: the  *)
(* server that accepts credentials and closes the channel, and the command *)
(* (dd or cat) that reads its standard input and stores what it reads.     *)
(*                                                                         *)
(* The command may fail at any time, may close its output long before it   *)
(* ends (dd does when it opens the output file), and ends well only when   *)
(* it has stored all it was given.  The connection may break, or go silent *)
(* so that nobody is told.                                                 *)
(***************************************************************************)
EXTENDS Sinks, Sequences

CONSTANTS
  Lengths,     \* the lengths write may be called with
  ImageSize,   \* how many sectors the caller writes at most
  Window       \* how many sectors fit between write and the command

ASSUME ChannelAssumption ==
  Lengths \subseteq Nat \ {0} /\ ImageSize \in Nat /\ Window \in Nat \ {0}

(* The order create_ssh_session tries its methods in. *)
Methods == <<"agent", "id_ed25519", "id_rsa", "password">>

MethodSet == {Methods[i] : i \in DOMAIN Methods}

VARIABLES
  own,          \* the methods the user has anything for; never changes
  accepted,     \* the methods the server lets the user in with; never changes
  pc,           \* where the client is
  next,         \* the method tried next
  offered,      \* the methods the server was asked with
  link,         \* "up", "broken" or "silent"
  asked,        \* data.len() of the current write
  done,         \* what write_all has handed over of it
  written,      \* what the channel has taken in all
  told,         \* the sum of the counts write has returned
  eof_sent,     \* the command's input was closed
  command,      \* "none", "running" or "ended"
  status,       \* its exit status, 0 for success
  received,     \* what has left the window, for the command or for nothing
  stored,       \* what the command has stored
  remote_eof,   \* the client has been told that the command closed its output
  remote_close  \* the client has been told that the channel is closed

session == <<own, accepted, next, offered>>
sending == <<asked, done, written, told, eof_sent>>
told_client == <<remote_eof, remote_close>>
remote  == <<command, status, received, stored>>
vars    == <<session, pc, link, sending, remote, told_client>>

Goto(l) == pc' = l

Init ==
  /\ own \in SUBSET MethodSet
  /\ accepted \in SUBSET own
  /\ pc = "connect"
  /\ next = 1
  /\ offered = {}
  /\ link = "up"
  /\ asked = 0 /\ done = 0 /\ written = 0 /\ told = 0
  /\ eof_sent = FALSE
  /\ command = "none" /\ status = 0
  /\ received = 0 /\ stored = 0
  /\ remote_eof = FALSE /\ remote_close = FALSE

-----------------------------------------------------------------------------
(* create_ssh_session *)

Connect ==
  /\ pc = "connect"
  /\ Goto("auth") \/ Goto("failed")
  /\ UNCHANGED <<session, link, sending, remote, told_client>>

(* Mutant: the loop over the key files ends with the first one, accepted or not. *)
NextAfterFirstKey == IF Methods[next] = "id_ed25519" THEN 4 ELSE next + 1

NextMethod == next + 1

(* A method is tried when there is something to try; any error is taken for a refusal. *)
TryMethod ==
  /\ pc = "auth"
  /\ next \in DOMAIN Methods
  /\ Methods[next] \in own => link # "silent"
  /\ offered' = offered \cup ({Methods[next]} \cap own)
  /\ \/ /\ Methods[next] \in accepted
        /\ link = "up"
        /\ Goto("session")
        /\ UNCHANGED next
     \/ /\ Methods[next] \notin accepted \/ link = "broken"
        /\ next' = NextMethod
        /\ UNCHANGED pc
  /\ UNCHANGED <<own, accepted, link, sending, remote, told_client>>

NoMethodLeft ==
  /\ pc = "auth"
  /\ next \notin DOMAIN Methods
  /\ Goto("refused")
  /\ UNCHANGED <<session, link, sending, remote, told_client>>

(* channel_session and exec: the command runs on the other side. *)
New ==
  /\ pc = "session"
  /\ \/ /\ link = "up"
        /\ command' = "running"
        /\ Goto("caller")
        /\ UNCHANGED <<status, received, stored>>
     \/ Goto("failed") /\ UNCHANGED remote
  /\ UNCHANGED <<session, link, sending, told_client>>

-----------------------------------------------------------------------------
(* write and flush *)

WriteBegins ==
  /\ pc = "caller"
  /\ asked' \in {len \in Lengths : written + len <= ImageSize}
  /\ done' = 0
  /\ Goto("write")
  /\ UNCHANGED <<session, link, written, told, eof_sent, remote, told_client>>

Room == Window - (written - received)

(* write_all hands over what the window has room for, and waits for room. *)
WritePiece ==
  /\ pc = "write"
  /\ link # "broken"
  /\ \E piece \in 1..Room :
        /\ done + piece <= asked
        /\ done' = done + piece
        /\ written' = written + piece
  /\ UNCHANGED <<session, pc, link, asked, told, eof_sent, remote, told_client>>

(* Mutant: one Channel::write in place of write_all, and data.len() all the same. *)
HandedOverSome == done > 0

HandedOver == done = asked

WriteReturns ==
  /\ pc = "write"
  /\ HandedOver
  /\ told' = told + asked
  /\ Goto("caller")
  /\ UNCHANGED <<session, link, asked, done, written, eof_sent, remote, told_client>>

Fail(where) ==
  /\ pc \in where
  /\ Goto("failed")
  /\ UNCHANGED <<session, link, sending, remote, told_client>>

(* What write_all finds when it can go no further: the connection, or the channel, is gone. *)
WriteFails ==
  /\ link = "broken" \/ remote_close
  /\ Fail({"write"})

(* Mutant: flush leaves the command's input open. *)
KeepInputOpen == UNCHANGED eof_sent

CloseInput == eof_sent' = TRUE

(* Channel::flush and send_eof. *)
Flush ==
  /\ pc = "caller"
  /\ link # "broken"
  /\ CloseInput
  /\ Goto("wait_eof")
  /\ UNCHANGED <<session, link, asked, done, written, told, remote, told_client>>

(* Mutant: flush returns when the command has closed its output. *)
NoWaitClose == "flushed"

AfterWaitEof == "wait_close"

WaitEof ==
  /\ pc = "wait_eof"
  /\ remote_eof
  /\ Goto(AfterWaitEof)
  /\ UNCHANGED <<session, link, sending, remote, told_client>>

WaitClose ==
  /\ pc = "wait_close"
  /\ remote_close
  /\ Goto("flushed")
  /\ UNCHANGED <<session, link, sending, remote, told_client>>

FlushFails ==
  /\ link = "broken"
  /\ Fail({"caller", "wait_eof", "wait_close"})

(* stream_to returns early on another error: the channel is dropped, which closes it. *)
Abandon ==
  /\ pc = "caller"
  /\ eof_sent' = TRUE
  /\ Goto("dropped")
  /\ UNCHANGED <<session, link, asked, done, written, told, remote, told_client>>

Client ==
  \/ Connect \/ TryMethod \/ NoMethodLeft \/ New
  \/ WriteBegins \/ WritePiece \/ WriteReturns \/ WriteFails
  \/ Flush \/ WaitEof \/ WaitClose \/ FlushFails \/ Abandon

-----------------------------------------------------------------------------
(* The other side *)

Receive ==
  /\ link = "up"
  /\ command # "none"
  /\ received < written
  /\ received' = received + 1
  /\ UNCHANGED <<session, pc, link, sending, command, status, stored, told_client>>

Store ==
  /\ command = "running"
  /\ stored < received
  /\ stored' = stored + 1
  /\ UNCHANGED <<session, pc, link, sending, command, status, received, told_client>>

InputEnded == link # "up" \/ (eof_sent /\ received = written)

CommandEnds ==
  /\ command = "running"
  /\ InputEnded
  /\ stored = received
  /\ command' = "ended"
  /\ UNCHANGED <<session, pc, link, sending, status, received, stored, told_client>>

CommandFails ==
  /\ command = "running"
  /\ command' = "ended"
  /\ status' = 1
  /\ UNCHANGED <<session, pc, link, sending, received, stored, told_client>>

TellEof ==
  /\ link = "up"
  /\ command # "none"
  /\ ~remote_eof
  /\ remote_eof' = TRUE
  /\ UNCHANGED <<session, pc, link, sending, remote, remote_close>>

TellClose ==
  /\ link = "up"
  /\ command = "ended"
  /\ remote_eof
  /\ ~remote_close
  /\ remote_close' = TRUE
  /\ UNCHANGED <<session, pc, link, sending, remote, remote_eof>>

(* A connection goes silent; one that is silent may be found broken. *)
LinkFails ==
  /\ \/ link = "up" /\ link' \in {"broken", "silent"}
     \/ link = "silent" /\ link' = "broken"
  /\ UNCHANGED <<session, pc, sending, remote, told_client>>

(* What must happen some time on the other side of a connection that works. *)
TellEnd == command = "ended" /\ (TellEof \/ TellClose)

Server == Receive \/ Store \/ CommandEnds \/ TellEnd

Answered == pc \in {"failed", "refused", "flushed", "dropped"}

Over == Answered /\ UNCHANGED vars

Next == Client \/ Server \/ TellEof \/ CommandFails \/ LinkFails \/ Over

Spec == Init /\ [][Next]_vars /\ WF_vars(Client) /\ WF_vars(Server)

-----------------------------------------------------------------------------
(***************************************************************************)
(* The range of every variable: the channel holds no more than its window, *)
(* the command has stored no more than what was sent.                      *)
(***************************************************************************)
TypeOK ==
  /\ own \subseteq MethodSet /\ accepted \subseteq own /\ offered \subseteq own
  /\ pc \in {"connect", "auth", "session", "caller", "write", "wait_eof", "wait_close",
             "failed", "refused", "flushed", "dropped"}
  /\ next \in 1..(Len(Methods) + 1)
  /\ link \in {"up", "broken", "silent"}
  /\ asked \in Lengths \cup {0}
  /\ done \in 0..asked
  /\ written \in 0..ImageSize
  /\ told \in 0..written
  /\ received \in 0..written /\ written - received <= Window
  /\ stored \in 0..received
  /\ command \in {"none", "running", "ended"}
  /\ status \in {0, 1}
  /\ eof_sent \in BOOLEAN /\ remote_eof \in BOOLEAN /\ remote_close \in BOOLEAN

(***************************************************************************)
(* "Tries agent first, then ~/.ssh/id_ed25519 and id_rsa, then password if *)
(* provided" (src/ssh_sink.rs:11): authentication fails only when the      *)
(* server accepts none of what the user has, and the password leaves the   *)
(* machine only when nothing else is accepted.  A connection that breaks   *)
(* meanwhile is taken for refusals.                                        *)
(***************************************************************************)
EveryMethodTried ==
  link = "up" =>
    /\ pc = "refused" => offered = own /\ accepted = {}
    /\ "password" \in offered => accepted \subseteq {"password"}

(***************************************************************************)
(* flush answers Ok only after the command has ended, although it may have *)
(* closed its output long before; if the command succeeded, everything     *)
(* that was written is stored by then.                                     *)
(***************************************************************************)
FlushWaitsForCommand ==
  pc = "flushed" => command = "ended" /\ (status = 0 => stored = told /\ told = written)

(***************************************************************************)
(* As long as the connection does not go silent, write and flush return:   *)
(* with a full window, with a command that has failed, or with one that    *)
(* waits for the end of its input.  There is no timeout for the other case. *)
(***************************************************************************)
Waiting == pc \in {"write", "wait_eof", "wait_close"}

CallsReturn == Waiting ~> ~Waiting \/ link = "silent"

(***************************************************************************)
(* write_all in pieces, blocked by the window and cut off anywhere, and    *)
(* flush have the outcomes of one call that stream_to is modelled with.    *)
(***************************************************************************)
Calls == INSTANCE SinkCalls WITH
  sort    <- "ssh",
  taken   <- IF pc = "write" THEN written - done ELSE written,
  outcome <- CASE pc \in {"failed", "refused"} -> "failed"
               [] pc = "flushed"               -> "flushed"
               [] OTHER                        -> "open"

ImplementsSinkCalls == Calls!CallsSpec

(***************************************************************************)
(* "Streams disk image to a remote system via SSH" (src/ssh_sink.rs:53):   *)
(* when flush answers Ok, and with it the clone, the image is there.       *)
(***************************************************************************)
FlushedIsStored == pc = "flushed" => stored = written
=============================================================================
