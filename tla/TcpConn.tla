------------------------------- MODULE TcpConn -------------------------------
(***************************************************************************)
(* One TCP connection of a client through the tunnel (handleTCPConn).      *)
(* While the handler dials, a goroutine of its own, the peeker, waits up to*)
(* 200 ms for the first bytes, so that a remote that still has to shake    *)
(* hands can take them along; the handler then relays.  Both read through  *)
(* one buffer and set one read deadline.                                   *)
(***************************************************************************)
EXTENDS Integers, Sequences

CONSTANTS
    MaxBytes,       \* bound: bytes the client sends
    MaxAttempts     \* 10 in retry

ASSUME TcpAssumption == MaxBytes \in Nat /\ MaxAttempts \in Nat \ {0}

VARIABLES
    sent, hungUp,   \* bytes the client has sent, and whether it closed
    fetched,        \* bytes read from the socket
    taken,          \* bytes that have left the buffer
    deadline,       \* of reads from the client: "none", "soon" or "past"
    peekMutex,      \* who holds it
    peeker,
    handler,
    attempt,        \* dials that have failed
    given,          \* bytes the remote of this attempt got
    cutShort        \* the relay ended because of a deadline

vars == <<sent, hungUp, fetched, taken, deadline, peekMutex, peeker, handler,
          attempt, given, cutShort>>
clientVars == <<sent, hungUp>>
bufferVars == <<fetched, taken>>
handlerVars == <<handler, attempt, given, cutShort>>

TypeOK ==
    /\ sent \in 0 .. MaxBytes /\ hungUp \in BOOLEAN
    /\ fetched \in 0 .. sent /\ taken \in 0 .. fetched
    /\ deadline \in {"none", "soon", "past"}
    /\ peekMutex \in {"free", "peeker", "handler"}
    /\ peeker \in {"starts", "peeks", "peeked", "unlocks", "over"}
    /\ handler \in {"dials", "locks", "writes", "tracks", "waits", "resets", "relays", "over"}
    /\ attempt \in 0 .. MaxAttempts
    /\ given \in Seq(1 .. MaxBytes)
    /\ cutShort \in BOOLEAN

(* The sniffer may have peeked before; then there is no peeker. *)
Init ==
    /\ sent \in 0 .. MaxBytes /\ hungUp = FALSE
    /\ taken = 0 /\ deadline = "none"
    /\ \/ fetched = 0 /\ peeker = "starts" /\ peekMutex = "peeker"
       \/ fetched \in 0 .. sent /\ peeker = "over" /\ peekMutex = "free"
    /\ handler = "dials" /\ attempt = 0 /\ given = <<>> /\ cutShort = FALSE

(* Bytes i, ..., j of the client. *)
Bytes(i, j) == [k \in 1 .. (j - i + 1) |-> i + k - 1]

-----------------------------------------------------------------------------
ClientSends ==
    /\ ~hungUp /\ sent < MaxBytes
    /\ sent' = sent + 1
    /\ UNCHANGED <<hungUp, bufferVars, deadline, peekMutex, peeker, handlerVars>>

ClientHangsUp ==
    /\ ~hungUp
    /\ hungUp' = TRUE
    /\ UNCHANGED <<sent, bufferVars, deadline, peekMutex, peeker, handlerVars>>

DeadlinePasses ==
    /\ deadline = "soon"
    /\ deadline' = "past"
    /\ UNCHANGED <<clientVars, bufferVars, peekMutex, peeker, handlerVars>>

-----------------------------------------------------------------------------
(* The peeker *)

(* Mutant: the peeker waits without a deadline. *)
PeekForever ==
    /\ peeker = "starts"
    /\ peeker' = "peeks"
    /\ UNCHANGED <<clientVars, bufferVars, deadline, peekMutex, handlerVars>>

StartPeek ==
    /\ peeker = "starts"
    /\ deadline' = "soon" /\ peeker' = "peeks"
    /\ UNCHANGED <<clientVars, bufferVars, peekMutex, handlerVars>>

(* Peek(1): what is buffered, or one read, which an expired deadline and the*)
(* end of the connection make fail.                                         *)
Peek ==
    /\ peeker = "peeks"
    /\ \/ /\ taken < fetched \/ deadline = "past" \/ hungUp
          /\ UNCHANGED fetched
       \/ /\ taken = fetched /\ deadline # "past" /\ fetched < sent
          /\ fetched' \in fetched + 1 .. sent
    /\ peeker' = "peeked"
    /\ UNCHANGED <<clientVars, taken, deadline, peekMutex, handlerVars>>

EndPeek ==
    /\ peeker = "peeked"
    /\ deadline' = "none" /\ peeker' = "unlocks"
    /\ UNCHANGED <<clientVars, bufferVars, peekMutex, handlerVars>>

UnlockPeek ==
    /\ peeker = "unlocks"
    /\ peekMutex' = "free" /\ peeker' = "over"
    /\ UNCHANGED <<clientVars, bufferVars, deadline, handlerVars>>

-----------------------------------------------------------------------------
(* The handler: retry *)

(* The connection is closed when the handler returns. *)
Returns == handler' = "over" /\ hungUp' = TRUE

(* The next attempt, unless the error is final, all are used up or the time *)
(* for all of them is.                                                      *)
Retry ==
    /\ attempt' = attempt + 1 /\ given' = <<>>
    /\ \/ attempt + 1 < MaxAttempts /\ handler' = "dials" /\ UNCHANGED hungUp
       \/ Returns

DialFails ==
    /\ handler = "dials"
    /\ Retry
    /\ UNCHANGED <<sent, bufferVars, deadline, peekMutex, peeker, cutShort>>

(* NeedHandshake decides where the handler goes on. *)
Dialled ==
    /\ handler = "dials"
    /\ handler' \in {"locks", "tracks"}
    /\ UNCHANGED <<clientVars, bufferVars, deadline, peekMutex, peeker, attempt, given, cutShort>>

LockForHandshake ==
    /\ handler = "locks" /\ peekMutex = "free"
    /\ peekMutex' = "handler" /\ handler' = "writes"
    /\ UNCHANGED <<clientVars, bufferVars, deadline, peeker, attempt, given, cutShort>>

(* The bytes leave the buffer when they are written, so that the remote of  *)
(* the next attempt gets them too.                                          *)
WritePeeked ==
    /\ handler = "writes"
    /\ given' = given \o Bytes(taken + 1, fetched)
    /\ taken' = fetched
    /\ peekMutex' = "free" /\ handler' = "tracks"
    /\ UNCHANGED <<clientVars, fetched, deadline, peeker, attempt, cutShort>>

(* Mutant: what was written to a remote that failed is discarded as well. *)
DiscardAnyway ==
    /\ handler = "writes"
    /\ Retry
    /\ taken' = fetched
    /\ peekMutex' = "free"
    /\ UNCHANGED <<sent, fetched, deadline, peeker, cutShort>>

WriteFails ==
    /\ handler = "writes"
    /\ Retry
    /\ peekMutex' = "free"
    /\ UNCHANGED <<sent, bufferVars, deadline, peeker, cutShort>>

-----------------------------------------------------------------------------
(* The handler: relay *)

StopPeek ==
    /\ handler = "tracks"
    /\ deadline' = "past" /\ handler' = "waits"
    /\ UNCHANGED <<clientVars, bufferVars, peekMutex, peeker, attempt, given, cutShort>>

LockForRelay ==
    /\ handler = "waits" /\ peekMutex = "free"
    /\ peekMutex' = "handler" /\ handler' = "resets"
    /\ UNCHANGED <<clientVars, bufferVars, deadline, peeker, attempt, given, cutShort>>

ResetDeadline ==
    /\ handler = "resets"
    /\ deadline' = "none" /\ handler' = "relays"
    /\ UNCHANGED <<clientVars, bufferVars, peekMutex, peeker, attempt, given, cutShort>>

(* The buffer first, then straight from the socket. *)
Relay ==
    /\ handler = "relays"
    /\ \/ taken < fetched /\ taken' = fetched /\ UNCHANGED fetched
       \/ /\ taken = fetched /\ deadline # "past"
          /\ fetched' \in fetched + 1 .. sent /\ taken' = fetched'
    /\ given' = given \o Bytes(taken + 1, taken')
    /\ UNCHANGED <<clientVars, deadline, peekMutex, peeker, handler, attempt, cutShort>>

(* A read that fails ends the relay; so does the remote, at any time. *)
RelayEnds ==
    /\ handler = "relays"
    /\ Returns
    /\ cutShort' = (deadline = "past" /\ taken = fetched)
    /\ peekMutex' = "free"
    /\ UNCHANGED <<sent, bufferVars, deadline, peeker, attempt, given>>

PeekerNext == StartPeek \/ Peek \/ EndPeek \/ UnlockPeek
HandlerNext ==
    \/ DialFails \/ Dialled
    \/ LockForHandshake \/ WritePeeked \/ WriteFails
    \/ StopPeek \/ LockForRelay \/ ResetDeadline
RelayNext == Relay \/ RelayEnds
Next == ClientSends \/ ClientHangsUp \/ DeadlinePasses \/ PeekerNext \/ HandlerNext \/ RelayNext

Spec == Init /\ [][Next]_vars

-----------------------------------------------------------------------------
(* The remote that is relayed to has got every byte that left the buffer,   *)
(* once and in order, however many remotes failed with the first bytes; the *)
(* reader of the connection is never used by both goroutines; and no        *)
(* deadline of theirs ends the relay.                                       *)
ClientIsHeard ==
    /\ handler = "relays" => given = Bytes(1, taken)
    /\ handler \in {"writes", "relays"} => peeker \notin {"peeks", "peeked"}
    /\ ~cutShort

(* A client that waits for the server to speak first is connected all the   *)
(* same: nothing waits for bytes it does not send.                          *)
ServerMaySpeakFirst == <>(handler \in {"relays", "over"})
=============================================================================
