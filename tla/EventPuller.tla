----------------------------- MODULE EventPuller -----------------------------
(***************************************************************************)
(* One of the three event streams of ClashEventPuller.kt (they differ in   *)
(* the names of their fields): the field that holds its socket, the thread *)
(* each start creates, and the handler in the child that feeds the stream  *)
(* (handlePullTrafficEvent and its kin in server/event.go).                *)
(*                                                                         *)
(* Thread t owns connection t.  start looks at the field in the caller,    *)
(* the thread connects later and looks again under the lock; the loser of  *)
(* the race closes its own socket, but like every thread it clears the     *)
(* field when it ends.  stop writes a byte, which makes the child close    *)
(* its end, because closing a socket does not wake its reader.             *)
(***************************************************************************)
EXTENDS Integers

CONSTANT MaxThreads     \* bound: calls of start that create a thread, a natural

VARIABLES
    slot,       \* owner of the socket in the field speedSocket, 0 for null
    thread,     \* life of each thread
    client,     \* its end of the connection
    server,     \* the handler of the connection in the child
    told,       \* the handler's reader got a byte or the end of the stream
    child       \* the child runs

vars == <<slot, thread, client, server, told, child>>
Threads == 1 .. MaxThreads

(* Type invariant: in particular a connection has both ends or neither.      *)
TypeOK ==
    /\ slot \in 0 .. MaxThreads
    /\ thread \in [Threads -> {"none", "connecting", "connected", "pulling", "ending", "done"}]
    /\ client \in [Threads -> {"none", "open", "closed"}]
    /\ server \in [Threads -> {"none", "serving", "gone"}]
    /\ told \in [Threads -> BOOLEAN]
    /\ child \in BOOLEAN
    /\ \A t \in Threads : client[t] = "none" <=> server[t] = "none"

Init ==
    /\ slot = 0
    /\ thread = [t \in Threads |-> "none"]
    /\ client = [t \in Threads |-> "none"]
    /\ server = [t \in Threads |-> "none"]
    /\ told = [t \in Threads |-> FALSE]
    /\ child = TRUE

-----------------------------------------------------------------------------
(* Calls of the event handler, which acquires and releases the event.  The  *)
(* process status it asks first may lag behind the child.                   *)

(* With a socket in the field startSpeedPull returns at once. *)
StartSpeedPull(t) ==
    /\ slot = 0
    /\ thread[t] = "none"
    /\ \A u \in 1 .. t - 1 : thread[u] # "none"
    /\ thread' = [thread EXCEPT ![t] = "connecting"]
    /\ UNCHANGED <<slot, client, server, told, child>>

(* Mutant: the socket is closed and the byte forgotten.  The reader still   *)
(* blocked on it keeps the connection up.                                   *)
StopWithoutByte ==
    /\ slot # 0
    /\ client[slot] = "open"
    /\ client' = [client EXCEPT ![slot] = "closed"]
    /\ UNCHANGED <<slot, thread, server, told, child>>

(* closeSilent: a write that fails skips the close. *)
StopSpeedPull ==
    /\ slot # 0
    /\ client[slot] = "open"
    /\ server[slot] = "serving"
    /\ told' = [told EXCEPT ![slot] = TRUE]
    /\ client' = [client EXCEPT ![slot] = "closed"]
    /\ UNCHANGED <<slot, thread, server, child>>

-----------------------------------------------------------------------------
(* The thread: pullSpeedEvent *)

Connect(t) ==
    /\ thread[t] = "connecting"
    /\ IF child
         THEN /\ thread' = [thread EXCEPT ![t] = "connected"]
              /\ client' = [client EXCEPT ![t] = "open"]
              /\ server' = [server EXCEPT ![t] = "serving"]
         ELSE /\ thread' = [thread EXCEPT ![t] = "ending"]
              /\ UNCHANGED <<client, server>>
    /\ UNCHANGED <<slot, told, child>>

Initial(t) ==
    /\ thread[t] = "connected"
    /\ thread' = [thread EXCEPT ![t] = "pulling"]
    /\ IF slot # 0
         THEN /\ client' = [client EXCEPT ![t] = "closed"]
              /\ told' = [told EXCEPT ![t] = TRUE]
              /\ UNCHANGED slot
         ELSE /\ slot' = t
              /\ UNCHANGED <<client, told>>
    /\ UNCHANGED <<server, child>>

(* The stream ends, or the thread finds its own socket closed when it next  *)
(* reads - which, as long as it is inside a read, may be never.             *)
ReadFails(t) ==
    /\ thread[t] = "pulling"
    /\ server[t] = "gone" \/ client[t] = "closed"
    /\ thread' = [thread EXCEPT ![t] = "ending"]
    /\ UNCHANGED <<slot, client, server, told, child>>

Clear(t) ==
    /\ thread[t] = "ending"
    /\ thread' = [thread EXCEPT ![t] = "done"]
    /\ slot' = 0
    /\ UNCHANGED <<client, server, told, child>>

-----------------------------------------------------------------------------
(* The child *)

ServerExit(t) ==
    /\ server[t] = "serving" /\ told[t]
    /\ server' = [server EXCEPT ![t] = "gone"]
    /\ UNCHANGED <<slot, thread, client, told, child>>

ChildDies ==
    /\ child
    /\ child' = FALSE
    /\ server' = [t \in Threads |-> IF server[t] = "serving" THEN "gone" ELSE server[t]]
    /\ UNCHANGED <<slot, thread, client, told>>

-----------------------------------------------------------------------------
Next ==
    \/ \E t \in Threads :
         \/ StartSpeedPull(t) \/ Connect(t) \/ Initial(t)
         \/ ReadFails(t) \/ Clear(t) \/ ServerExit(t)
    \/ StopSpeedPull
    \/ ChildDies

(* A read is only obliged to fail once the other end is closed.             *)
Fairness ==
    \A t \in Threads :
      /\ WF_vars(Connect(t) \/ Initial(t) \/ Clear(t) \/ ServerExit(t))
      /\ WF_vars(ReadFails(t) /\ server[t] = "gone")

Spec == Init /\ [][Next]_vars /\ Fairness

-----------------------------------------------------------------------------
(* Properties *)

(* The socket in the field belongs to a thread that will still clear it: a  *)
(* dead stream never blocks the starts that follow.  Of two threads that    *)
(* raced to connect only one gets the field, and its socket is never        *)
(* replaced by another, which stop could then not reach.                    *)
SlotIsSound ==
    [][/\ slot' # 0 => thread'[slot'] \in {"pulling", "ending"}
       /\ slot # 0 /\ slot' # 0 => slot' = slot]_vars

(* A stop that found its socket, and the loss of the race, end the thread   *)
(* and the handler in the child; so does the death of the child, after      *)
(* which the field is free for the next one unless a new start takes it.    *)
StreamsEnd ==
    \A t \in Threads :
      /\ client[t] = "closed" ~> thread[t] = "done" /\ server[t] = "gone"
      /\ ~child /\ thread[t] # "none" ~> thread[t] = "done" /\ slot # t
=============================================================================
