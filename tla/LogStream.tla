------------------------------ MODULE LogStream ------------------------------
(***************************************************************************)
(* The log of the core and its subscribers: log/log.go over                *)
(* common/observable, with the two kinds of consumers there are.           *)
(*                                                                         *)
(* Every log call of the core sends on the unbuffered channel logCh; one   *)
(* goroutine receives and, holding the mutex of the observable, sends the  *)
(* event into the buffered channel of every subscriber.  A handler of the  *)
(* control server (handlePullLogEvent) receives from its channel itself    *)
(* and unsubscribes when it returns; a request of the REST API (getLogs of *)
(* hub/route/server.go) has a goroutine that drains the channel until it   *)
(* is closed.                                                              *)
(*                                                                         *)
(* logCh is never closed, so the end of the source is left out.            *)
(***************************************************************************)
EXTENDS Integers, Sequences

CONSTANTS
    Loggers,    \* goroutines of the core that log
    Subs,       \* connections that subscribe, each once
    Drained,    \* those of them that belong to the REST API
    Cap,        \* capacity of a subscriber's buffer (200)
    MaxLogs     \* bound: events in all

ASSUME SubsAssumption == Drained \subseteq Subs
ASSUME CapAssumption == Cap \in Nat \ {0} /\ MaxLogs \in Nat

VARIABLES
    logger,     \* each logger: idle, or blocked in its send
    process,    \* the goroutine of the observable; it holds the mutex while
                \* it is "emitting"
    item,       \* number of the event it received last
    remaining,  \* subscribers the event has not been sent to
    listener,   \* the map Observable.listener
    buffer,     \* contents of each subscriber's channel
    closed,     \* the subscribers whose channel is closed
    handler,    \* the goroutine that writes to each client
    seen,       \* the last event each consumer received, 0 for none
    exit        \* the goroutine that waits for the client's byte

vars == <<logger, process, item, remaining, listener, buffer, closed, handler, seen, exit>>
obsVars == <<process, item, remaining, listener, closed>>

(* Type invariant: in particular no buffer exceeds its capacity.            *)
TypeOK ==
    /\ logger \in [Loggers -> {"idle", "sending"}]
    /\ process \in {"idle", "locking", "emitting"}
    /\ item \in 0 .. MaxLogs
    /\ remaining \in SUBSET Subs
    /\ listener \in SUBSET Subs
    /\ buffer \in [Subs -> Seq(Nat)]
    /\ \A s \in Subs : Len(buffer[s]) <= Cap
    /\ closed \in SUBSET Subs
    /\ handler \in [Subs -> {"none", "waiting", "writing", "leaving", "done"}]
    /\ seen \in [Subs -> Nat]
    /\ exit \in [Subs -> {"reading", "sending", "done"}]

Init ==
    /\ logger = [l \in Loggers |-> "idle"]
    /\ process = "idle"
    /\ item = 0
    /\ remaining = {}
    /\ listener = {}
    /\ buffer = [s \in Subs |-> <<>>]
    /\ closed = {}
    /\ handler = [s \in Subs |-> "none"]
    /\ seen = [s \in Subs |-> 0]
    /\ exit = [s \in Subs |-> "reading"]

-----------------------------------------------------------------------------
(* log.Infoln and its kin *)
Log(l) ==
    /\ logger[l] = "idle"
    /\ logger' = [logger EXCEPT ![l] = "sending"]
    /\ UNCHANGED <<obsVars, buffer, handler, seen, exit>>

-----------------------------------------------------------------------------
(* Observable.process *)

Receive(l) ==
    /\ logger[l] = "sending"
    /\ process = "idle"
    /\ item < MaxLogs
    /\ logger' = [logger EXCEPT ![l] = "idle"]
    /\ process' = "locking"
    /\ item' = item + 1
    /\ UNCHANGED <<remaining, listener, buffer, closed, handler, seen, exit>>

Lock ==
    /\ process = "locking"
    /\ process' = "emitting"
    /\ remaining' = listener
    /\ UNCHANGED <<logger, item, listener, buffer, closed, handler, seen, exit>>

(* Mutant: a full buffer makes Emit skip the subscriber. *)
EmitOrDrop(s) ==
    /\ process = "emitting"
    /\ s \in remaining
    /\ buffer' = IF Len(buffer[s]) < Cap THEN [buffer EXCEPT ![s] = Append(@, item)]
                                         ELSE buffer
    /\ remaining' = remaining \ {s}
    /\ UNCHANGED <<logger, process, item, listener, closed, handler, seen, exit>>

(* Subscriber.Emit: the send blocks while the buffer is full. *)
Emit(s) ==
    /\ process = "emitting"
    /\ s \in remaining
    /\ Len(buffer[s]) < Cap
    /\ buffer' = [buffer EXCEPT ![s] = Append(@, item)]
    /\ remaining' = remaining \ {s}
    /\ UNCHANGED <<logger, process, item, listener, closed, handler, seen, exit>>

Unlock ==
    /\ process = "emitting"
    /\ remaining = {}
    /\ process' = "idle"
    /\ UNCHANGED <<logger, item, remaining, listener, buffer, closed, handler, seen, exit>>

-----------------------------------------------------------------------------
(* Subscribe and UnSubscribe, each inside the mutex *)

Subscribe(s) ==
    /\ handler[s] = "none"
    /\ process # "emitting"
    /\ listener' = listener \cup {s}
    /\ handler' = [handler EXCEPT ![s] = "waiting"]
    /\ UNCHANGED <<logger, process, item, remaining, buffer, closed, seen, exit>>

(* Mutant: without the mutex. *)
UnSubscribeUnlocked(s) ==
    /\ handler[s] = "leaving"
    /\ listener' = listener \ {s}
    /\ closed' = closed \cup {s}
    /\ handler' = [handler EXCEPT ![s] = "done"]
    /\ UNCHANGED <<logger, process, item, remaining, buffer, seen, exit>>

UnSubscribe(s) ==
    /\ handler[s] = "leaving"
    /\ process # "emitting"
    /\ listener' = listener \ {s}
    /\ closed' = closed \cup {s}
    /\ handler' = [handler EXCEPT ![s] = "done"]
    /\ UNCHANGED <<logger, process, item, remaining, buffer, seen, exit>>

-----------------------------------------------------------------------------
(* The consumers *)

Pop(s) ==
    /\ buffer[s] # <<>>
    /\ seen' = [seen EXCEPT ![s] = Head(buffer[s])]
    /\ buffer' = [buffer EXCEPT ![s] = Tail(@)]

(* Mutant: the drain ends with the request. *)
DrainWhileServed(s) ==
    /\ s \in Drained
    /\ handler[s] = "waiting"
    /\ Pop(s)
    /\ UNCHANGED <<logger, obsVars, handler, exit>>

(* getLogs: what the client is too slow for is dropped after it was read.   *)
Drain(s) ==
    /\ s \in Drained
    /\ handler[s] # "none"
    /\ Pop(s)
    /\ UNCHANGED <<logger, obsVars, handler, exit>>

(* A write to the client of the REST API fails. *)
RequestEnds(s) ==
    /\ s \in Drained
    /\ handler[s] = "waiting"
    /\ handler' = [handler EXCEPT ![s] = "leaving"]
    /\ UNCHANGED <<logger, obsVars, buffer, seen, exit>>

(* handlePullLogEvent: select between an event and the exit. *)
TakeEvent(s) ==
    /\ s \notin Drained
    /\ handler[s] = "waiting"
    /\ Pop(s)
    /\ handler' = [handler EXCEPT ![s] = "writing"]
    /\ UNCHANGED <<logger, obsVars, exit>>

Written(s) ==
    /\ handler[s] = "writing"
    /\ handler' = [handler EXCEPT ![s] = "waiting"]
    /\ UNCHANGED <<logger, obsVars, buffer, seen, exit>>

(* The client wrote its byte, closed the connection or died. *)
ClientLeaves(s) ==
    /\ s \notin Drained
    /\ handler[s] # "none"
    /\ exit[s] = "reading"
    /\ exit' = [exit EXCEPT ![s] = "sending"]
    /\ UNCHANGED <<logger, obsVars, buffer, handler, seen>>

TakeExit(s) ==
    /\ handler[s] = "waiting"
    /\ exit[s] = "sending"
    /\ handler' = [handler EXCEPT ![s] = "leaving"]
    /\ exit' = [exit EXCEPT ![s] = "done"]
    /\ UNCHANGED <<logger, obsVars, buffer, seen>>

(* Nobody receives from logExit any more: its sender stays for ever. *)
WriteFails(s) ==
    /\ handler[s] = "writing"
    /\ exit[s] = "sending"
    /\ handler' = [handler EXCEPT ![s] = "leaving"]
    /\ UNCHANGED <<logger, obsVars, buffer, seen, exit>>

-----------------------------------------------------------------------------
Next ==
    \/ \E l \in Loggers : Log(l) \/ Receive(l)
    \/ Lock \/ Unlock
    \/ \E s \in Subs :
         \/ Emit(s) \/ Subscribe(s) \/ UnSubscribe(s)
         \/ Drain(s) \/ RequestEnds(s)
         \/ TakeEvent(s) \/ Written(s) \/ ClientLeaves(s)
         \/ TakeExit(s) \/ WriteFails(s)

(* Goroutines run and waiters for the mutex get it.  A client that stays    *)
(* reads what is written to it; nobody has to log, subscribe or leave.      *)
Fairness ==
    /\ \A l \in Loggers : SF_vars(Receive(l))
    /\ WF_vars(Lock) /\ WF_vars(Unlock)
    /\ \A s \in Subs :
         /\ WF_vars(Emit(s)) /\ SF_vars(UnSubscribe(s))
         /\ WF_vars(Drain(s))
         /\ WF_vars(TakeEvent(s) \/ TakeExit(s))
         /\ WF_vars(Written(s) \/ WriteFails(s))

Spec == Init /\ [][Next]_vars /\ Fairness

-----------------------------------------------------------------------------
(* Properties *)

(* Emit never sends on a closed channel, which would panic: a subscriber    *)
(* that is still to get the event cannot unsubscribe meanwhile.             *)
NoSendOnClosed == process = "emitting" => remaining \cap closed = {}

(* The event that was sent last to a subscriber. *)
Sent(s) == IF process = "locking" \/ s \in remaining THEN item - 1 ELSE item

(* From its subscription on, a consumer receives every event, in order and  *)
(* once: its channel holds the run of events between the one it received    *)
(* last and the one sent last.                                              *)
NoGap ==
    \A s \in listener :
      /\ \A i \in 1 .. Len(buffer[s]) : buffer[s][i] = Sent(s) - Len(buffer[s]) + i
      /\ seen[s] # 0 => seen[s] = Sent(s) - Len(buffer[s])

(* A subscriber of the control server whose channel is full and stays full. *)
Stuck(s) == s \in remaining \ Drained /\ Len(buffer[s]) = Cap

(* A log call of the core returns: nobody that watches the log through the  *)
(* REST API can hang a goroutine of the core.  If one hangs, then because a *)
(* connection of the control server is never read again.                    *)
LogReturns ==
    \/ \E s \in Subs : <>[]Stuck(s)
    \/ \A l \in Loggers : logger[l] = "sending" ~> logger[l] = "idle" \/ item = MaxLogs

(* UnSubscribe returns and the channel is closed, as TestObservable_        *)
(* UnSubscribe of observable_test.go expects.                               *)
UnSubscribeCloses == \A s \in Subs : handler[s] = "leaving" ~> s \in closed
=============================================================================
