------------------------- MODULE ActivityConnection -------------------------
(***************************************************************************)
(* BaseActivity.kt: the activities of the user interface share one         *)
(* connection to the ClashService and one queue of requests, which a       *)
(* handler thread of the connection runs.                                  *)
(*                                                                         *)
(* The main thread runs all callbacks.  onServiceConnected locks another   *)
(* object than the rest (BaseActivity::class, not .java): it may overlap   *)
(* with the end of a handler, so its assignments are steps of their own.   *)
(***************************************************************************)
EXTENDS Integers, Sequences, FiniteSets

CONSTANTS
    MaxActivities,  \* bound: activities alive at a time
    MaxThreads,     \* bound: handlers started in all
    MaxRequests     \* bound: requests made in all

NoConnection == 0
Connections == 1 .. MaxThreads
Threads == 1 .. MaxThreads

VARIABLES
    activityCount, connection,  \* the companion object: 0 or a connection
    made,           \* connections made
    clash,          \* the service each connection talks to: its life, 0 for null
    requestHandler, \* the thread each connection knows of, 0 for null
    binding,        \* what the system will call next on the bound connection
    main,           \* how far the main thread is in onServiceConnected
    service,        \* life of the ClashService; odd while it is alive
    pending,        \* paddingRequest
    thread,         \* the handler threads
    requests, lost, \* requests made, and those no service was asked for
    overlapped,     \* connections connected before their last handler had ended
    dead            \* the user interface has crashed on a dead service

vars == <<activityCount, connection, made, clash, requestHandler, binding, main,
          service, pending, thread, requests, lost, overlapped, dead>>
fields == <<clash, requestHandler>>
activities == <<activityCount, connection, made>>
asked == <<pending, requests, lost, overlapped, dead>>

Unstarted == [at |-> "none", of |-> 0, interrupted |-> FALSE, block |-> 0]
Up == service % 2 = 1
Started == {t \in Threads : thread[t].at # "none"}
Spare ==   \* handlers the bound leaves when those under way have started
    Cardinality(Threads \ Started)
        - IF binding \in {"connect", "disconnect"} \/ main = "thread" THEN 1 ELSE 0
Ended(t) == thread[t].at = "ended"

Init ==
    /\ activityCount = 0 /\ connection = NoConnection /\ made = 0
    /\ clash = [c \in Connections |-> 0]
    /\ requestHandler = [c \in Connections |-> 0]
    /\ binding = "none" /\ main = "idle"
    /\ service = 1
    /\ pending = <<>>
    /\ thread = [t \in Threads |-> Unstarted]
    /\ requests = 0 /\ lost = {} /\ overlapped = {} /\ dead = FALSE

-----------------------------------------------------------------------------
(* Activities *)

OnCreate ==
    /\ main = "idle" /\ activityCount < MaxActivities
    /\ activityCount' = activityCount + 1
    /\ \/ /\ connection = NoConnection /\ made < MaxThreads /\ Spare > 0
          /\ made' = made + 1 /\ connection' = made + 1
          /\ binding' = "connect"
       \/ /\ connection # NoConnection
          /\ UNCHANGED <<made, connection, binding>>
    /\ UNCHANGED <<fields, main, service, thread, asked>>

Interrupt(t) ==
    thread' = IF t = 0 THEN thread ELSE [thread EXCEPT ![t].interrupted = TRUE]

(* Mutant: the field is cleared before its thread is interrupted. *)
ForgetHandler(c) ==
    /\ requestHandler' = [requestHandler EXCEPT ![c] = 0]
    /\ UNCHANGED <<thread, clash>>

OnServiceDisconnected(c) ==
    /\ Interrupt(requestHandler[c])
    /\ requestHandler' = [requestHandler EXCEPT ![c] = 0]
    /\ UNCHANGED clash

(* After unbindService the system calls a connection no more. *)
OnDestroy ==
    /\ main = "idle" /\ activityCount > 0
    /\ activityCount' = activityCount - 1
    /\ \/ /\ activityCount = 1
          /\ OnServiceDisconnected(connection)
          /\ connection' = NoConnection /\ binding' = "none"
       \/ /\ activityCount > 1
          /\ UNCHANGED <<connection, binding, fields, thread>>
    /\ UNCHANGED <<made, main, service, asked>>

RunClash ==
    /\ activityCount > 0 /\ requests < MaxRequests
    /\ requests' = requests + 1
    /\ pending' = Append(pending, requests + 1)
    /\ UNCHANGED <<activities, fields, binding, main, service, thread, lost, overlapped, dead>>

-----------------------------------------------------------------------------
(* The system: the service dies and, as BIND_AUTO_CREATE asks, returns.     *)

ServiceDies ==
    /\ Up /\ service < 2 * MaxThreads     \* bound
    /\ binding = "connected" => Spare > 0
    /\ service' = service + 1
    /\ binding' = IF binding = "connected" THEN "disconnect" ELSE binding
    /\ UNCHANGED <<activities, fields, main, thread, asked>>

ServiceReturns ==
    /\ ~Up
    /\ service' = service + 1
    /\ UNCHANGED <<activities, fields, binding, main, thread, asked>>

Disconnect ==
    /\ main = "idle" /\ binding = "disconnect"
    /\ OnServiceDisconnected(connection)
    /\ binding' = "connect"
    /\ UNCHANGED <<activities, main, service, asked>>

-----------------------------------------------------------------------------
(* onServiceConnected, one assignment at a time *)

ConnectClash ==
    /\ main = "idle" /\ binding = "connect" /\ Up
    /\ clash' = [clash EXCEPT ![connection] = service]
    /\ binding' = "connected"
    /\ main' = "thread"
    /\ overlapped' = overlapped \cup
         {thread[t].of : t \in {u \in Started : thread[u].of = connection /\ ~Ended(u)}}
    /\ UNCHANGED <<activities, requestHandler, service, thread, pending, requests,
                   lost, dead>>

ConnectThread ==
    /\ main = "thread"
    /\ thread' = [thread EXCEPT ![Cardinality(Started) + 1] =
                    [at |-> "take", of |-> connection, interrupted |-> FALSE, block |-> 0]]
    /\ main' = "field"
    /\ UNCHANGED <<activities, fields, binding, service, asked>>

Newest == CHOOSE t \in Started : \A u \in Started : u <= t

ConnectField ==
    /\ main = "field"
    /\ requestHandler' = [requestHandler EXCEPT ![connection] = Newest]
    /\ main' = "idle"
    /\ UNCHANGED <<activities, clash, binding, service, thread, asked>>

-----------------------------------------------------------------------------
(* A handler *)

Take(t) ==
    /\ thread[t].at = "take" /\ ~thread[t].interrupted
    /\ pending # <<>>
    /\ pending' = Tail(pending)
    /\ thread' = [thread EXCEPT ![t].at = "run", ![t].block = Head(pending)]
    /\ UNCHANGED <<activities, fields, binding, main, service, requests, lost, overlapped, dead>>

(* Without a service the block is dropped; a dead one throws, and nobody    *)
(* catches it.                                                              *)
Run(t) ==
    /\ thread[t].at = "run"
    /\ LET s == clash[thread[t].of] IN
         /\ lost' = IF s = 0 THEN lost \cup {thread[t].block} ELSE lost
         /\ dead' = (s # 0 /\ (s # service \/ ~Up))
    /\ thread' = [thread EXCEPT ![t].at = "take", ![t].block = 0]
    /\ UNCHANGED <<activities, fields, binding, main, service, pending, requests, overlapped>>

(* The interrupt ends the wait, or the loop; then the fields are cleared,   *)
(* whoever they are about by now.                                           *)
End(t) ==
    /\ thread[t].at = "take" /\ thread[t].interrupted
    /\ thread' = [thread EXCEPT ![t].at = "ended"]
    /\ clash' = [clash EXCEPT ![thread[t].of] = 0]
    /\ requestHandler' = [requestHandler EXCEPT ![thread[t].of] = 0]
    /\ UNCHANGED <<activities, binding, main, service, asked>>

Handler(t) == Take(t) \/ Run(t) \/ End(t)
Connected == Disconnect \/ ConnectClash \/ ConnectThread \/ ConnectField

-----------------------------------------------------------------------------
Next ==
    /\ ~dead
    /\ \/ OnCreate \/ OnDestroy \/ RunClash
       \/ ServiceDies \/ ServiceReturns
       \/ Connected
       \/ \E t \in Threads : Handler(t)

Fairness ==
    /\ WF_vars(~dead /\ Connected) /\ WF_vars(~dead /\ ServiceReturns)
    /\ \A t \in Threads : WF_vars(~dead /\ Handler(t))

-----------------------------------------------------------------------------
(* As long as no connection was connected again before its last handler had *)
(* ended: no request is dropped, and every handler a connection has left    *)
(* behind ends.  Whatever happens, requests are taken while activities      *)
(* remain.                                                                  *)
NothingDropped == overlapped = {} => lost = {}

HandlersEnd ==
    \A t \in Threads :
        /\ t \in Started /\ thread[t].of # connection
        /\ thread[t].of \notin overlapped
        ~> Ended(t) \/ dead

RequestsAreTaken ==
    pending # <<>> /\ connection # NoConnection
        ~> pending = <<>> \/ connection = NoConnection \/ dead
=============================================================================
