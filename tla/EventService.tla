---------------------------- MODULE EventService ----------------------------
(***************************************************************************)
(* The observers of ClashEventService.kt.  One handler thread works off    *)
(* the tasks in order; an observer lives in the process of the service     *)
(* (the ClashService itself, the TunService) or in that of the user        *)
(* interface, which may die and come back while it is registered.          *)
(***************************************************************************)
EXTENDS Integers, Sequences, SequencesExt

CONSTANTS
    Remote,     \* ids of observers in the user interface
    LocalIds,   \* ids of observers in the process of the service
    Wants,      \* the events an observer may ask for
    MaxLife,    \* bound: lives of the user interface
    MaxCalls    \* bound: registrations and changes of the child, in all

VARIABLES
    observers,  \* the map, in its order of insertion
    current,    \* currentProcessEvent
    queue,      \* tasks submitted to the handler
    running,    \* the child of ClashProcess runs
    pulled,     \* streams the ClashEventPuller keeps open
    life, up,   \* life of the user interface, and whether it is alive
    linked,     \* death recipients: an id and the life it waits for
    heard,      \* last process event each observer was told in its life
    calls       \* calls so far

vars == <<observers, current, queue, running, pulled, life, up, linked, heard, calls>>

Service == "service"
Ids == {Service} \cup Remote \cup LocalIds

Dead(o) == o.id \in Remote /\ (o.life < life \/ ~up)
Known == {o.id : o \in Range(observers)}
Wanted == UNION {o.wants : o \in Range(observers)}

(* onCreate registers the service; it is the first of the map for good.     *)
Init ==
    /\ observers = <<>> /\ current = "STOPPED"
    /\ queue = <<[do |-> "register", id |-> Service, life |-> 0, wants |-> {"speed"}]>>
    /\ running = FALSE /\ pulled = {}
    /\ life = 1 /\ up = TRUE /\ linked = {}
    /\ heard = [id \in Ids |-> "nothing"]
    /\ calls = 0

Call(task) ==
    /\ calls < MaxCalls
    /\ calls' = calls + 1
    /\ queue' = Append(queue, task)

-----------------------------------------------------------------------------
(* Calls from binder threads, from the reader of the child and from the     *)
(* receiver of the screen; a TunService registers once it is connected.     *)

RegisterEventObserver(id, wants) ==
    /\ id \in Remote => up
    /\ Call([do |-> "register", id |-> id, life |-> IF id \in Remote THEN life ELSE 0,
             wants |-> wants])
    /\ UNCHANGED <<observers, current, running, pulled, life, up, linked, heard>>

UnregisterEventObserver(id) ==
    /\ id \in Remote => up
    /\ id \in Known
    /\ Call([do |-> "unregister", id |-> id])
    /\ UNCHANGED <<observers, current, running, pulled, life, up, linked, heard>>

(* The streams of a child end with it. *)
PerformProcessEvent ==
    /\ running' = ~running
    /\ pulled' = IF running THEN {} ELSE pulled
    /\ Call([do |-> "event", event |-> IF running THEN "STOPPED" ELSE "STARTED"])
    /\ UNCHANGED <<observers, current, life, up, linked, heard>>

UiDies ==
    /\ up /\ life < MaxLife
    /\ up' = FALSE
    /\ UNCHANGED <<observers, current, queue, running, pulled, life, linked, heard, calls>>

UiReturns ==
    /\ ~up
    /\ up' = TRUE /\ life' = life + 1
    /\ heard' = [id \in Ids |-> IF id \in Remote THEN "nothing" ELSE heard[id]]
    /\ UNCHANGED <<observers, current, queue, running, pulled, linked, calls>>

(* A recipient knows its id, not its observer: it may come late and         *)
(* unregister one of the next life.                                         *)
BinderDied(link) ==
    /\ link \in linked /\ Dead(link)
    /\ linked' = linked \ {link}
    /\ queue' = Append(queue, [do |-> "unregister", id |-> link.id])
    /\ UNCHANGED <<observers, current, running, pulled, life, up, heard, calls>>

-----------------------------------------------------------------------------
(* The handler *)

Take(what) == queue # <<>> /\ Head(queue).do = what

(* forEach ends at the first observer that throws: those who are told.      *)
Told ==
    {i \in DOMAIN observers : \A j \in 1 .. i : ~Dead(observers[j])}

(* The service answers STARTED with a recast of its own.                    *)
Deliver ==
    /\ Take("event")
    /\ LET e == Head(queue).event IN
         /\ current' = e
         /\ heard' = [id \in Ids |->
              IF \E i \in Told : observers[i].id = id THEN e ELSE heard[id]]
         /\ queue' = Tail(queue) \o
              (IF e = "STARTED" /\ \E i \in Told : observers[i].id = Service
                 THEN <<[do |-> "recast"]>> ELSE <<>>)
    /\ UNCHANGED <<observers, running, pulled, life, up, linked, calls>>

(* linkToDeath throws if the observer has died on the way: its record is in *)
(* the map by then, and neither a recipient nor a recast follows.           *)
Register ==
    /\ Take("register")
    /\ LET o == [id |-> Head(queue).id, life |-> Head(queue).life,
                 wants |-> Head(queue).wants]
           initial == o.id \notin Known
       IN /\ observers' = IF initial THEN Append(observers, o)
                          ELSE [i \in DOMAIN observers |->
                                  IF observers[i].id = o.id THEN o ELSE observers[i]]
          /\ queue' = Tail(queue) \o (IF Dead(o) THEN <<>> ELSE <<[do |-> "recast"]>>)
          /\ linked' = IF o.id \in Remote /\ ~Dead(o)
                         THEN linked \cup {[id |-> o.id, life |-> o.life]} ELSE linked
          /\ heard' = IF initial /\ ~Dead(o) THEN [heard EXCEPT ![o.id] = current]
                                             ELSE heard
    /\ UNCHANGED <<current, running, pulled, life, up, calls>>

(* The map without id, whose order stays. *)
Without(id) ==
    IF id \in Known THEN RemoveAt(observers, CHOOSE i \in DOMAIN observers : observers[i].id = id)
                    ELSE observers

(* Mutant: the requirements stay as they were. *)
UnregisterOnly ==
    /\ Take("unregister")
    /\ observers' = Without(Head(queue).id)
    /\ queue' = Tail(queue)
    /\ UNCHANGED <<current, running, pulled, life, up, linked, heard, calls>>

Unregister ==
    /\ Take("unregister")
    /\ observers' = Without(Head(queue).id)
    /\ queue' = Append(Tail(queue), [do |-> "recast"])
    /\ UNCHANGED <<current, running, pulled, life, up, linked, heard, calls>>

(* The master acquires and releases nothing while the process is stopped.   *)
RecastEventRequirement ==
    /\ Take("recast")
    /\ queue' = Tail(queue)
    /\ pulled' = IF running THEN Wanted ELSE pulled
    /\ UNCHANGED <<observers, current, running, life, up, linked, heard, calls>>

Handle == Deliver \/ Register \/ Unregister \/ RecastEventRequirement

-----------------------------------------------------------------------------
Next ==
    \/ \E id \in Ids, w \in SUBSET Wants : RegisterEventObserver(id, w)
    \/ \E id \in Ids \ {Service} : UnregisterEventObserver(id)
    \/ PerformProcessEvent
    \/ UiDies \/ UiReturns
    \/ \E link \in linked : BinderDied(link)
    \/ Handle

-----------------------------------------------------------------------------
(* Once all is worked off: the service has heard the last event, whoever    *)
(* died; so has everybody, as long as the user interface has not died; and  *)
(* unless a dead observer is still in the map, exactly the streams its      *)
(* observers want are pulled from a child that runs.                        *)
Settled ==
    queue = <<>> =>
        /\ heard[Service] = current
        /\ life = 1 /\ up => \A o \in Range(observers) : heard[o.id] = current
        /\ running /\ (\A o \in Range(observers) : ~Dead(o)) => pulled = Wanted
=============================================================================
