---------------------------- MODULE ClashService ----------------------------
(***************************************************************************)
(* One instance of ClashService.kt, from onCreate to onDestroy, with the   *)
(* child process of ClashProcess, the task queue of ClashEventService.kt,  *)
(* the profile loader thread, and the TunService.kt that binds to it.      *)
(*                                                                         *)
(* Threads: the main thread of the :clash process runs the callbacks of    *)
(* both services in the order the system posts them (`inbox`); the event   *)
(* handler runs `queue`; the loader runs the reloads; binder threads carry *)
(* the calls of the user interface.  All but the last block on the monitor *)
(* of ClashProcess.  Tasks that only talk to the user interface (speed,    *)
(* bandwidth, log, error and reload events, recasts) are left out.         *)
(*                                                                         *)
(* The observers are told in the order of their registration: the service, *)
(* then the activities that came before the TunService, then that.  Of the *)
(* activities one record stands for all, as their process is one; what     *)
(* their tasks do to it happens between two tasks of the queue.  Those that*)
(* register after the TunService count from when it is gone.               *)
(***************************************************************************)
EXTENDS ClashProcess

CONSTANT MaxCalls   \* bound: steps of the system and the user in all
ASSUME MaxCallsAssumption == MaxCalls \in Nat

Threads == {"main", "handler", "loader", "binder"}
ASSUME ThreadsAssumption == Callers = Threads /\ NoThread = "none"

VARIABLES
    pc,         \* what each thread is doing
    inbox,      \* callbacks the system has posted to the main thread
    svc,        \* life of the ClashService
    started,    \* a startService of it has not been undone by stopSelf
    uiBound,    \* an activity is bound to it
    ahead,      \* the activities ahead of the TunService among the observers
    tun,        \* life of the TunService
    fd,         \* TunService.fileDescriptor is open
    registered, \* a TunService is an observer of the event service
    tunDevice,  \* child that drives the tun device, 0 for none
    hidden,     \* history: the last event, or one before, was hidden from it
    reloads,    \* tasks submitted to the loader
    active,     \* some profile is active
    loaded,     \* child that last loaded a profile, 0 for none
    calls       \* steps of the system and the user so far

tunVars  == <<tun, fd, registered, tunDevice, hidden>>
loadVars == <<reloads, active, loaded>>
lifeVars == <<inbox, svc, started, uiBound, ahead>>
processVars == <<monitorVars, childVars, reader>>
svcVars == <<vars, pc, lifeVars, tunVars, loadVars, calls>>

Callbacks == {"onStartCommand", "onDestroy", "tunConnected", "tunDestroy"}
Tasks == Events \cup {"CREATED", "REGISTER", "UNREGISTER", "CHANGED"}
Serving == {c \in Children : phase[c] = "serving"}

(* onCreate has just registered the service with its own event service.  It *)
(* was created for a start, for an activity or for the TunService.          *)
SvcInit ==
    /\ lock = NoThread /\ stage = "free" /\ currentPid = 0 /\ pid = 0
    /\ spawned = 0
    /\ phase = [c \in Children |-> "none"]
    /\ out = [c \in Children |-> <<>>]
    /\ reader = [c \in Children |-> "none"]
    /\ current = "STOPPED"
    /\ queue = <<"CREATED">>
    /\ pc = [t \in Threads |-> "idle"]
    /\ svc = "alive"
    /\ \E for \in {"start", "bind", "tun"} :
         /\ started = (for = "start")
         /\ uiBound = (for = "bind")
         /\ tun = IF for = "tun" THEN "binding" ELSE "none"
         /\ inbox = CASE for = "start" -> <<"onStartCommand">>
                      [] for = "bind"  -> <<>>
                      [] for = "tun"   -> <<"tunConnected">>
    /\ fd = TRUE
    /\ registered = FALSE /\ ahead = "none" /\ hidden = "none"
    /\ tunDevice = 0 /\ reloads = 0 /\ loaded = 0
    /\ active \in BOOLEAN
    /\ calls = 0

Submit(task) == queue' = Append(queue, task) /\ UNCHANGED current
Post(callback) == inbox' = Append(inbox, callback)
Goto(t, l) == pc' = [pc EXCEPT ![t] = l]

-----------------------------------------------------------------------------
(* Calls into ClashProcess *)

(* start() with a pid returns at once. *)
CallStart(t) ==
    /\ pc[t] = "start"
    /\ \/ /\ lock = NoThread
          /\ pid > 0
          /\ Goto(t, "idle")
          /\ UNCHANGED vars
       \/ /\ StartEnter(t)
          /\ Goto(t, "starting")
    /\ UNCHANGED <<lifeVars, tunVars, loadVars>>

(* The exception of a failed spawn is caught by the binder stub, which the  *)
(* TunService calls, and by nobody in onStartCommand.                       *)
InStart ==
    /\ StartStep
    /\ pc' = [t \in Threads |-> IF t = lock /\ lock' = NoThread THEN "idle" ELSE pc[t]]
    /\ svc' = IF lock = "main" /\ stage = "spawn" /\ stage' = "free" THEN "crashed"
                                                                   ELSE svc
    /\ UNCHANGED <<inbox, started, uiBound, ahead, tunVars, loadVars>>

Background ==
    /\ \E c \in Children : ReaderStep(c) \/ ChildStep(c)
    /\ UNCHANGED <<pc, lifeVars, tunVars, loadVars>>

-----------------------------------------------------------------------------
(* Observers: ClashService.onProcessEvent, the activities', and last that of*)
(* the TunService.                                                          *)

ServiceOn(e) ==
    IF e = "STARTED" THEN /\ reloads' = reloads + 1
                          /\ UNCHANGED started
                     ELSE /\ started' = FALSE      \* stopSelf
                          /\ UNCHANGED reloads

StopTun == IF tun = "connected" THEN tun' = "stopping" /\ Post("tunDestroy")
                                ELSE UNCHANGED <<tun, inbox>>

(* A TunService that was destroyed is an observer until its UNREGISTER is   *)
(* handled, by when the next one may be connected.                          *)
Gone == \E i \in 1 .. Len(queue) : queue[i] = "UNREGISTER"

(* Mutant: a TunService that has tried once ignores the STOPPED. *)
TunOnStubborn(e, first) ==
    \/ /\ e = "STOPPED"
       /\ IF first THEN Goto("handler", "start") ELSE UNCHANGED pc
       /\ UNCHANGED <<tun, fd, inbox, tunDevice>>
    \/ /\ e = "STARTED"
       /\ fd' = (fd /\ Gone)
       /\ IF fd /\ ~Gone /\ Serving # {} THEN tunDevice' \in Serving
                                         ELSE UNCHANGED tunDevice
       /\ UNCHANGED <<pc, tun, inbox>>

(* TunService.start is true until the first event, that of its registration.*)
(* startTunDevice reaches whatever child serves the controller socket, and  *)
(* its failure is only reported.  Binder passes the TunService its OWN      *)
(* descriptor back, in one process, and the stub closes what it is given.   *)
TunOn(e, first) ==
    \/ /\ e = "STOPPED" /\ first
       /\ Goto("handler", "start")
       /\ UNCHANGED <<tun, fd, inbox, tunDevice>>
    \/ /\ e = "STOPPED" /\ ~first
       /\ IF Gone THEN UNCHANGED <<tun, inbox>> ELSE StopTun
       /\ UNCHANGED <<pc, fd, tunDevice>>
    \/ /\ e = "STARTED"
       /\ fd' = (fd /\ Gone)
       /\ IF fd /\ ~Gone /\ Serving # {} THEN tunDevice' \in Serving
                                         ELSE UNCHANGED tunDevice
       /\ UNCHANGED <<pc, tun, inbox>>

TunAway == UNCHANGED <<pc, inbox, tun, fd, tunDevice>>

(* The handler takes the next task.  It is one thread: a task that calls    *)
(* start() delays all that follow.                                          *)
Take(task) ==
    /\ pc["handler"] = "idle"
    /\ queue # <<>>
    /\ Head(queue) = task
    /\ queue' = Tail(queue)
    /\ UNCHANGED <<processVars, svc, uiBound, ahead, active, loaded>>

(* Mutant: a STOPPED that seems stale, as there is a pid again, is dropped. *)
DropStaleStop(e) ==
    /\ Take(e)
    /\ IF e = "STOPPED" /\ pid > 0
         THEN TunAway /\ UNCHANGED <<current, started, reloads>>
         ELSE /\ current' = e
              /\ ServiceOn(e)
              /\ IF registered THEN TunOn(e, FALSE) ELSE TunAway
    /\ UNCHANGED <<registered, hidden>>

(* The call of an observer whose process has died throws, and forEach ends  *)
(* with it.                                                                 *)
Reached == ahead \notin {"dead", "stuck"}

PerformProcessEvent(e) ==
    /\ Take(e)
    /\ current' = e
    /\ ServiceOn(e)
    /\ IF registered /\ Reached THEN TunOn(e, FALSE) ELSE TunAway
    /\ hidden' = CASE ~registered \/ Gone -> hidden
                   [] ~Reached -> "last"
                   [] OTHER -> IF hidden = "last" THEN "earlier" ELSE hidden
    /\ UNCHANGED registered

Created ==
    /\ Take("CREATED")
    /\ ServiceOn(current)
    /\ TunAway
    /\ UNCHANGED <<current, registered, hidden>>

(* Mutant: a new observer is not told the current event. *)
RegisterQuietly ==
    /\ Take("REGISTER")
    /\ registered' = TRUE /\ hidden' = "none"
    /\ TunAway
    /\ UNCHANGED <<current, started, reloads>>

RegisterEventObserver ==
    /\ Take("REGISTER")
    /\ registered' = TRUE
    /\ IF registered THEN TunAway /\ UNCHANGED hidden
                     ELSE TunOn(current, TRUE) /\ hidden' = "none"
    /\ UNCHANGED <<current, started, reloads>>

UnregisterEventObserver ==
    /\ Take("UNREGISTER")
    /\ registered' = FALSE
    /\ TunAway
    /\ UNCHANGED <<current, started, reloads, hidden>>

ProfileChanged ==
    /\ Take("CHANGED")
    /\ reloads' = reloads + 1
    /\ TunAway
    /\ UNCHANGED <<current, started, registered, hidden>>

Handle ==
    \/ \E e \in Events : PerformProcessEvent(e)
    \/ Created
    \/ RegisterEventObserver \/ UnregisterEventObserver
    \/ ProfileChanged

-----------------------------------------------------------------------------
(* The loader thread: reloadProfile *)

ReloadCheck ==
    /\ pc["loader"] = "idle"
    /\ reloads > 0
    /\ lock = NoThread
    /\ reloads' = reloads - 1
    /\ Goto("loader", IF GetProcessStatus = "STARTED" THEN "query" ELSE "idle")
    /\ UNCHANGED <<vars, lifeVars, tunVars, active, loaded>>

(* Mutant: without an active profile the process is left alone. *)
ReloadNothing ==
    /\ pc["loader"] = "query"
    /\ Goto("loader", IF active THEN "load" ELSE "idle")
    /\ UNCHANGED <<vars, lifeVars, tunVars, loadVars>>

ReloadQuery ==
    /\ pc["loader"] = "query"
    /\ Goto("loader", IF active THEN "load" ELSE "stop")
    /\ UNCHANGED <<vars, lifeVars, tunVars, loadVars>>

(* The child may refuse the file, or be gone. *)
ReloadLoad ==
    /\ pc["loader"] = "load"
    /\ \/ /\ Goto("loader", "stop")
          /\ UNCHANGED loaded
       \/ /\ Goto("loader", "idle")
          /\ loaded' \in Serving
    /\ UNCHANGED <<vars, lifeVars, tunVars, reloads, active>>

ReloadStop ==
    /\ pc["loader"] = "stop"
    /\ Stop("loader")
    /\ Goto("loader", "idle")
    /\ UNCHANGED <<lifeVars, tunVars, loadVars>>

-----------------------------------------------------------------------------
(* The main thread *)

Callback(name) ==
    /\ pc["main"] = "idle"
    /\ inbox # <<>>
    /\ Head(inbox) = name
    /\ inbox' = Tail(inbox)
    /\ UNCHANGED <<processVars, current, started, uiBound, ahead, registered, hidden,
                   loadVars>>

OnStartCommand ==
    /\ Callback("onStartCommand")
    /\ Goto("main", "start")
    /\ UNCHANGED <<queue, svc, tun, fd, tunDevice>>

TunConnected ==
    /\ Callback("tunConnected")
    /\ tun' = "connected"
    /\ fd' = TRUE
    /\ Submit("REGISTER")
    /\ UNCHANGED <<pc, svc, tunDevice>>

(* TunService.onDestroy: the device, then the process, then the observer.   *)
TunDestroy ==
    /\ Callback("tunDestroy")
    /\ tunDevice' = IF tunDevice \in Serving THEN 0 ELSE tunDevice
    /\ fd' = FALSE
    /\ Goto("main", "tunDestroy")
    /\ UNCHANGED <<queue, svc, tun>>

StopTask == IF GetProcessStatus = "STOPPED" THEN <<"STOPPED">> ELSE <<>>

TunDestroyed ==
    /\ pc["main"] = "tunDestroy"
    /\ lock = NoThread
    /\ Killed(pid)
    /\ queue' = queue \o StopTask \o <<"UNREGISTER">>
    /\ tun' = "none"
    /\ Goto("main", "idle")
    /\ UNCHANGED <<monitorVars, spawned, out, reader, current, lifeVars,
                   fd, registered, tunDevice, hidden, loadVars>>

OnDestroy ==
    /\ Callback("onDestroy")
    /\ Goto("main", "destroy")
    /\ UNCHANGED <<queue, svc, tun, fd, tunDevice>>

(* After the shutdown of its executors the instance is not modelled. *)
Destroyed ==
    /\ pc["main"] = "destroy"
    /\ Stop("main")
    /\ svc' = "destroyed"
    /\ Goto("main", "idle")
    /\ UNCHANGED <<inbox, started, uiBound, ahead, tunVars, loadVars>>

-----------------------------------------------------------------------------
(* The system and the user: at most MaxCalls steps. *)

(* No start, no activity and no TunService: the system destroys the service.*)
BringDown ==
    /\ ~started /\ ~uiBound /\ tun = "none"
    /\ svc' = "unneeded"
    /\ Post("onDestroy")
    /\ UNCHANGED <<vars, pc, started, uiBound, ahead, tunVars, loadVars>>

Bind ==
    /\ uiBound' = ~uiBound
    /\ UNCHANGED <<vars, pc, inbox, svc, started, ahead, tunVars, loadVars>>

(* The task that registers an activity is run: it is alive, or has died on  *)
(* the way, and then nothing will ever unregister it.                       *)
Watch ==
    /\ uiBound
    /\ pc["handler"] = "idle"
    /\ ~registered \/ ahead # "none"
    /\ ahead' \in {"alive", "stuck"}
    /\ uiBound' = (ahead' = "alive")
    /\ UNCHANGED <<vars, pc, inbox, svc, started, tunVars, loadVars>>

(* The process of the activities dies, and with it their bindings.          *)
UiDies ==
    /\ ahead = "alive"
    /\ ahead' = "dead" /\ uiBound' = FALSE
    /\ UNCHANGED <<vars, pc, inbox, svc, started, tunVars, loadVars>>

(* An activity unregisters, or its death recipient does.                    *)
Unwatch ==
    /\ pc["handler"] = "idle"
    /\ ahead \in {"alive", "dead"}
    /\ ahead' = "none"
    /\ UNCHANGED <<vars, pc, inbox, svc, started, uiBound, tunVars, loadVars>>

(* ServiceUtils.startProxyService, in either mode. *)
StartClashService ==
    /\ ~started /\ Len(inbox) < 2
    /\ started' = TRUE
    /\ Post("onStartCommand")
    /\ UNCHANGED <<vars, pc, svc, uiBound, ahead, tunVars, loadVars>>

StartTunService ==
    /\ tun = "none" /\ pc["main"] = "idle" /\ Len(inbox) < 2
    /\ tun' = "binding"
    /\ Post("tunConnected")
    /\ UNCHANGED <<vars, pc, svc, started, uiBound, ahead, fd, registered,
                   tunDevice, hidden, loadVars>>

Revoke ==
    /\ tun = "connected"
    /\ StopTun
    /\ UNCHANGED <<vars, pc, svc, started, uiBound, ahead, fd, registered,
                   tunDevice, hidden, loadVars>>

(* An activity calls stop(), or changes the active profile. *)
UserStop ==
    /\ uiBound
    /\ Stop("binder")
    /\ UNCHANGED <<pc, lifeVars, tunVars, loadVars>>

UserChange ==
    /\ uiBound
    /\ active' \in BOOLEAN
    /\ Submit("CHANGED")
    /\ UNCHANGED <<processVars, pc, lifeVars, tunVars, reloads, loaded>>

-----------------------------------------------------------------------------
Loader == ReloadCheck \/ ReloadQuery \/ ReloadLoad \/ ReloadStop
Main == OnStartCommand \/ TunConnected \/ TunDestroy \/ TunDestroyed
        \/ OnDestroy \/ Destroyed
User == Bind \/ StartClashService \/ StartTunService \/ Revoke \/ UserStop \/ UserChange

Work ==
    \/ \E t \in {"main", "handler"} : CallStart(t)
    \/ InStart
    \/ Background
    \/ Handle
    \/ Loader
    \/ Main
    \/ Watch \/ UiDies \/ Unwatch

Running == svc \notin {"destroyed", "crashed"}
Does(A) == Running /\ A /\ UNCHANGED calls

SvcNext ==
    \/ Does(Work)
    \/ svc = "alive" /\ Does(BringDown)
    \/ svc = "alive" /\ calls < MaxCalls /\ User /\ calls' = calls + 1

(* No more than this: while some thread can run or a child has something to *)
(* print, something of that happens.  A child need not die.                 *)
Progress ==
    \/ \E t \in {"main", "handler"} : CallStart(t)
    \/ InStart
    \/ Background /\ \E c \in Children :
         ReaderStep(c) \/ ChildPrintsPid(c) \/ ChildServes(c)
    \/ Handle \/ Loader \/ Main

SvcSpec == SvcInit /\ [][SvcNext]_svcVars /\ WF_svcVars(Does(Progress))

-----------------------------------------------------------------------------
(* Properties *)

(* A stop that was submitted is told to the service, and to who follows it  *)
(* among the observers, although the one thread that tells them may itself  *)
(* be inside start().                                                       *)
StopIsHeard ==
    (\E i \in 1 .. Len(queue) : queue[i] = "STOPPED") /\ Running
        ~> current = "STOPPED" \/ ~Running

(* The VPN interface never stays up over a dead core: the TunService starts *)
(* the process again or stops itself.  The exception: the last event never  *)
(* reached it, as an activity ahead of it among the observers had died.     *)
NoVpnWithoutCore ==
    tun = "connected" /\ Alive = {} /\ Running
        ~> tun # "connected" \/ Alive # {} \/ ~Running \/ hidden = "last"

(* A child that serves gets its profile, or is stopped.                     *)
LoadedOrStopped ==
    \A c \in Children :
        pid = c /\ phase[c] = "serving" /\ Running
            ~> loaded = c \/ c \notin Alive \/ ~Running

(* A VPN interface whose traffic nobody reads is not a state to rest in:    *)
(* when no event is on its way, the observers believe in STARTED and the    *)
(* child with the pid serves, that child has the tun device - although the  *)
(* TunService can hand its descriptor out only once.  The exception: some   *)
(* event since its registration never reached it, behind a dead activity.   *)
AtRest ==
    /\ queue = <<>> /\ pc["handler"] = "idle" /\ lock = NoThread
    /\ \A c \in Children : reader[c] # "announcing"

TunFollowsChild ==
    /\ AtRest /\ registered /\ tun = "connected" /\ hidden = "none"
    /\ current = "STARTED" /\ pid \in Serving
    => tunDevice = pid
=============================================================================
