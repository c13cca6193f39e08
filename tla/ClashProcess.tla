---------------------------- MODULE ClashProcess ----------------------------
(***************************************************************************)
(* The life of the native clash child: core/ClashProcess.kt, the boot of   *)
(* the child in core/src/main/golang/main.go, and the stream of process    *)
(* events the Kotlin side submits to the event handler.                    *)
(*                                                                         *)
(* One object, one monitor.  `start` spawns the child and parses its       *)
(* standard output WITHOUT releasing the monitor, so it is a sequence of   *)
(* steps of the thread that holds `lock`.  Every child that was announced  *)
(* gets a reader thread which, at end of file, clears `pid` inside the     *)
(* monitor but tells the listener OUTSIDE it.                              *)
(*                                                                         *)
(* The field `process` is written and never read, and is left out.         *)
(***************************************************************************)
EXTENDS Integers, Sequences, FiniteSets

CONSTANTS
    Callers,        \* threads that call start and stop (binder, main, handler)
    NoThread,       \* the monitor is free
    MaxChildren,    \* bound: children in all; every later spawn fails
    MaxEvents,      \* bound: no start or stop with so many undelivered events
    MayFailEarly    \* can the child end before it has printed its pid?

ASSUME CallersAssumption == NoThread \notin Callers
ASSUME BoundsAssumption == MaxChildren \in Nat /\ MaxEvents \in Nat \ {0}
ASSUME EarlyAssumption == MayFailEarly \in BOOLEAN

VARIABLES
    lock,       \* holder of the monitor of the ClashProcess
    stage,      \* how far the holder is in start()
    currentPid, \* local variable of start(): the pid parsed so far
    pid,        \* the field pid: 0 at first, -1 after a death
    spawned,    \* children spawned so far; the pid of a child is its number
    phase,      \* life of each child
    out,        \* its unread standard output
    reader,     \* the thread that reads the rest of its output
    queue,      \* process events submitted to the event handler
    current     \* ClashEventService.currentProcessEvent

monitorVars == <<lock, stage, currentPid, pid>>
childVars   == <<spawned, phase, out>>
eventVars   == <<queue, current>>
vars == <<monitorVars, childVars, reader, eventVars>>

Children == 1 .. MaxChildren
Events   == {"STARTED", "STOPPED"}
Lines    == {"[PID]", "[CONTROLLER] STARTED", "[CONTROLLER] ERROR"}
Phases   == {"none", "booting", "named", "serving", "dead"}
Readers  == {"none", "reading", "closing", "announcing", "done"}

Alive == {c \in Children : phase[c] \in {"booting", "named", "serving"}}
EOF(c) == phase[c] = "dead" /\ out[c] = <<>>

(* Type invariant. *)
TypeOK ==
    /\ lock \in Callers \cup {NoThread}
    /\ stage \in {"free", "spawn", "pid", "controller"}
    /\ currentPid \in 0 .. MaxChildren
    /\ pid \in -1 .. MaxChildren
    /\ spawned \in 0 .. MaxChildren
    /\ phase \in [Children -> Phases]
    /\ out \in [Children -> Seq(Lines)]
    /\ reader \in [Children -> Readers]
    /\ queue \in Seq(Events)
    /\ current \in Events

Init ==
    /\ lock = NoThread
    /\ stage = "free"
    /\ currentPid = 0
    /\ pid = 0
    /\ spawned = 0
    /\ phase = [c \in Children |-> "none"]
    /\ out = [c \in Children |-> <<>>]
    /\ reader = [c \in Children |-> "none"]
    /\ queue = <<>>
    /\ current = "STOPPED"

-----------------------------------------------------------------------------
(* The listener is ClashEventService.performProcessEvent: it submits a task *)
(* to a single thread executor, and the task stores the event.              *)

Listener(e) == queue' = Append(queue, e) /\ UNCHANGED current

Deliver ==
    /\ queue # <<>>
    /\ current' = Head(queue)
    /\ queue' = Tail(queue)
    /\ UNCHANGED <<monitorVars, childVars, reader>>

Release == lock' = NoThread /\ stage' = "free"

-----------------------------------------------------------------------------
(* start() *)

GetProcessStatus == IF pid > 0 THEN "STARTED" ELSE "STOPPED"

(* Mutant: the early return on a positive pid is lost. *)
StartAlways(t) ==
    /\ lock = NoThread
    /\ lock' = t
    /\ stage' = "spawn"
    /\ currentPid' = 0
    /\ UNCHANGED <<pid, childVars, reader, eventVars>>

(* With a pid start() returns at once: that call changes nothing. *)
StartEnter(t) ==
    /\ lock = NoThread
    /\ GetProcessStatus = "STOPPED"
    /\ lock' = t
    /\ stage' = "spawn"
    /\ currentPid' = 0
    /\ UNCHANGED <<pid, childVars, reader, eventVars>>

(* extractMMDB or ProcessBuilder.start throws: the catch clause. *)
SpawnFail ==
    /\ stage = "spawn"
    /\ Release
    /\ Listener("STOPPED")
    /\ UNCHANGED <<currentPid, pid, childVars, reader>>

Spawn ==
    /\ stage = "spawn"
    /\ spawned < MaxChildren
    /\ stage' = "pid"
    /\ spawned' = spawned + 1
    /\ phase' = [phase EXCEPT ![spawned + 1] = "booting"]
    /\ UNCHANGED <<lock, currentPid, pid, out, reader, eventVars>>

TakeLine == out' = [out EXCEPT ![spawned] = Tail(@)]

(* Every line before the pid is logged and dropped, whatever it says. *)
ReadPidLine ==
    /\ stage = "pid"
    /\ out[spawned] # <<>>
    /\ TakeLine
    /\ IF Head(out[spawned]) = "[PID]"
         THEN stage' = "controller" /\ currentPid' = spawned
         ELSE UNCHANGED <<stage, currentPid>>
    /\ UNCHANGED <<lock, pid, spawned, phase, reader, eventVars>>

(* Mutant: the first loop does not stop at the end of the file. *)
ReadPidForever ==
    /\ stage = "pid"
    /\ EOF(spawned)
    /\ UNCHANGED vars

ReadPidEOF ==
    /\ stage = "pid"
    /\ EOF(spawned)
    /\ stage' = "controller"
    /\ UNCHANGED <<lock, currentPid, pid, childVars, reader, eventVars>>

(* Mutant: nobody reads the pipe once the child is announced. *)
CommitUnwatched ==
    /\ pid' = currentPid
    /\ Release
    /\ Listener("STARTED")
    /\ UNCHANGED <<currentPid, spawned, phase, reader>>

(* pid is set, STARTED submitted and the reader thread created before the   *)
(* monitor is released.                                                     *)
Commit ==
    /\ pid' = currentPid
    /\ Release
    /\ Listener("STARTED")
    /\ reader' = [reader EXCEPT ![spawned] = "reading"]
    /\ UNCHANGED <<currentPid, spawned, phase>>

ReadControllerLine ==
    /\ stage = "controller"
    /\ out[spawned] # <<>>
    /\ TakeLine
    /\ IF Head(out[spawned]) = "[CONTROLLER] ERROR"
         THEN /\ Release
              /\ Listener("STOPPED")
              /\ UNCHANGED <<currentPid, pid, spawned, phase, reader>>
         ELSE Commit

ReadControllerEOF ==
    /\ stage = "controller"
    /\ EOF(spawned)
    /\ Commit
    /\ UNCHANGED out

-----------------------------------------------------------------------------
(* stop(): SIGKILL, and one more STOPPED when nothing runs.  A pid that is  *)
(* not positive, or that names a dead child, hits nothing.                  *)

Killed(c) == phase' = [d \in Children |-> IF d = c /\ d \in Alive THEN "dead"
                                                               ELSE phase[d]]

Stop(t) ==
    /\ lock = NoThread
    /\ IF GetProcessStatus = "STOPPED"
         THEN Listener("STOPPED")
         ELSE UNCHANGED eventVars
    /\ Killed(pid)
    /\ UNCHANGED <<monitorVars, spawned, out, reader>>

-----------------------------------------------------------------------------
(* The reader thread of child c *)

ReaderEOF(c) ==
    /\ reader[c] = "reading"
    /\ phase[c] = "dead"
    /\ out' = [out EXCEPT ![c] = <<>>]
    /\ reader' = [reader EXCEPT ![c] = "closing"]
    /\ UNCHANGED <<monitorVars, spawned, phase, eventVars>>

(* Mutant: a reader closes its child and forgets to tell the listener. *)
ReaderCloseSilent(c) ==
    /\ reader[c] = "closing"
    /\ lock = NoThread
    /\ Killed(c)
    /\ pid' = -1
    /\ reader' = [reader EXCEPT ![c] = "done"]
    /\ UNCHANGED <<lock, stage, currentPid, spawned, out, eventVars>>

ReaderClose(c) ==
    /\ reader[c] = "closing"
    /\ lock = NoThread
    /\ Killed(c)
    /\ pid' = -1
    /\ reader' = [reader EXCEPT ![c] = "announcing"]
    /\ UNCHANGED <<lock, stage, currentPid, spawned, out, eventVars>>

(* Mutant: the reader announces the wrong event. *)
ReaderAnnouncesStart(c) ==
    /\ reader[c] = "announcing"
    /\ Listener("STARTED")
    /\ reader' = [reader EXCEPT ![c] = "done"]
    /\ UNCHANGED <<monitorVars, childVars>>

ReaderAnnounce(c) ==
    /\ reader[c] = "announcing"
    /\ Listener("STOPPED")
    /\ reader' = [reader EXCEPT ![c] = "done"]
    /\ UNCHANGED <<monitorVars, childVars>>

-----------------------------------------------------------------------------
(* The child: main() of main.go *)

(* server.Start fails: the error is printed INSTEAD of the pid. *)
ChildFails(c) ==
    /\ MayFailEarly
    /\ phase[c] = "booting"
    /\ phase' = [phase EXCEPT ![c] = "dead"]
    /\ out' = [out EXCEPT ![c] = Append(@, "[CONTROLLER] ERROR")]
    /\ UNCHANGED <<monitorVars, spawned, reader, eventVars>>

ChildPrintsPid(c) ==
    /\ phase[c] = "booting"
    /\ phase' = [phase EXCEPT ![c] = "named"]
    /\ out' = [out EXCEPT ![c] = Append(@, "[PID]")]
    /\ UNCHANGED <<monitorVars, spawned, reader, eventVars>>

ChildServes(c) ==
    /\ phase[c] = "named"
    /\ phase' = [phase EXCEPT ![c] = "serving"]
    /\ out' = [out EXCEPT ![c] = Append(@, "[CONTROLLER] STARTED")]
    /\ UNCHANGED <<monitorVars, spawned, reader, eventVars>>

(* A fatal error, a signal, or the system reclaiming memory. *)
ChildDies(c) ==
    /\ c \in Alive
    /\ phase[c] = "booting" => MayFailEarly
    /\ phase' = [phase EXCEPT ![c] = "dead"]
    /\ UNCHANGED <<monitorVars, spawned, out, reader, eventVars>>

-----------------------------------------------------------------------------
StartStep == \/ SpawnFail \/ Spawn
             \/ ReadPidLine \/ ReadPidEOF
             \/ ReadControllerLine \/ ReadControllerEOF

ReaderStep(c) == ReaderEOF(c) \/ ReaderClose(c) \/ ReaderAnnounce(c)

ChildStep(c) == ChildFails(c) \/ ChildPrintsPid(c) \/ ChildServes(c) \/ ChildDies(c)

Next ==
    \/ Len(queue) < MaxEvents /\ \E t \in Callers : StartEnter(t) \/ Stop(t)
    \/ StartStep
    \/ \E c \in Children : ReaderStep(c) \/ ChildStep(c)
    \/ Deliver

(* Threads that are not blocked run, a child that was spawned boots or      *)
(* dies.  Nobody is obliged to call start or stop, and a child need not die.*)
Fairness ==
    /\ WF_vars(StartStep)
    /\ WF_vars(Deliver)
    /\ \A c \in Children :
         /\ WF_vars(ReaderStep(c))
         /\ WF_vars(ChildPrintsPid(c) \/ ChildServes(c))

Spec == Init /\ [][Next]_vars /\ Fairness
-----------------------------------------------------------------------------
(* Properties *)

(* Two children would fight over one controller socket and one notification.*)
(* Guaranteed by "if (pid > 0) return" of start() only while every child    *)
(* prints its pid before it ends (MayFailEarly = FALSE).                    *)
SingleChild == \A c, d \in Alive : c = d

(* A positive pid is never left behind: the thread that will clear it when  *)
(* the child ends exists, so getProcessStatus cannot say STARTED for ever.  *)
StartedIsWatched == pid > 0 => reader[pid] \in {"reading", "closing"}

(* The event observers saw or will see last, and the threads that still owe *)
(* a STOPPED: STARTED is the last word only while some thread owes one.     *)
LastEvent == IF queue = <<>> THEN current ELSE queue[Len(queue)]
Owing == {c \in Children : reader[c] \in {"reading", "closing", "announcing"}}

NoFalseStarted == LastEvent = "STARTED" => Owing # {}

(* The death of the child start() announced reaches every observer.         *)
DeathIsDelivered ==
    (\E c \in Children : pid = c /\ phase[c] = "dead") ~> current = "STOPPED"

(* start() reads a pipe inside the monitor, and stop() and getProcessStatus *)
(* wait for it: the pipe must always yield a line or its end.               *)
MonitorIsReleased == lock # NoThread ~> lock = NoThread

(* Lines 69 and 70 of ClashProcess.kt turn a controller error into an       *)
(* exception: a child that never got a pid is not announced as STARTED.     *)
ErrorIsNotStarted ==
    [][\A c \in Children :
         reader[c] = "none" /\ reader'[c] = "reading" => pid' = c]_vars
=============================================================================
