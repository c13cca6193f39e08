------------------------- MODULE ClashProcessProofs -------------------------
(***************************************************************************)
(* Proofs about ClashProcess for any set of threads and any bounds.        *)
(*                                                                         *)
(*   Typing      TypeOK                                                    *)
(*   Watched     StartedIsWatched, from LifeInv                            *)
(*   LastWord    NoFalseStarted                                            *)
(*   OneChild    SingleChild, from PipeInv, when every child prints its    *)
(*               pid before it ends                                        *)
(***************************************************************************)
EXTENDS ClashProcess, SequenceTheorems, TLAPS

(* The monitor, the children and their readers, without the events: what    *)
(* the ClashProcess of an app that also handles other tasks moves by.       *)
machineVars == <<monitorVars, childVars, reader>>

MachineOK ==
    /\ lock \in Callers \cup {NoThread}
    /\ stage \in {"free", "spawn", "pid", "controller"}
    /\ currentPid \in 0 .. MaxChildren
    /\ pid \in -1 .. MaxChildren
    /\ spawned \in 0 .. MaxChildren
    /\ phase \in [Children -> Phases]
    /\ out \in [Children -> Seq(Lines)]
    /\ reader \in [Children -> Readers]

Kill ==
    /\ lock = NoThread
    /\ Killed(pid)
    /\ UNCHANGED <<monitorVars, spawned, out, reader>>

Moves ==
    \/ \E t \in Callers : StartEnter(t)
    \/ Kill
    \/ StartStep
    \/ \E c \in Children : ReaderStep(c) \/ ChildStep(c)
    \/ UNCHANGED machineVars

(* The monitor, the numbering of the children, and what start() has reached.*)
LifeInv ==
    /\ stage = "spawn" => currentPid = 0
    /\ lock = NoThread <=> stage = "free"
    /\ stage # "free" => pid <= 0
    /\ \A c \in Children : phase[c] = "none" <=> c > spawned
    /\ \A c \in Children : c > spawned => reader[c] = "none"
    /\ stage \in {"pid", "controller"} =>
         /\ spawned \in Children
         /\ reader[spawned] = "none"
         /\ currentPid \in {0, spawned}

(* What the pipe can hold when a child prints its pid before it ends: start *)
(* sees the pid first, so the child that is alive is the one the object     *)
(* knows, and a reader belongs to the current pid.                          *)
NoError(c) == \A i \in 1 .. Len(out[c]) : out[c][i] # "[CONTROLLER] ERROR"

PipeInv ==
    /\ \A c \in Children : NoError(c)
    /\ stage = "pid" =>
         \/ phase[spawned] = "booting" /\ out[spawned] = <<>>
         \/ out[spawned] # <<>> /\ Head(out[spawned]) = "[PID]"
    /\ stage = "controller" => currentPid = spawned
    /\ \A c \in Children : phase[c] = "none" => out[c] = <<>>
    /\ \A c \in Children :
         phase[c] = "booting" => stage = "pid" /\ c = spawned /\ out[c] = <<>>
    /\ \A c \in Children : reader[c] \in {"reading", "closing"} => pid = c
    /\ \A c \in Alive : pid = c \/ (stage \in {"pid", "controller"} /\ c = spawned)

(* What a line at the end of a pipe changes: only what is read first from   *)
(* an empty one, and no error appears that the line is not.                 *)
LEMMA AppendLine ==
    ASSUME NEW S, NEW s \in Seq(S), NEW l \in S, NEW x, l # x,
           \A i \in 1 .. Len(s) : s[i] # x
    PROVE  /\ \A i \in 1 .. Len(Append(s, l)) : Append(s, l)[i] # x
           /\ s # <<>> => Append(s, l) # <<>> /\ Head(Append(s, l)) = Head(s)
           /\ s = <<>> => Append(s, l) = <<l>>
<1>1. \A i \in 1 .. Len(Append(s, l)) : Append(s, l)[i] # x
    BY AppendProperties
<1>2. s # <<>> => Append(s, l) # <<>> /\ Head(Append(s, l)) = Head(s)
    BY AppendProperties, HeadTailAppend
<1>3. s = <<>> => Append(s, l) = <<l>>
    <2>1. Append(s, l) = s \o <<l>>
        BY AppendIsConcat
    <2>2. <<l>> \in Seq(S)
        OBVIOUS
    <2>3. <<>> \o <<l>> = <<l>>
        BY <2>2, ConcatEmptySeq
    <2>4. QED
        BY <2>1, <2>3
<1>4. QED
    BY <1>1, <1>2, <1>3

-----------------------------------------------------------------------------
(* An event is queued. *)
LEMMA ListenerType ==
    ASSUME TypeOK, NEW e \in Events, Listener(e)
    PROVE  queue' \in Seq(Events) /\ current' \in Events
BY DEF Listener, TypeOK

(* stop() changes the phase of a child and nothing else. *)
LEMMA KilledType ==
    ASSUME MachineOK, NEW c, Killed(c)
    PROVE  phase' \in [Children -> Phases]
BY DEF Killed, MachineOK, Phases

(* The holder of the monitor reads a line. *)
LEMMA TakeLineType ==
    ASSUME MachineOK, TakeLine, out[spawned] # <<>>
    PROVE  out' \in [Children -> Seq(Lines)]
<1>1. CASE spawned \in Children
    BY <1>1 DEF TakeLine, MachineOK
<1>2. CASE spawned \notin Children
    BY <1>2 DEF TakeLine, MachineOK
<1>3. QED
    BY <1>1, <1>2

(* A child prints a line. *)
LEMMA PrintType ==
    ASSUME MachineOK, NEW c \in Children, NEW l \in Lines,
           out' = [out EXCEPT ![c] = Append(@, l)]
    PROVE  out' \in [Children -> Seq(Lines)]
BY DEF MachineOK

(* The event names, for the provers that see no strings. *)
LEMMA EventNames == "STARTED" \in Events /\ "STOPPED" \in Events
BY DEF Events

(* The lines, likewise. *)
LEMMA LineNames == /\ "[PID]" \in Lines
                   /\ "[CONTROLLER] STARTED" \in Lines
                   /\ "[CONTROLLER] ERROR" \in Lines
BY DEF Lines

(* start() ends: the pid is known or 0. *)
LEMMA CommitType ==
    ASSUME MachineOK, Commit, out' \in [Children -> Seq(Lines)]
    PROVE  MachineOK'
<1>1. pid' \in -1 .. MaxChildren
    BY BoundsAssumption DEF Commit, MachineOK
<1>2. reader' \in [Children -> Readers]
    BY DEF Commit, MachineOK, Readers
<1>3. QED
    BY <1>1, <1>2 DEF Commit, MachineOK, Release

-----------------------------------------------------------------------------
(* Every variable keeps its type, whatever the threads and the bounds.      *)
LEMMA MachineStep == MachineOK /\ LifeInv /\ Moves => MachineOK'
<1> SUFFICES ASSUME MachineOK, LifeInv, Moves PROVE MachineOK'
    OBVIOUS
<1> USE DEF monitorVars, childVars
<1>1. ASSUME NEW t \in Callers, StartEnter(t) PROVE MachineOK'
    BY <1>1, BoundsAssumption DEF StartEnter, MachineOK
<1>2. CASE Kill
    BY <1>2, KilledType DEF Kill, MachineOK
<1>3. CASE SpawnFail
    BY <1>3 DEF SpawnFail, Release, MachineOK
<1>4. CASE Spawn
    <2>1. spawned' \in 0 .. MaxChildren
        BY <1>4, BoundsAssumption DEF Spawn, MachineOK, LifeInv
    <2>2. phase' \in [Children -> Phases]
        BY <1>4 DEF Spawn, MachineOK, Phases
    <2>3. QED
        BY <1>4, <2>1, <2>2 DEF Spawn, MachineOK
<1>5. CASE ReadPidLine
    BY <1>5, TakeLineType DEF ReadPidLine, MachineOK
<1>6. CASE ReadPidEOF
    BY <1>6 DEF ReadPidEOF, MachineOK
<1>7. CASE ReadControllerLine
    <2>1. out' \in [Children -> Seq(Lines)]
        BY <1>7, TakeLineType DEF ReadControllerLine
    <2>2. CASE Commit
        BY <2>1, <2>2, CommitType
    <2>3. CASE Head(out[spawned]) = "[CONTROLLER] ERROR"
        BY <1>7, <2>1, <2>3 DEF ReadControllerLine, Release, MachineOK
    <2>4. QED
        BY <1>7, <2>2, <2>3 DEF ReadControllerLine
<1>8. CASE ReadControllerEOF
    BY <1>8, CommitType DEF ReadControllerEOF, MachineOK
<1>9. ASSUME NEW c \in Children, ReaderStep(c) PROVE MachineOK'
    <2>1. CASE ReaderEOF(c)
        BY <2>1 DEF ReaderEOF, MachineOK, Readers
    <2>2. CASE ReaderClose(c)
        BY <2>2, KilledType, BoundsAssumption DEF ReaderClose, MachineOK, Readers
    <2>3. CASE ReaderAnnounce(c)
        BY <2>3 DEF ReaderAnnounce, MachineOK, Readers
    <2>4. QED
        BY <1>9, <2>1, <2>2, <2>3 DEF ReaderStep
<1>10. ASSUME NEW c \in Children, ChildStep(c) PROVE MachineOK'
    <2>1. out' \in [Children -> Seq(Lines)]
        BY <1>10, PrintType, LineNames
           DEF ChildStep, ChildFails, ChildPrintsPid, ChildServes, ChildDies, MachineOK
    <2>2. phase' \in [Children -> Phases]
        BY <1>10 DEF ChildStep, ChildFails, ChildPrintsPid, ChildServes, ChildDies,
                     MachineOK, Phases
    <2>3. QED
        BY <1>10, <2>1, <2>2
           DEF ChildStep, ChildFails, ChildPrintsPid, ChildServes, ChildDies, MachineOK
<1>11. CASE UNCHANGED machineVars
    BY <1>11 DEF machineVars, MachineOK
<1>12. QED
    BY <1>1, <1>2, <1>3, <1>4, <1>5, <1>6, <1>7, <1>8, <1>9, <1>10, <1>11
       DEF Moves, StartStep

-----------------------------------------------------------------------------
LEMMA LifeStep == MachineOK /\ LifeInv /\ Moves => LifeInv'
<1> SUFFICES ASSUME MachineOK, LifeInv, Moves PROVE LifeInv'
    OBVIOUS
<1> USE CallersAssumption, BoundsAssumption
    DEF LifeInv, MachineOK, Children, monitorVars, childVars, Release
<1>1. ASSUME NEW t \in Callers, StartEnter(t) PROVE LifeInv'
    BY <1>1 DEF StartEnter, GetProcessStatus
<1>2. CASE Kill
    BY <1>2 DEF Kill, Killed, Alive
<1>3. CASE SpawnFail
    BY <1>3 DEF SpawnFail
<1>4. CASE Spawn
    <2>1. /\ spawned < MaxChildren
          /\ spawned' = spawned + 1
          /\ spawned' \in Children
        BY <1>4 DEF Spawn
    <2>2. phase' = [phase EXCEPT ![spawned'] = "booting"]
        BY <1>4 DEF Spawn
    <2>3. \A c \in Children : phase'[c] = "none" <=> c > spawned'
        BY <2>1, <2>2
    <2>4. reader' = reader /\ currentPid' = currentPid /\ pid' = pid
          /\ stage' = "pid" /\ lock' = lock /\ stage = "spawn"
        BY <1>4 DEF Spawn
    <2>5. currentPid' \in {0, spawned'}
        BY <2>4
    <2>6. QED
        BY <2>1, <2>3, <2>4, <2>5
<1>5. CASE ReadPidLine
    BY <1>5 DEF ReadPidLine
<1>6. CASE ReadPidEOF
    BY <1>6 DEF ReadPidEOF
<1>7. CASE Commit
    BY <1>7 DEF Commit
<1>8. ASSUME Release, UNCHANGED <<pid, spawned, phase, reader>> PROVE LifeInv'
    BY <1>8
<1>9. ASSUME NEW c \in Children, ReaderStep(c) PROVE LifeInv'
    BY <1>9 DEF ReaderStep, ReaderEOF, ReaderClose, ReaderAnnounce, Killed, Alive
<1>10. ASSUME NEW c \in Children, ChildStep(c) PROVE LifeInv'
    BY <1>10
       DEF ChildStep, ChildFails, ChildPrintsPid, ChildServes, ChildDies, Alive
<1>11. CASE UNCHANGED machineVars
    BY <1>11 DEF machineVars
<1>12. QED
    BY <1>1, <1>2, <1>3, <1>4, <1>5, <1>6, <1>7, <1>8, <1>9, <1>10, <1>11
       DEF Moves, StartStep, ReadControllerLine, ReadControllerEOF

-----------------------------------------------------------------------------
(* What ClashProcess does by itself. *)
LEMMA NextMoves == [Next]_vars => Moves
<1> SUFFICES ASSUME [Next]_vars PROVE Moves
    OBVIOUS
<1>1. ASSUME NEW t \in Callers, Stop(t) PROVE Kill
    BY <1>1 DEF Stop, Kill
<1>2. CASE Deliver \/ UNCHANGED vars
    BY <1>2 DEF Deliver, vars, Moves, machineVars
<1>3. QED
    BY <1>1, <1>2 DEF Next, Moves

LEMMA TypeIs == TypeOK <=> MachineOK /\ queue \in Seq(Events) /\ current \in Events
BY DEF TypeOK, MachineOK

LEMMA EventStep ==
    TypeOK /\ [Next]_vars => queue' \in Seq(Events) /\ current' \in Events
<1> SUFFICES ASSUME TypeOK, [Next]_vars
             PROVE  queue' \in Seq(Events) /\ current' \in Events
    OBVIOUS
<1>1. CASE UNCHANGED eventVars
    BY <1>1 DEF TypeOK, eventVars
<1>2. ASSUME NEW e \in Events, Listener(e)
      PROVE  queue' \in Seq(Events) /\ current' \in Events
    BY <1>2, ListenerType
<1>3. ASSUME NEW t \in Callers, StartEnter(t) \/ Stop(t)
      PROVE  queue' \in Seq(Events) /\ current' \in Events
    BY <1>1, <1>2, <1>3, EventNames DEF StartEnter, Stop
<1>4. CASE StartStep
    <2>1. CASE SpawnFail \/ ReadControllerLine \/ ReadControllerEOF
        BY <1>2, <2>1, EventNames
           DEF SpawnFail, ReadControllerLine, ReadControllerEOF, Commit
    <2>2. CASE Spawn \/ ReadPidLine \/ ReadPidEOF
        BY <1>1, <2>2 DEF Spawn, ReadPidLine, ReadPidEOF
    <2>3. QED
        BY <1>4, <2>1, <2>2 DEF StartStep
<1>5. ASSUME NEW c \in Children, ReaderStep(c) \/ ChildStep(c)
      PROVE  queue' \in Seq(Events) /\ current' \in Events
    <2>1. CASE ReaderAnnounce(c)
        BY <1>2, <2>1, EventNames DEF ReaderAnnounce
    <2>2. CASE ReaderEOF(c) \/ ReaderClose(c) \/ ChildStep(c)
        BY <1>1, <2>2 DEF ReaderEOF, ReaderClose, ChildStep, ChildFails,
                          ChildPrintsPid, ChildServes, ChildDies
    <2>3. QED
        BY <1>5, <2>1, <2>2 DEF ReaderStep
<1>6. CASE Deliver
    BY <1>6 DEF Deliver, TypeOK
<1>7. CASE UNCHANGED vars
    BY <1>1, <1>7 DEF vars
<1>8. QED
    BY <1>3, <1>4, <1>5, <1>6, <1>7 DEF Next

LEMMA TypeStep == TypeOK /\ LifeInv /\ [Next]_vars => TypeOK' /\ LifeInv'
<1> SUFFICES ASSUME TypeOK, LifeInv, [Next]_vars PROVE TypeOK' /\ LifeInv'
    OBVIOUS
<1>1. MachineOK' /\ LifeInv'
    BY NextMoves, MachineStep, LifeStep, TypeIs
<1>2. queue' \in Seq(Events) /\ current' \in Events
    BY EventStep
<1>3. QED
    BY <1>1, <1>2 DEF TypeOK, MachineOK

(* Types, and the life of children and their readers. *)
LEMMA Base == Spec => [](TypeOK /\ LifeInv)
<1>1. Init => TypeOK /\ LifeInv
    BY BoundsAssumption, CallersAssumption
       DEF Init, TypeOK, LifeInv, Children, Events, Phases, Readers
<1>2. QED
    BY <1>1, TypeStep, PTL DEF Spec

(* Every reachable state is well typed: ClashProcess.kt:24-117.             *)
THEOREM Typing == Spec => []TypeOK
BY Base, PTL

-----------------------------------------------------------------------------
(* A positive pid always has a thread that will clear it, even when children*)
(* may end before they print a pid.                                         *)
LEMMA WatchedStep ==
    TypeOK /\ LifeInv /\ StartedIsWatched /\ [Next]_vars => StartedIsWatched'
<1> SUFFICES ASSUME TypeOK, LifeInv, StartedIsWatched, [Next]_vars
             PROVE  StartedIsWatched'
    OBVIOUS
<1>1. CASE UNCHANGED <<pid, reader>>
    BY <1>1 DEF StartedIsWatched
<1>2. ASSUME Commit, stage = "controller" PROVE StartedIsWatched'
    BY <1>2 DEF Commit, StartedIsWatched, TypeOK, LifeInv, Children
<1>3. ASSUME NEW c \in Children, ReaderStep(c) PROVE StartedIsWatched'
    <2>1. CASE ReaderClose(c)
        BY <2>1 DEF ReaderClose, StartedIsWatched
    <2>2. CASE ReaderEOF(c) \/ ReaderAnnounce(c)
        <3>1. pid' = pid /\ pid \in -1 .. MaxChildren
            BY <2>2 DEF ReaderEOF, ReaderAnnounce, monitorVars, TypeOK
        <3>2. \A d \in Children :
                reader[d] \in {"reading", "closing"}
                  => reader'[d] \in {"reading", "closing"}
            BY <2>2 DEF ReaderEOF, ReaderAnnounce, TypeOK
        <3>3. QED
            BY <3>1, <3>2, BoundsAssumption DEF StartedIsWatched, Children
    <2>3. QED
        BY <1>3, <2>1, <2>2 DEF ReaderStep
<1>4. ASSUME NEW t \in Callers, StartEnter(t) \/ Stop(t)
      PROVE  UNCHANGED <<pid, reader>>
    BY <1>4 DEF StartEnter, Stop, monitorVars
<1>5. CASE StartStep
    <2>1. CASE ReadControllerLine
        BY <2>1, <1>1, <1>2 DEF ReadControllerLine
    <2>2. CASE ReadControllerEOF
        BY <2>2, <1>2 DEF ReadControllerEOF
    <2>3. QED
        BY <1>1, <1>5, <2>1, <2>2
           DEF StartStep, SpawnFail, Spawn, ReadPidLine, ReadPidEOF
<1>6. ASSUME NEW c \in Children, ChildStep(c) PROVE UNCHANGED <<pid, reader>>
    BY <1>6 DEF ChildStep, ChildFails, ChildPrintsPid, ChildServes, ChildDies,
                monitorVars
<1>7. CASE Deliver \/ UNCHANGED vars
    BY <1>1, <1>7 DEF Deliver, vars, monitorVars
<1>8. QED
    BY <1>1, <1>3, <1>4, <1>5, <1>6, <1>7 DEF Next

(* A pid that getProcessStatus would report has a reader thread that will   *)
(* clear it (ClashProcess.kt:83-96).                                        *)
THEOREM Watched == Spec => []StartedIsWatched
<1>1. Init => StartedIsWatched
    BY DEF Init, StartedIsWatched
<1>2. QED
    BY <1>1, Base, WatchedStep, PTL DEF Spec

-----------------------------------------------------------------------------
(* STARTED is the last word of the event stream only while some reader owes *)
(* a STOPPED: a death is never the end of the story.                        *)
LEMMA Appended ==
    ASSUME TypeOK, NEW e \in Events, Listener(e)
    PROVE  LastEvent' = e
<1>1. /\ queue' # <<>>
      /\ queue'[Len(queue')] = e
    BY DEF Listener, TypeOK
<1>2. QED
    BY <1>1 DEF LastEvent

(* An event that is delivered does not change the last one. *)
LEMMA Unheard ==
    ASSUME TypeOK, Deliver
    PROVE  LastEvent' = LastEvent
<1>1. /\ queue # <<>>
      /\ queue \in Seq(Events)
      /\ queue' = Tail(queue)
      /\ current' = Head(queue)
    BY DEF TypeOK, Deliver
<1>2. CASE ~(Len(queue) > 1)
    <2>1. queue' = <<>> /\ Head(queue) = queue[Len(queue)]
        BY <1>1, <1>2
    <2>2. QED
        BY <1>1, <2>1 DEF LastEvent
<1>3. CASE Len(queue) > 1
    <2>1. queue' # <<>>
        <3>1. Len(queue') > 0
            BY <1>1, <1>3
        <3>2. Len(<<>>) = 0
            OBVIOUS
        <3>3. QED
            BY <3>1, <3>2
    <2>2. queue'[Len(queue')] = queue[Len(queue)]
        BY <1>1, <2>1
    <2>3. QED
        BY <1>1, <2>1, <2>2 DEF LastEvent
<1>4. QED
    BY <1>2, <1>3

(* No step makes STARTED the last word without somebody owing a STOPPED. *)
LEMMA LastWordStep ==
    TypeOK /\ LifeInv /\ NoFalseStarted /\ [Next]_vars => NoFalseStarted'
<1> SUFFICES ASSUME TypeOK, LifeInv, NoFalseStarted, [Next]_vars
             PROVE  NoFalseStarted'
    OBVIOUS
<1>1. ASSUME UNCHANGED reader, LastEvent' \in {LastEvent, "STOPPED"}
      PROVE  NoFalseStarted'
    BY <1>1 DEF NoFalseStarted, Owing
<1>2. ASSUME UNCHANGED reader, UNCHANGED eventVars PROVE NoFalseStarted'
    BY <1>1, <1>2 DEF LastEvent, eventVars
<1>3. ASSUME UNCHANGED reader, Listener("STOPPED") PROVE NoFalseStarted'
    BY <1>1, <1>3, Appended, EventNames
<1>4. ASSUME Commit, stage = "controller" PROVE NoFalseStarted'
    <2>1. spawned \in Owing'
        BY <1>4 DEF Commit, Owing, LifeInv, TypeOK
    <2>2. QED
        BY <2>1 DEF NoFalseStarted
<1>5. ASSUME NEW t \in Callers, StartEnter(t) \/ Stop(t) PROVE NoFalseStarted'
    BY <1>2, <1>3, <1>5 DEF StartEnter, Stop
<1>6. CASE StartStep
    <2>1. CASE ReadControllerLine
        BY <2>1, <1>3, <1>4 DEF ReadControllerLine
    <2>2. CASE ReadControllerEOF
        BY <2>2, <1>4 DEF ReadControllerEOF
    <2>3. QED
        BY <1>2, <1>3, <1>6, <2>1, <2>2
           DEF StartStep, SpawnFail, Spawn, ReadPidLine, ReadPidEOF
<1>7. ASSUME NEW c \in Children, ReaderStep(c) PROVE NoFalseStarted'
    <2>1. CASE ReaderAnnounce(c)
        BY <2>1, Appended, EventNames DEF ReaderAnnounce, NoFalseStarted
    <2>2. CASE ReaderEOF(c) \/ ReaderClose(c)
        <3>1. LastEvent' = LastEvent
            BY <2>2 DEF ReaderEOF, ReaderClose, LastEvent, eventVars
        <3>2. c \in Owing'
            BY <2>2 DEF ReaderEOF, ReaderClose, Owing, TypeOK
        <3>3. QED
            BY <3>1, <3>2 DEF NoFalseStarted
    <2>3. QED
        BY <1>7, <2>1, <2>2 DEF ReaderStep
<1>8. ASSUME NEW c \in Children, ChildStep(c) PROVE NoFalseStarted'
    BY <1>2, <1>8 DEF ChildStep, ChildFails, ChildPrintsPid, ChildServes, ChildDies
<1>9. CASE Deliver
    BY <1>1, <1>9, Unheard DEF Deliver
<1>10. CASE UNCHANGED vars
    BY <1>2, <1>10 DEF vars
<1>11. QED
    BY <1>5, <1>6, <1>7, <1>8, <1>9, <1>10 DEF Next

(* STARTED is the last word to the observers only while some reader thread  *)
(* owes them a STOPPED (ClashProcess.kt:79-96).                             *)
THEOREM LastWord == Spec => []NoFalseStarted
<1>1. Init => NoFalseStarted
    BY DEF Init, NoFalseStarted, LastEvent
<1>2. QED
    BY <1>1, Base, LastWordStep, PTL DEF Spec

-----------------------------------------------------------------------------
(* One child at a time, provided every child prints its pid before it ends. *)
LEMMA TailNoError ==
    ASSUME MachineOK, \A c \in Children : NoError(c), spawned \in Children,
           out[spawned] # <<>>, out' = [out EXCEPT ![spawned] = Tail(@)]
    PROVE  \A c \in Children : NoError(c)'
<1>1. out[spawned] \in Seq(Lines)
    BY DEF MachineOK
<1>2. /\ Len(Tail(out[spawned])) = Len(out[spawned]) - 1
      /\ \A i \in 1 .. Len(Tail(out[spawned])) :
            Tail(out[spawned])[i] = out[spawned][i + 1]
    BY <1>1, HeadTailProperties
<1>3. Len(out[spawned]) \in Nat
    BY <1>1
<1>4. ASSUME NEW i \in 1 .. Len(Tail(out[spawned]))
      PROVE  Tail(out[spawned])[i] # "[CONTROLLER] ERROR"
    <2>1. i + 1 \in 1 .. Len(out[spawned])
        BY <1>2, <1>3
    <2>2. QED
        BY <1>2, <2>1 DEF NoError
<1>5. QED
    BY <1>4 DEF NoError, MachineOK

(* What start() leaves behind when it returns normally. *)
LEMMA CommitPipe ==
    ASSUME MachineOK, LifeInv, PipeInv, stage = "controller", Commit,
           \A c \in Children : NoError(c)',
           \A c \in Children : c # spawned => out'[c] = out[c]
    PROVE  PipeInv'
<1>1. /\ spawned \in Children /\ phase[spawned] # "none"
      /\ currentPid = spawned /\ pid <= 0
    BY DEF LifeInv, PipeInv, MachineOK, Children
<1>2. /\ pid' = spawned /\ stage' = "free" /\ spawned' = spawned /\ phase' = phase
      /\ reader' = [reader EXCEPT ![spawned] = "reading"]
    BY <1>1 DEF Commit, Release
<1>3. \A c \in Children : phase'[c] = "none" => out'[c] = <<>>
    BY <1>1, <1>2 DEF PipeInv
<1>4. \A c \in Children : phase'[c] # "booting"
    BY <1>2 DEF PipeInv
<1>5. \A c \in Children : reader'[c] \in {"reading", "closing"} => pid' = c
    BY <1>1, <1>2 DEF PipeInv, MachineOK, Children
<1>6. \A c \in Alive' : pid' = c
    BY <1>1, <1>2 DEF PipeInv, Alive, Children
<1>7. QED
    BY <1>2, <1>3, <1>4, <1>5, <1>6 DEF PipeInv

(* No step breaks what the pipe says of the children. *)
LEMMA PipeStep ==
    ~MayFailEarly /\ MachineOK /\ LifeInv /\ PipeInv /\ Moves => PipeInv'
<1> SUFFICES ASSUME ~MayFailEarly, MachineOK, LifeInv, PipeInv, Moves
             PROVE  PipeInv'
    OBVIOUS
<1>1. ASSUME NEW t \in Callers, StartEnter(t) PROVE PipeInv'
    BY <1>1 DEF StartEnter, PipeInv, NoError, Alive, LifeInv, childVars, GetProcessStatus
<1>2. CASE Kill
    BY <1>2, CallersAssumption
       DEF Kill, Killed, PipeInv, NoError, Alive, LifeInv, MachineOK, monitorVars, Phases
<1>3. CASE SpawnFail
    BY <1>3 DEF SpawnFail, Release, PipeInv, NoError, Alive, childVars
<1>4. CASE Spawn
    <2>1. /\ stage = "spawn" /\ stage' = "pid"
          /\ spawned' = spawned + 1 /\ spawned' \in Children
          /\ phase' = [phase EXCEPT ![spawned'] = "booting"]
          /\ UNCHANGED <<pid, out, reader>>
        BY <1>4, BoundsAssumption DEF Spawn, LifeInv, MachineOK, Children
    <2>2. phase[spawned'] = "none" /\ out[spawned'] = <<>>
        BY <2>1 DEF LifeInv, PipeInv, MachineOK
    <2>3. \A c \in Children : c # spawned' => phase'[c] = phase[c]
        BY <2>1 DEF MachineOK
    <2>4. phase'[spawned'] = "booting"
        BY <2>1 DEF MachineOK
    <2>5. \A c \in Alive' : pid' = c \/ c = spawned'
        BY <2>1, <2>3 DEF PipeInv, Alive
    <2>6. \A c \in Children : phase'[c] = "booting" => c = spawned'
        BY <2>1, <2>3 DEF PipeInv
    <2>7. QED
        BY <2>1, <2>2, <2>3, <2>4, <2>5, <2>6 DEF PipeInv, NoError
<1>5. CASE ReadPidLine
    <2>1. /\ stage = "pid" /\ spawned \in Children /\ out[spawned] # <<>>
          /\ Head(out[spawned]) = "[PID]"
        BY <1>5 DEF ReadPidLine, PipeInv, LifeInv
    <2>2. /\ stage' = "controller" /\ currentPid' = spawned
          /\ out' = [out EXCEPT ![spawned] = Tail(@)]
          /\ UNCHANGED <<pid, spawned, phase, reader>>
        BY <1>5, <2>1 DEF ReadPidLine, TakeLine
    <2>3. \A c \in Children : NoError(c)'
        BY <2>1, <2>2, TailNoError DEF PipeInv
    <2>4. phase[spawned] # "booting" /\ phase[spawned] # "none"
        BY <2>1, LifeInv DEF PipeInv, LifeInv, MachineOK, Children
    <2>5. QED
        BY <2>1, <2>2, <2>3, <2>4 DEF PipeInv, Alive, MachineOK
<1>6. CASE ReadPidEOF
    (* A child that is dead has printed its pid: the pipe is not at its end. *)
    <2>1. FALSE
        BY <1>6 DEF ReadPidEOF, EOF, PipeInv
    <2>2. QED
        BY <2>1
<1>7. CASE ReadControllerLine
    <2>1. /\ stage = "controller" /\ spawned \in Children /\ out[spawned] # <<>>
          /\ out' = [out EXCEPT ![spawned] = Tail(@)]
        BY <1>7 DEF ReadControllerLine, TakeLine, LifeInv
    <2>2. Head(out[spawned]) # "[CONTROLLER] ERROR"
        <3>1. out[spawned] \in Seq(Lines)
            BY <2>1 DEF MachineOK
        <3>2. 1 \in 1 .. Len(out[spawned]) /\ Head(out[spawned]) = out[spawned][1]
            BY <2>1, <3>1
        <3>3. out[spawned][1] # "[CONTROLLER] ERROR"
            BY <2>1, <3>2 DEF PipeInv, NoError
        <3>4. QED
            BY <3>2, <3>3
    <2>3. Commit
        BY <1>7, <2>2 DEF ReadControllerLine
    <2>4. \A c \in Children : NoError(c)'
        BY <2>1, TailNoError DEF PipeInv
    <2>5. phase[spawned] # "none"
        BY <2>1 DEF LifeInv, Children, MachineOK
    <2>6. QED
        BY <2>1, <2>3, <2>4, <2>5, CommitPipe DEF PipeInv, MachineOK
<1>8. CASE ReadControllerEOF
    BY <1>8, CommitPipe DEF ReadControllerEOF, PipeInv, NoError
<1>9. ASSUME NEW c \in Children, ReaderStep(c) PROVE PipeInv'
    <2>1. CASE ReaderAnnounce(c)
        BY <2>1 DEF ReaderAnnounce, PipeInv, NoError, Alive, MachineOK,
                    monitorVars, childVars
    <2>2. CASE ReaderEOF(c)
        <3>1. /\ phase[c] = "dead" /\ pid = c /\ stage # "pid"
              /\ reader' = [reader EXCEPT ![c] = "closing"]
              /\ out' = [out EXCEPT ![c] = <<>>]
              /\ UNCHANGED <<stage, currentPid, pid, spawned, phase>>
            BY <2>2, BoundsAssumption
               DEF ReaderEOF, PipeInv, LifeInv, monitorVars, Children
        <3>2. \A d \in Children : out'[d] = out[d] \/ out'[d] = <<>>
            BY <3>1 DEF MachineOK
        <3>3. \A d \in Children : NoError(d)'
            <4>1. \A i \in 1 .. Len(<<>>) : FALSE
                OBVIOUS
            <4>2. QED
                BY <3>2, <4>1 DEF PipeInv, NoError
        <3>4. \A d \in Children : reader'[d] \in {"reading", "closing"} => pid' = d
            BY <3>1 DEF PipeInv, MachineOK
        <3>5. QED
            BY <3>1, <3>2, <3>3, <3>4 DEF PipeInv, Alive
    <2>3. CASE ReaderClose(c)
        <3>1. /\ stage = "free" /\ pid = c /\ pid' = -1
              /\ reader' = [reader EXCEPT ![c] = "announcing"]
              /\ Killed(c)
              /\ UNCHANGED <<stage, currentPid, spawned, out>>
            BY <2>3 DEF ReaderClose, PipeInv, LifeInv
        <3>2. \A d \in Children : /\ phase'[d] = "none" => phase[d] = "none"
                                  /\ phase'[d] = "booting" => phase[d] = "booting"
            BY <3>1 DEF Killed, Alive
        <3>3. Alive' = {}
            BY <3>1 DEF Killed, PipeInv, Alive, Children
        <3>4. \A d \in Children : ~(reader'[d] \in {"reading", "closing"})
            BY <3>1 DEF PipeInv, MachineOK
        <3>5. QED
            BY <3>1, <3>2, <3>3, <3>4 DEF PipeInv, NoError
    <2>4. QED
        BY <1>9, <2>1, <2>2, <2>3 DEF ReaderStep
<1>10. ASSUME NEW c \in Children, ChildStep(c) PROVE PipeInv'
    <2>1. ASSUME NEW l \in Lines, l # "[CONTROLLER] ERROR",
                 out' = [out EXCEPT ![c] = Append(@, l)]
          PROVE  /\ \A d \in Children : NoError(d)'
                 /\ out[c] # <<>> => out'[c] # <<>> /\ Head(out'[c]) = Head(out[c])
                 /\ out[c] = <<>> => out'[c] = <<l>>
        <3>1. /\ out[c] \in Seq(Lines) /\ out'[c] = Append(out[c], l)
              /\ \A i \in 1 .. Len(out[c]) : out[c][i] # "[CONTROLLER] ERROR"
            BY <2>1 DEF MachineOK, PipeInv, NoError
        <3>2. \A d \in Children : d # c => out'[d] = out[d]
            BY <2>1 DEF MachineOK
        <3>3. /\ \A i \in 1 .. Len(out'[c]) : out'[c][i] # "[CONTROLLER] ERROR"
              /\ out[c] # <<>> => out'[c] # <<>> /\ Head(out'[c]) = Head(out[c])
              /\ out[c] = <<>> => out'[c] = <<l>>
            <4> DEFINE s == out[c]
                       t == out'[c]
                       x == "[CONTROLLER] ERROR"
            <4>1. /\ s \in Seq(Lines) /\ l \in Lines /\ t = Append(s, l) /\ l # x
                  /\ \A i \in 1 .. Len(s) : s[i] # x
                BY <2>1, <3>1
            <4> HIDE DEF s, t, x
            <4>2. /\ \A i \in 1 .. Len(Append(s, l)) : Append(s, l)[i] # x
                  /\ s # <<>> => Append(s, l) # <<>> /\ Head(Append(s, l)) = Head(s)
                  /\ s = <<>> => Append(s, l) = <<l>>
                BY <4>1, AppendLine
            <4>3. /\ \A i \in 1 .. Len(t) : t[i] # x
                  /\ s # <<>> => t # <<>> /\ Head(t) = Head(s)
                  /\ s = <<>> => t = <<l>>
                BY <4>1, <4>2
            <4>4. QED
                BY <4>3 DEF s, t, x
        <3>4. \A d \in Children : NoError(d)'
            <4>1. ASSUME NEW d \in Children PROVE NoError(d)'
                <5>1. CASE d = c
                    BY <3>3, <5>1 DEF NoError
                <5>2. CASE d # c
                    BY <3>2, <5>2 DEF PipeInv, NoError
                <5>3. QED
                    BY <5>1, <5>2
            <4>2. QED
                BY <4>1
        <3>5. QED
            BY <3>3, <3>4
    <2>2. CASE ChildFails(c)
        BY <2>2 DEF ChildFails
    <2>3. CASE ChildPrintsPid(c)
        <3>1. /\ stage = "pid" /\ c = spawned /\ out[c] = <<>>
            BY <2>3 DEF ChildPrintsPid, PipeInv
        <3>2. out'[c] = <<"[PID]">> /\ \A d \in Children : NoError(d)'
            BY <2>1, <2>3, <3>1, LineNames DEF ChildPrintsPid
        <3>3. /\ phase' = [phase EXCEPT ![c] = "named"]
              /\ \A d \in Children : d # c => out'[d] = out[d]
              /\ UNCHANGED <<stage, currentPid, pid, spawned, reader>>
            BY <2>3 DEF ChildPrintsPid, monitorVars, MachineOK
        <3>4. /\ phase'[c] = "named"
              /\ \A d \in Children : d # c => phase'[d] = phase[d]
              /\ out'[c] # <<>> /\ Head(out'[c]) = "[PID]"
            BY <3>2, <3>3 DEF MachineOK
        <3>5. \A d \in Alive' : d \in Alive
            BY <2>3, <3>4 DEF Alive, ChildPrintsPid
        <3>6. QED
            BY <3>1, <3>2, <3>3, <3>4, <3>5 DEF PipeInv
    <2>4. CASE ChildServes(c)
        <3>1. phase[c] = "named"
            BY <2>4 DEF ChildServes
        <3>2. stage = "pid" => c # spawned \/ out[c] # <<>>
            BY <3>1 DEF PipeInv
        <3>3. /\ \A d \in Children : NoError(d)'
              /\ out[c] # <<>> => out'[c] # <<>> /\ Head(out'[c]) = Head(out[c])
            BY <2>1, <2>4, LineNames DEF ChildServes
        <3>4. /\ phase' = [phase EXCEPT ![c] = "serving"]
              /\ \A d \in Children : d # c => out'[d] = out[d]
              /\ UNCHANGED <<stage, currentPid, pid, spawned, reader>>
            BY <2>4 DEF ChildServes, monitorVars, MachineOK
        <3>5. /\ phase'[c] = "serving"
              /\ \A d \in Children : d # c => phase'[d] = phase[d]
            BY <3>4 DEF MachineOK
        <3>6. \A d \in Alive' : d \in Alive
            BY <3>1, <3>5 DEF Alive
        <3>7. QED
            BY <3>1, <3>2, <3>3, <3>4, <3>5, <3>6 DEF PipeInv, LifeInv
    <2>5. CASE ChildDies(c)
        <3>1. /\ phase[c] # "booting" /\ phase[c] # "none" /\ phase'[c] = "dead"
              /\ \A d \in Children : d # c => phase'[d] = phase[d]
              /\ UNCHANGED <<stage, currentPid, pid, spawned, out, reader>>
            BY <2>5 DEF ChildDies, Alive, MachineOK, monitorVars
        <3>2. \A d \in Alive' : d \in Alive
            BY <3>1 DEF Alive
        <3>3. QED
            BY <3>1, <3>2 DEF PipeInv, NoError, LifeInv
    <2>6. QED
        BY <1>10, <2>2, <2>3, <2>4, <2>5 DEF ChildStep
<1>11. CASE UNCHANGED machineVars
    BY <1>11 DEF machineVars, PipeInv, NoError, Alive, monitorVars, childVars
<1>12. QED
    BY <1>1, <1>2, <1>3, <1>4, <1>5, <1>6, <1>7, <1>8, <1>9, <1>10, <1>11
       DEF Moves, StartStep

LEMMA PipeIsSingle == MachineOK /\ LifeInv /\ PipeInv => SingleChild
BY DEF PipeInv, LifeInv, SingleChild, MachineOK, Alive, Children

(* "if (pid > 0) return" (ClashProcess.kt:29) keeps two children from       *)
(* living at once, provided every child prints its pid before it ends.      *)
THEOREM OneChild == ~MayFailEarly => (Spec => []SingleChild)
<1> SUFFICES ASSUME ~MayFailEarly PROVE Spec => []SingleChild
    OBVIOUS
<1>1. Init => PipeInv
    BY DEF Init, PipeInv, NoError, Alive
<1>2. TypeOK /\ LifeInv /\ PipeInv => SingleChild
    BY PipeIsSingle, TypeIs
<1>3. TypeOK /\ LifeInv /\ PipeInv /\ [Next]_vars => PipeInv'
    BY PipeStep, TypeIs, NextMoves
<1>4. QED
    BY <1>1, <1>2, <1>3, Base, PTL DEF Spec
=============================================================================
