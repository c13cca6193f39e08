------------------------------- MODULE MCStreams -------------------------------
(***************************************************************************)
(* What passes between the processes: the log of the core and its          *)
(* subscribers, the event puller, and the requests of the activities.  A   *)
(* behaviour is about one of the three, the subject; the others stay as    *)
(* they are.                                                               *)
(***************************************************************************)
EXTENDS LogStream, FiniteSets, TLC

CONSTANTS l1, l2, s1, s2, MaxThreads, Subjects,
          MaxActivities, MaxHandlers, MaxRequests

MCLoggers == {l1, l2}
MCSubs == {s1, s2}
MCOne == {s1}
MCNone == {}

VARIABLES subject, slot, thread, client, server, told, child,
    activityCount, connection, made, clash, requestHandler, binding, main,
    service, pending, threads, requests, lost, overlapped, dead
pullerVars == <<slot, thread, client, server, told, child>>
activityVars == <<activityCount, connection, made, clash, requestHandler, binding, main,
                  service, pending, threads, requests, lost, overlapped, dead>>
allVars == <<subject, vars, pullerVars, activityVars>>

Puller == INSTANCE EventPuller
Activities == INSTANCE ActivityConnection WITH thread <- threads, MaxThreads <- MaxHandlers

(* A bound is a number.                                                     *)
ASSUME HandlersAssumption == MaxHandlers \in Nat

StreamsInit ==
    /\ subject \in Subjects
    /\ Init /\ Puller!Init /\ Activities!Init

LogStep(A) == subject = "log" /\ A /\ UNCHANGED <<subject, pullerVars, activityVars>>
Pull(A) == subject = "puller" /\ A /\ UNCHANGED <<subject, vars, activityVars>>
Activity(A) == subject = "activities" /\ A /\ UNCHANGED <<subject, vars, pullerVars>>

StreamsNext ==
    \/ \E l \in Loggers : LogStep(Log(l)) \/ LogStep(Receive(l))
    \/ LogStep(Lock) \/ LogStep(Unlock)
    \/ \E s \in Subs :
         \/ LogStep(Emit(s)) \/ LogStep(Subscribe(s)) \/ LogStep(UnSubscribe(s))
         \/ LogStep(Drain(s)) \/ LogStep(RequestEnds(s))
         \/ LogStep(TakeEvent(s)) \/ LogStep(Written(s)) \/ LogStep(ClientLeaves(s))
         \/ LogStep(TakeExit(s)) \/ LogStep(WriteFails(s))
    \/ \E t \in 1 .. MaxThreads :
         \/ Pull(Puller!StartSpeedPull(t)) \/ Pull(Puller!Connect(t)) \/ Pull(Puller!Initial(t))
         \/ Pull(Puller!ReadFails(t)) \/ Pull(Puller!Clear(t)) \/ Pull(Puller!ServerExit(t))
    \/ Pull(Puller!StopSpeedPull) \/ Pull(Puller!ChildDies)
    \/ Activity(Activities!Next)

(* The fairness of the three modules, each for its own subject.             *)
StreamsSpec ==
    /\ StreamsInit /\ [][StreamsNext]_allVars
    /\ \A l \in Loggers : SF_allVars(LogStep(Receive(l)))
    /\ WF_allVars(LogStep(Lock)) /\ WF_allVars(LogStep(Unlock))
    /\ \A s \in Subs :
         /\ WF_allVars(LogStep(Emit(s))) /\ SF_allVars(LogStep(UnSubscribe(s)))
         /\ WF_allVars(LogStep(Drain(s)))
         /\ WF_allVars(LogStep(TakeEvent(s) \/ TakeExit(s)))
         /\ WF_allVars(LogStep(Written(s) \/ WriteFails(s)))
    /\ \A t \in 1 .. MaxThreads :
         /\ WF_allVars(Pull(Puller!Connect(t) \/ Puller!Initial(t) \/ Puller!Clear(t) \/ Puller!ServerExit(t)))
         /\ WF_allVars(Pull(Puller!ReadFails(t) /\ server[t] = "gone"))
    /\ WF_allVars(Activity(~dead /\ Activities!Connected))
    /\ WF_allVars(Activity(~dead /\ Activities!ServiceReturns))
    /\ \A t \in 1 .. MaxHandlers : WF_allVars(Activity(~dead /\ Activities!Handler(t)))

(* The socket in the field of the puller belongs to a thread that will      *)
(* still clear it, and is never replaced by another, which stop could then  *)
(* not reach; a stop that found its socket, the loss of the race and the    *)
(* death of the child end the thread and the handler in the child.          *)
PullerIsSound == Puller!SlotIsSound /\ Puller!StreamsEnd

(* No request of an activity is dropped and every handler left behind ends, *)
(* unless a connection came back before its handler had ended; requests are *)
(* always taken while an activity remains.                                  *)
RequestsAreRun ==
    /\ []Activities!NothingDropped
    /\ Activities!HandlersEnd
    /\ Activities!RequestsAreTaken
=============================================================================
