---------------------------- MODULE StreamsProofs ----------------------------
(***************************************************************************)
(* Theorems about the parts of MCStreams, for any number of participants.  *)
(* The log: its types, that no event is sent on a closed channel, and that *)
(* no consumer misses an event.  The puller: its field holds the one       *)
(* socket there is.  The activities: which requests may be dropped.        *)
(***************************************************************************)
EXTENDS MCStreams, TLAPS

(* What holds the pieces together: the listeners are the consumers between  *)
(* Subscribe and UnSubscribe, an event is under way only to listeners, and  *)
(* a consumer that has not subscribed has received nothing.                 *)
ListenersServe ==
    \A s \in Subs : s \in listener <=> handler[s] \in {"waiting", "writing", "leaving"}
ClosedAreDone == \A s \in closed : handler[s] = "done"
RemainingListen == remaining \subseteq listener
IdleIsOwing == process # "emitting" => remaining = {}
NewIsEmpty == \A s \in Subs : handler[s] = "none" => buffer[s] = <<>> /\ seen[s] = 0

ObsInv == ListenersServe /\ ClosedAreDone /\ RemainingListen /\ IdleIsOwing /\ NewIsEmpty

(* The model's state has the types it should have. *)
THEOREM Typing == Spec => []TypeOK
<1>1. Init => TypeOK
  BY SubsAssumption, CapAssumption DEF Init, TypeOK
<1>2. TypeOK /\ [Next]_vars => TypeOK'
  <2> SUFFICES ASSUME TypeOK, [Next]_vars PROVE TypeOK'
    OBVIOUS
  <2> USE CapAssumption DEF TypeOK
  <2>1. CASE UNCHANGED vars
    BY <2>1 DEF vars, obsVars
  <2>2. ASSUME NEW l \in Loggers, Log(l) \/ Receive(l) PROVE TypeOK'
    BY <2>2 DEF Log, Receive, obsVars
  <2>3. CASE Lock \/ Unlock
    BY <2>3 DEF Lock, Unlock
  <2>4. ASSUME NEW s \in Subs, Emit(s) PROVE TypeOK'
    <3>1. /\ buffer' \in [Subs -> Seq(Nat)]
          /\ \A u \in Subs : Len(buffer'[u]) <= Cap
      BY <2>4 DEF Emit
    <3> QED
      BY <2>4, <3>1 DEF Emit
  <2>5. ASSUME NEW s \in Subs, Subscribe(s) \/ UnSubscribe(s) PROVE TypeOK'
    BY <2>5 DEF Subscribe, UnSubscribe
  <2>6. ASSUME NEW s \in Subs, Pop(s)
        PROVE /\ buffer' \in [Subs -> Seq(Nat)]
              /\ \A u \in Subs : Len(buffer'[u]) <= Cap
              /\ seen' \in [Subs -> Nat]
    <3>1. buffer[s] \in Seq(Nat) /\ buffer[s] # <<>>
      BY <2>6 DEF Pop
    <3>2. Head(buffer[s]) \in Nat /\ Tail(buffer[s]) \in Seq(Nat)
          /\ Len(Tail(buffer[s])) <= Cap
      BY <3>1
    <3> QED
      BY <2>6, <3>2 DEF Pop
  <2>7. ASSUME NEW s \in Subs, Drain(s) \/ TakeEvent(s) PROVE TypeOK'
    BY <2>6, <2>7 DEF Drain, TakeEvent, obsVars
  <2>8. ASSUME NEW s \in Subs,
               RequestEnds(s) \/ Written(s) \/ ClientLeaves(s) \/ TakeExit(s) \/ WriteFails(s)
        PROVE TypeOK'
    BY <2>8 DEF RequestEnds, Written, ClientLeaves, TakeExit, WriteFails, obsVars
  <2> QED
    BY <2>1, <2>2, <2>3, <2>4, <2>5, <2>7, <2>8 DEF Next
<1> QED
  BY <1>1, <1>2, PTL DEF Spec

(* It holds in every reachable state. *)
LEMMA ObsInvariant == Spec => []ObsInv
<1> USE DEF ListenersServe, ClosedAreDone, RemainingListen, IdleIsOwing, NewIsEmpty, ObsInv
<1>1. Init => ObsInv
  BY DEF Init
<1>2. TypeOK /\ ObsInv /\ [Next]_vars => ObsInv'
  <2> SUFFICES ASSUME TypeOK, ObsInv, [Next]_vars PROVE ObsInv'
    OBVIOUS
  <2> USE DEF TypeOK
  <2>1. CASE UNCHANGED vars
    BY <2>1 DEF vars, obsVars
  <2>2. ASSUME NEW l \in Loggers, Log(l) \/ Receive(l) PROVE ObsInv'
    BY <2>2 DEF Log, Receive, obsVars
  <2>3. CASE Lock \/ Unlock
    BY <2>3 DEF Lock, Unlock
  <2>4. ASSUME NEW s \in Subs, Emit(s) PROVE ObsInv'
    BY <2>4 DEF Emit
  <2>5. ASSUME NEW s \in Subs, Subscribe(s) PROVE ObsInv'
    BY <2>5 DEF Subscribe
  <2>6. ASSUME NEW s \in Subs, UnSubscribe(s) PROVE ObsInv'
    BY <2>6 DEF UnSubscribe
  <2>7. ASSUME NEW s \in Subs, Drain(s) \/ TakeEvent(s) PROVE ObsInv'
    <3>1. handler[s] # "none" /\ handler'[s] # "none"
      BY <2>7 DEF Drain, TakeEvent, obsVars
    <3>2. \A u \in Subs \ {s} : /\ buffer'[u] = buffer[u]
                                 /\ seen'[u] = seen[u]
                                 /\ handler'[u] = handler[u]
      BY <2>7 DEF Drain, TakeEvent, Pop, obsVars
    <3>3. NewIsEmpty'
      BY <3>1, <3>2
    <3>4. UNCHANGED <<listener, closed, remaining, process>>
      BY <2>7 DEF Drain, TakeEvent, obsVars
    <3>5. CASE Drain(s)
      BY <3>3, <3>4, <3>5 DEF Drain
    <3>6. CASE TakeEvent(s)
      <4>1. handler[s] = "waiting" /\ handler' = [handler EXCEPT ![s] = "writing"]
        BY <3>6 DEF TakeEvent
      <4> QED
        BY <3>3, <3>4, <4>1
    <3> QED
      BY <2>7, <3>5, <3>6
  <2>8. ASSUME NEW s \in Subs,
               RequestEnds(s) \/ Written(s) \/ ClientLeaves(s) \/ TakeExit(s) \/ WriteFails(s)
        PROVE ObsInv'
    BY <2>8 DEF RequestEnds, Written, ClientLeaves, TakeExit, WriteFails, obsVars
  <2> QED
    BY <2>1, <2>2, <2>3, <2>4, <2>5, <2>6, <2>7, <2>8 DEF Next
<1> QED
  BY <1>1, <1>2, Typing, PTL DEF Spec

(* Emit never sends on a closed channel. *)
THEOREM NoPanic == Spec => []NoSendOnClosed
<1>1. TypeOK /\ ObsInv => NoSendOnClosed
  BY DEF TypeOK, ObsInv, ListenersServe, ClosedAreDone, RemainingListen, NoSendOnClosed
<1> QED
  BY <1>1, Typing, ObsInvariant, PTL

-----------------------------------------------------------------------------
(* Taking the first event of a channel that holds a run of events leaves a  *)
(* run, and the event taken is the one just before it.                      *)
LEMMA TailOfRun ==
  ASSUME NEW q \in Seq(Nat), q # <<>>, NEW e \in Int,
         \A i \in 1 .. Len(q) : q[i] = e - Len(q) + i
  PROVE  /\ \A i \in 1 .. Len(Tail(q)) : Tail(q)[i] = e - Len(Tail(q)) + i
         /\ Head(q) = e - Len(Tail(q))
<1>1. Len(Tail(q)) = Len(q) - 1 /\ Len(q) \in Nat \ {0}
  OBVIOUS
<1>2. ASSUME NEW i \in 1 .. Len(Tail(q)) PROVE Tail(q)[i] = e - Len(Tail(q)) + i
  <2>1. Tail(q)[i] = q[i + 1] /\ i + 1 \in 1 .. Len(q)
    BY <1>1
  <2> QED
    BY <1>1, <2>1
<1>3. Head(q) = q[1] /\ 1 \in 1 .. Len(q)
  BY <1>1
<1> QED
  BY <1>1, <1>2, <1>3

(* Sending the next event extends the run. *)
LEMMA AppendToRun ==
  ASSUME NEW q \in Seq(Nat), NEW e \in Nat,
         \A i \in 1 .. Len(q) : q[i] = e - 1 - Len(q) + i
  PROVE  /\ \A i \in 1 .. Len(Append(q, e)) :
              Append(q, e)[i] = e - Len(Append(q, e)) + i
         /\ Len(Append(q, e)) = Len(q) + 1
<1>1. Len(Append(q, e)) = Len(q) + 1 /\ Len(q) \in Nat
  OBVIOUS
<1>2. ASSUME NEW i \in 1 .. Len(Append(q, e))
      PROVE  Append(q, e)[i] = e - Len(Append(q, e)) + i
  <2>1. CASE i = Len(q) + 1
    BY <1>1, <2>1
  <2>2. CASE i \in 1 .. Len(q)
    <3>1. Append(q, e)[i] = q[i]
      BY <2>2
    <3> QED
      BY <1>1, <2>2, <3>1
  <2> QED
    BY <1>1, <2>1, <2>2
<1> QED
  BY <1>1, <1>2

(* What NoGap says of one consumer. *)
Run(s) == /\ \A i \in 1 .. Len(buffer[s]) : buffer[s][i] = Sent(s) - Len(buffer[s]) + i
          /\ seen[s] # 0 => seen[s] = Sent(s) - Len(buffer[s])

(* A step that changes neither the channel of s, nor what it saw, nor what  *)
(* was sent to it last keeps its run.                                       *)
LEMMA RunKept ==
  ASSUME NEW s, Run(s), buffer'[s] = buffer[s], seen'[s] = seen[s], Sent(s)' = Sent(s)
  PROVE  Run(s)'
BY DEF Run

(* From its subscription on a consumer receives every event, in order.      *)
THEOREM Complete == Spec => []NoGap
<1> USE DEF NoGap
<1>1. Init => NoGap
  BY DEF Init
<1>2. TypeOK /\ ObsInv /\ NoGap /\ [Next]_vars => NoGap'
  <2> SUFFICES ASSUME TypeOK, ObsInv, NoGap, [Next]_vars, NEW s \in listener'
               PROVE  Run(s)'
    BY DEF Run
  <2>1. \A u \in listener : Run(u)
    BY DEF Run
  <2>2. CASE UNCHANGED vars
    BY <2>1, <2>2, RunKept DEF vars, obsVars, Sent
  <2>3. ASSUME NEW l \in Loggers, Log(l) PROVE Run(s)'
    BY <2>1, <2>3, RunKept DEF Log, obsVars, Sent
  <2>4. ASSUME NEW l \in Loggers, Receive(l) PROVE Run(s)'
    <3>1. item \in Nat /\ s \notin remaining
      BY <2>4 DEF Receive, TypeOK, ObsInv, IdleIsOwing
    <3>2. Sent(s)' = Sent(s)
      BY <2>4, <3>1 DEF Receive, Sent
    <3> QED
      BY <2>1, <2>4, <3>2, RunKept DEF Receive
  <2>5. CASE Lock
    BY <2>1, <2>5, RunKept DEF Lock, Sent
  <2>6. CASE Unlock
    BY <2>1, <2>6, RunKept DEF Unlock, Sent
  <2>7. ASSUME NEW u \in Subs, Emit(u) PROVE Run(s)'
    <3>1. CASE s # u
      <4>1. Sent(s)' = Sent(s)
        BY <2>7, <3>1 DEF Emit, Sent
      <4> QED
        BY <2>1, <2>7, <3>1, <4>1, RunKept DEF Emit, TypeOK
    <3>2. CASE s = u
      <4>1. s \in listener /\ Run(s)
        BY <2>1, <2>7 DEF Emit
      <4>2. Sent(s) = item - 1 /\ Sent(s)' = item
        BY <2>7, <3>2 DEF Emit, Sent
      <4>3. buffer'[s] = Append(buffer[s], item) /\ seen'[s] = seen[s]
        BY <2>7, <3>2 DEF Emit, TypeOK
      <4>4. buffer[s] \in Seq(Nat) /\ item \in Nat /\ seen[s] \in Nat
        BY <3>2 DEF TypeOK
      <4>5. /\ \A i \in 1 .. Len(buffer[s]) : buffer[s][i] = item - 1 - Len(buffer[s]) + i
            /\ seen[s] # 0 => seen[s] = item - 1 - Len(buffer[s])
        BY <4>1, <4>2 DEF Run
      <4> DEFINE q == buffer[s]
                 r == buffer'[s]
      <4>6. r = Append(q, item) /\ q \in Seq(Nat)
        BY <4>3, <4>4
      <4>7. \A i \in 1 .. Len(q) : q[i] = item - 1 - Len(q) + i
        BY <4>5
      <4>8. seen'[s] # 0 => seen'[s] = item - 1 - Len(q)
        BY <4>3, <4>5
      <4>9. (\A i \in 1 .. Len(r) : r[i] = item - Len(r) + i)
            /\ (seen'[s] # 0 => seen'[s] = item - Len(r))
        <5> HIDE DEF q, r
        <5>1. (\A i \in 1 .. Len(r) : r[i] = item - Len(r) + i) /\ Len(r) = Len(q) + 1
          BY <4>4, <4>6, <4>7, AppendToRun
        <5>2. Len(q) \in Nat
          BY <4>6
        <5> QED
          BY <4>4, <4>8, <5>1, <5>2
      <4> QED
        BY <4>2, <4>9 DEF Run
    <3> QED
      BY <3>1, <3>2
  <2>8. ASSUME NEW u \in Subs, Subscribe(u) PROVE Run(s)'
    <3>1. CASE s = u
      <4>1. buffer'[s] = <<>> /\ seen'[s] = 0
        BY <2>8, <3>1 DEF Subscribe, ObsInv, NewIsEmpty
      <4> QED
        BY <4>1 DEF Run
    <3>2. CASE s # u
      BY <2>1, <2>8, <3>2, RunKept DEF Subscribe, Sent
    <3> QED
      BY <3>1, <3>2
  <2>9. ASSUME NEW u \in Subs, UnSubscribe(u) PROVE Run(s)'
    BY <2>1, <2>9, RunKept DEF UnSubscribe, Sent
  <2>10. ASSUME NEW u \in Subs, Drain(u) \/ TakeEvent(u) PROVE Run(s)'
    <3>1. Pop(u) /\ UNCHANGED <<process, item, remaining, listener>>
      BY <2>10 DEF Drain, TakeEvent, obsVars
    <3>2. Sent(s)' = Sent(s) /\ s \in listener /\ Run(s)
      BY <2>1, <3>1 DEF Sent
    <3>3. CASE s # u
      BY <3>1, <3>2, <3>3, RunKept DEF Pop, TypeOK
    <3>4. CASE s = u
      <4>1. buffer[s] \in Seq(Nat) /\ buffer[s] # <<>> /\ Sent(s) \in Int
        BY <3>1, <3>4 DEF Pop, TypeOK, Sent
      <4>2. buffer'[s] = Tail(buffer[s]) /\ seen'[s] = Head(buffer[s])
        BY <3>1, <3>4 DEF Pop, TypeOK
      <4>3. \A i \in 1 .. Len(buffer[s]) : buffer[s][i] = Sent(s) - Len(buffer[s]) + i
        BY <3>2 DEF Run
      <4> DEFINE q == buffer[s]
                 r == buffer'[s]
                 e == Sent(s)
      <4>4. q \in Seq(Nat) /\ q # <<>> /\ e \in Int /\ r = Tail(q) /\ seen'[s] = Head(q)
        BY <4>1, <4>2
      <4>5. \A i \in 1 .. Len(q) : q[i] = e - Len(q) + i
        BY <4>3
      <4>6. (\A i \in 1 .. Len(r) : r[i] = e - Len(r) + i) /\ seen'[s] = e - Len(r)
        <5> HIDE DEF q, r, e
        <5> QED
          BY <4>4, <4>5, TailOfRun
      <4> QED
        BY <3>2, <4>6 DEF Run
    <3> QED
      BY <3>3, <3>4
  <2>11. ASSUME NEW u \in Subs,
                RequestEnds(u) \/ Written(u) \/ ClientLeaves(u) \/ TakeExit(u) \/ WriteFails(u)
         PROVE Run(s)'
    BY <2>1, <2>11, RunKept
       DEF RequestEnds, Written, ClientLeaves, TakeExit, WriteFails, obsVars, Sent
  <2> QED
    BY <2>2, <2>3, <2>4, <2>5, <2>6, <2>7, <2>8, <2>9, <2>10, <2>11 DEF Next
<1> QED
  BY <1>1, <1>2, Typing, ObsInvariant, PTL DEF Spec

-----------------------------------------------------------------------------
(* EventPuller.  The socket in the field belongs to a thread that pulls or  *)
(* is about to clear the field.                                             *)
PullerTyped ==
    thread \in [Puller!Threads -> {"none", "connecting", "connected", "pulling", "ending", "done"}]
OwnerInv == slot # 0 => slot \in Puller!Threads /\ thread[slot] \in {"pulling", "ending"}

SlotKept == slot # 0 /\ slot' # 0 => slot' = slot

LEMMA PullerStep ==
  ASSUME PullerTyped, OwnerInv, Puller!Next
  PROVE  (PullerTyped /\ OwnerInv)' /\ SlotKept
<1> USE DEF PullerTyped, OwnerInv, SlotKept
<1>1. ASSUME NEW t \in Puller!Threads, Puller!StartSpeedPull(t) PROVE (PullerTyped /\ OwnerInv)' /\ SlotKept
  BY <1>1 DEF Puller!StartSpeedPull
<1>2. ASSUME NEW t \in Puller!Threads, Puller!Connect(t) PROVE (PullerTyped /\ OwnerInv)' /\ SlotKept
  BY <1>2 DEF Puller!Connect
<1>3. ASSUME NEW t \in Puller!Threads, Puller!Initial(t) PROVE (PullerTyped /\ OwnerInv)' /\ SlotKept
  BY <1>3 DEF Puller!Initial
<1>4. ASSUME NEW t \in Puller!Threads, Puller!ReadFails(t) PROVE (PullerTyped /\ OwnerInv)' /\ SlotKept
  BY <1>4 DEF Puller!ReadFails
<1>5. ASSUME NEW t \in Puller!Threads, Puller!Clear(t) PROVE (PullerTyped /\ OwnerInv)' /\ SlotKept
  BY <1>5 DEF Puller!Clear
<1>6. ASSUME NEW t \in Puller!Threads, Puller!ServerExit(t) PROVE (PullerTyped /\ OwnerInv)' /\ SlotKept
  BY <1>6 DEF Puller!ServerExit
<1>7. CASE Puller!StopSpeedPull \/ Puller!ChildDies
  BY <1>7 DEF Puller!StopSpeedPull, Puller!ChildDies
<1> QED
  BY <1>1, <1>2, <1>3, <1>4, <1>5, <1>6, <1>7 DEF Puller!Next

(* A step of the suite is a step of the puller or leaves it alone.          *)
LEMMA PullerMoves ==
  [StreamsNext]_allVars => Puller!Next \/ UNCHANGED Puller!vars
<1> SUFFICES ASSUME [StreamsNext]_allVars PROVE Puller!Next \/ UNCHANGED Puller!vars
  OBVIOUS
<1>1. CASE UNCHANGED allVars \/ UNCHANGED pullerVars
  BY <1>1 DEF allVars, pullerVars, Puller!vars
<1>2. ASSUME NEW t \in 1 .. MaxThreads,
             \/ Pull(Puller!StartSpeedPull(t)) \/ Pull(Puller!Connect(t)) \/ Pull(Puller!Initial(t))
             \/ Pull(Puller!ReadFails(t)) \/ Pull(Puller!Clear(t)) \/ Pull(Puller!ServerExit(t))
      PROVE  Puller!Next
  <2>1. t \in Puller!Threads
    BY DEF Puller!Threads
  <2> QED
    BY <1>2, <2>1 DEF Pull, Puller!Next
<1>3. CASE Pull(Puller!StopSpeedPull) \/ Pull(Puller!ChildDies)
  BY <1>3 DEF Pull, Puller!Next
<1> QED
  BY <1>1, <1>2, <1>3 DEF StreamsNext, LogStep, Activity

(* The socket in the field belongs to a thread that will still clear it,    *)
(* and is never replaced by another: what start and stop find in the field  *)
(* is the one stream there is.  The safety half of PullerIsSound.           *)
THEOREM OneSocket == StreamsSpec => Puller!SlotIsSound
<1>1. StreamsInit => PullerTyped /\ OwnerInv
  BY DEF StreamsInit, Puller!Init, PullerTyped, OwnerInv
<1>2. PullerTyped /\ OwnerInv /\ [StreamsNext]_allVars
        => (PullerTyped /\ OwnerInv)' /\ (SlotKept \/ UNCHANGED Puller!vars)
  <2> SUFFICES ASSUME PullerTyped, OwnerInv, [StreamsNext]_allVars
               PROVE  (PullerTyped /\ OwnerInv)' /\ (SlotKept \/ UNCHANGED Puller!vars)
    OBVIOUS
  <2>1. CASE Puller!Next
    BY <2>1, PullerStep
  <2>2. CASE UNCHANGED Puller!vars
    BY <2>2 DEF Puller!vars, PullerTyped, OwnerInv
  <2> QED
    BY <2>1, <2>2, PullerMoves
<1>3. PullerTyped /\ OwnerInv /\ (PullerTyped /\ OwnerInv)' /\ (SlotKept \/ UNCHANGED Puller!vars)
        => [/\ slot' # 0 => thread'[slot'] \in {"pulling", "ending"}
            /\ slot # 0 /\ slot' # 0 => slot' = slot]_(Puller!vars)
  BY DEF OwnerInv, SlotKept
<1> QED
  BY <1>1, <1>2, <1>3, PTL DEF StreamsSpec, Puller!SlotIsSound

-----------------------------------------------------------------------------
(* ActivityConnection.  A handler that has not ended has a service to ask,  *)
(* and is the only one of its connection, unless that was connected again   *)
(* too early; between the two assignments of onServiceConnected nobody else *)
(* can clear the first.                                                     *)
Alive == {"take", "run"}
ActivityTyped ==
    /\ threads \in [Activities!Threads ->
                      [at : {"none", "take", "run", "ended"}, of : Activities!Connections \cup {0},
                       interrupted : BOOLEAN, block : Nat]]
    /\ clash \in [Activities!Connections -> Nat]
    /\ service \in Nat /\ made \in Nat /\ requests \in Nat /\ pending \in Seq(Nat)
    /\ binding # "none" \/ main # "idle" => connection \in Activities!Connections
    /\ main \in {"idle", "thread", "field"}
AliveOf(c) == {t \in Activities!Threads : threads[t].at \in Alive /\ threads[t].of = c}
ServedInv ==
    \A t \in Activities!Threads :
        threads[t].at \in Alive /\ threads[t].of \notin overlapped
            => threads[t].of \in Activities!Connections /\ clash[threads[t].of] # 0
AloneInv ==
    \A t, u \in Activities!Threads :
        threads[t].at \in Alive /\ threads[u].at \in Alive /\ threads[t].of = threads[u].of
            => t = u \/ threads[t].of \in overlapped
NewInv ==
    main = "thread" /\ connection \notin overlapped
        => AliveOf(connection) = {} /\ clash[connection] # 0

ActivityInv == ActivityTyped /\ ServedInv /\ AloneInv /\ NewInv /\ Activities!NothingDropped

LEMMA ActivityInit == Activities!Init => ActivityInv
<1> SUFFICES ASSUME Activities!Init PROVE ActivityInv
  OBVIOUS
<1>1. ActivityTyped
  BY DEF Activities!Init, ActivityTyped, Activities!Unstarted
<1>2. \A t \in Activities!Threads : threads[t].at \notin Alive
  BY DEF Activities!Init, Activities!Unstarted, Alive
<1> QED
  BY <1>1, <1>2 DEF ActivityInv, ServedInv, AloneInv, NewInv, Activities!Init, Activities!NothingDropped

(* A step that lets nobody live who has not lived, in the connection he had,*)
(* and clears no service, keeps what is said of handlers.                   *)
LEMMA NobodyNew ==
  ASSUME ActivityInv, ActivityTyped',
         \A t \in Activities!Threads :
            threads'[t].at \in Alive => threads[t].at \in Alive /\ threads'[t].of = threads[t].of,
         clash' = clash, overlapped' = overlapped, lost' = lost,
         main' = "thread" => main = "thread" /\ connection' = connection
  PROVE  ActivityInv'
<1>1. ServedInv' /\ AloneInv'
  BY DEF ActivityInv, ServedInv, AloneInv
<1>2. NewInv'
  BY DEF ActivityInv, NewInv, AliveOf
<1>3. Activities!NothingDropped'
  BY DEF ActivityInv, Activities!NothingDropped
<1> QED
  BY <1>1, <1>2, <1>3 DEF ActivityInv

(* Interrupting a handler leaves it where it is.                            *)
LEMMA Interrupted ==
  ASSUME NEW t, ActivityTyped, Activities!Interrupt(t)
  PROVE  /\ threads' \in [Activities!Threads ->
                            [at : {"none", "take", "run", "ended"}, of : Activities!Connections \cup {0},
                             interrupted : BOOLEAN, block : Nat]]
         /\ \A u \in Activities!Threads : threads'[u].at = threads[u].at /\ threads'[u].of = threads[u].of
BY DEF ActivityTyped, Activities!Interrupt

LEMMA ActivityStep == ActivityInv /\ Activities!Next => ActivityInv'
<1> SUFFICES ASSUME ActivityInv, Activities!Next PROVE ActivityInv'
  OBVIOUS
<1> USE DEF Activities!activities, Activities!asked, Activities!fields
<1>t. ActivityTyped
  BY DEF ActivityInv
<1>1. CASE Activities!OnCreate
  <2>1. ActivityTyped'
    <3>1. CASE connection' = made + 1 /\ made' = made + 1 /\ made < MaxHandlers
      <4>1. made + 1 \in Activities!Connections
        BY <1>t, <3>1, HandlersAssumption DEF Activities!Connections, ActivityTyped
      <4> QED
        BY <1>1, <1>t, <3>1, <4>1 DEF Activities!OnCreate, ActivityTyped
    <3>2. CASE connection' = connection /\ made' = made /\ binding' = binding
      BY <1>1, <1>t, <3>2 DEF Activities!OnCreate, ActivityTyped
    <3> QED
      BY <1>1, <3>1, <3>2 DEF Activities!OnCreate
  <2> QED
    BY <1>1, <2>1, NobodyNew DEF Activities!OnCreate
<1>2. CASE Activities!OnDestroy
  <2>1. CASE activityCount = 1 /\ Activities!OnServiceDisconnected(connection)
    <3>1. ActivityTyped'
      BY <1>2, <1>t, <2>1, Interrupted
         DEF Activities!OnDestroy, Activities!OnServiceDisconnected, ActivityTyped, Activities!NoConnection
    <3> QED
      BY <1>2, <1>t, <2>1, <3>1, Interrupted, NobodyNew
         DEF Activities!OnDestroy, Activities!OnServiceDisconnected
  <2>2. CASE UNCHANGED <<connection, binding, clash, requestHandler, threads>>
    <3>1. ActivityTyped'
      BY <1>2, <1>t, <2>2 DEF Activities!OnDestroy, ActivityTyped
    <3> QED
      BY <1>2, <2>2, <3>1, NobodyNew DEF Activities!OnDestroy
  <2> QED
    BY <1>2, <2>1, <2>2 DEF Activities!OnDestroy
<1>3. CASE Activities!RunClash
  <2>1. ActivityTyped'
    BY <1>3, <1>t DEF Activities!RunClash, ActivityTyped
  <2> QED
    BY <1>3, <2>1, NobodyNew DEF Activities!RunClash
<1>4. CASE Activities!ServiceDies \/ Activities!ServiceReturns
  <2>1. ActivityTyped'
    BY <1>4, <1>t DEF Activities!ServiceDies, Activities!ServiceReturns, ActivityTyped
  <2> QED
    BY <1>4, <2>1, NobodyNew DEF Activities!ServiceDies, Activities!ServiceReturns
<1>5. CASE Activities!Disconnect
  <2>1. ActivityTyped'
    BY <1>5, <1>t, Interrupted
       DEF Activities!Disconnect, Activities!OnServiceDisconnected, ActivityTyped
  <2> QED
    BY <1>5, <1>t, <2>1, Interrupted, NobodyNew
       DEF Activities!Disconnect, Activities!OnServiceDisconnected
<1>6. CASE Activities!ConnectClash
  <2>1. service # 0
    BY <1>6 DEF Activities!ConnectClash, Activities!Up
  <2>2. connection \in Activities!Connections
    BY <1>6, <1>t DEF Activities!ConnectClash, ActivityTyped
  <2>3. ActivityTyped'
    BY <1>6, <1>t, <2>2 DEF Activities!ConnectClash, ActivityTyped
  <2>4. clash'[connection] # 0 /\ \A c \in Activities!Connections : clash[c] # 0 => clash'[c] # 0
    BY <1>6, <1>t, <2>1, <2>2 DEF Activities!ConnectClash, ActivityTyped
  <2>5. UNCHANGED <<threads, lost, connection>> /\ overlapped \subseteq overlapped'
    BY <1>6 DEF Activities!ConnectClash
  <2>6. ServedInv' /\ AloneInv'
    BY <2>4, <2>5 DEF ActivityInv, ServedInv, AloneInv
  <2>7. \A t \in AliveOf(connection) : connection \in overlapped'
    BY <1>6 DEF Activities!ConnectClash, AliveOf, Alive, Activities!Started, Activities!Ended
  <2>8. NewInv'
    BY <2>4, <2>5, <2>7 DEF NewInv, AliveOf
  <2>9. Activities!NothingDropped'
    BY <2>5 DEF ActivityInv, Activities!NothingDropped
  <2> QED
    BY <2>3, <2>6, <2>8, <2>9 DEF ActivityInv
<1>7. CASE Activities!ConnectThread
  <2> DEFINE n == Activities!Cardinality(Activities!Started) + 1
             h == [at |-> "take", of |-> connection, interrupted |-> FALSE, block |-> 0]
  <2>1. connection \in Activities!Connections /\ main = "thread"
    BY <1>7, <1>t DEF Activities!ConnectThread, ActivityTyped
  <2>2. threads' = [threads EXCEPT ![n] = h]
    BY <1>7 DEF Activities!ConnectThread
  <2>3. UNCHANGED <<clash, overlapped, lost, connection, service, made, requests, pending, binding>>
        /\ main' = "field"
    BY <1>7 DEF Activities!ConnectThread
  <2> HIDE DEF n
  <2>4. \A t \in Activities!Threads : threads'[t] = IF t = n THEN h ELSE threads[t]
    BY <1>t, <2>2 DEF ActivityTyped
  <2>5. ActivityTyped'
    BY <1>t, <2>1, <2>2, <2>3 DEF ActivityTyped
  <2>6. connection \in overlapped \/ (AliveOf(connection) = {} /\ clash[connection] # 0)
    BY <2>1 DEF ActivityInv, NewInv
  <2>7. ServedInv'
    <3> SUFFICES ASSUME NEW t \in Activities!Threads,
                        threads'[t].at \in Alive, threads'[t].of \notin overlapped
                 PROVE  threads'[t].of \in Activities!Connections /\ clash[threads'[t].of] # 0
      BY <2>3 DEF ServedInv
    <3> QED
      BY <2>1, <2>4, <2>6 DEF ActivityInv, ServedInv
  <2>8. AloneInv'
    <3> SUFFICES ASSUME NEW t \in Activities!Threads, NEW u \in Activities!Threads,
                        threads'[t].at \in Alive, threads'[u].at \in Alive,
                        threads'[t].of = threads'[u].of, t # u
                 PROVE  threads'[t].of \in overlapped
      BY <2>3 DEF AloneInv
    <3>1. CASE t # n /\ u # n
      BY <2>4, <3>1 DEF ActivityInv, AloneInv
    <3>2. CASE t = n
      BY <2>4, <2>6, <3>2 DEF AliveOf
    <3>3. CASE u = n
      BY <2>4, <2>6, <3>3 DEF AliveOf
    <3> QED
      BY <3>1, <3>2, <3>3
  <2>9. NewInv' /\ Activities!NothingDropped'
    BY <2>3 DEF ActivityInv, NewInv, Activities!NothingDropped
  <2> QED
    BY <2>5, <2>7, <2>8, <2>9 DEF ActivityInv
<1>8. CASE Activities!ConnectField
  <2>1. ActivityTyped'
    BY <1>8, <1>t DEF Activities!ConnectField, ActivityTyped
  <2> QED
    BY <1>8, <2>1, NobodyNew DEF Activities!ConnectField
<1>9. ASSUME NEW t \in Activities!Threads, Activities!Take(t) PROVE ActivityInv'
  <2>1. Head(pending) \in Nat /\ Tail(pending) \in Seq(Nat)
    BY <1>9, <1>t DEF Activities!Take, ActivityTyped
  <2>2. ActivityTyped'
    BY <1>9, <1>t, <2>1 DEF Activities!Take, ActivityTyped
  <2>3. \A u \in Activities!Threads :
            threads'[u].at \in Alive => threads[u].at \in Alive /\ threads'[u].of = threads[u].of
    BY <1>9, <1>t DEF Activities!Take, ActivityTyped, Alive
  <2> QED
    BY <1>9, <2>2, <2>3, NobodyNew DEF Activities!Take
<1>10. ASSUME NEW t \in Activities!Threads, Activities!Run(t) PROVE ActivityInv'
  <2>1. ActivityTyped'
    BY <1>10, <1>t DEF Activities!Run, ActivityTyped
  <2>2. \A u \in Activities!Threads :
            threads'[u].at \in Alive => threads[u].at \in Alive /\ threads'[u].of = threads[u].of
    BY <1>10, <1>t DEF Activities!Run, ActivityTyped, Alive
  <2>3. UNCHANGED <<clash, overlapped, main, connection>>
    BY <1>10 DEF Activities!Run
  <2>4. ServedInv' /\ AloneInv' /\ NewInv'
    BY <2>2, <2>3 DEF ActivityInv, ServedInv, AloneInv, NewInv, AliveOf
  <2>5. clash[threads[t].of] # 0 \/ overlapped # {}
    BY <1>10 DEF Activities!Run, ActivityInv, ServedInv, Alive
  <2>6. Activities!NothingDropped'
    BY <1>10, <2>3, <2>5 DEF Activities!Run, ActivityInv, Activities!NothingDropped
  <2> QED
    BY <2>1, <2>4, <2>6 DEF ActivityInv
<1>11. ASSUME NEW t \in Activities!Threads, Activities!End(t) PROVE ActivityInv'
  <2> DEFINE c == threads[t].of
  <2>1. ActivityTyped'
    BY <1>11, <1>t DEF Activities!End, ActivityTyped
  <2>2. \A u \in Activities!Threads :
            threads'[u].at \in Alive =>
               u # t /\ threads[u].at \in Alive /\ threads'[u].of = threads[u].of
    BY <1>11, <1>t DEF Activities!End, ActivityTyped, Alive
  <2>3. \A d \in Activities!Connections : d # c => clash'[d] = clash[d]
    BY <1>11, <1>t DEF Activities!End, ActivityTyped
  <2>4. UNCHANGED <<overlapped, lost, main, connection>> /\ threads[t].at \in Alive
    BY <1>11 DEF Activities!End, Alive
  <2>5. \A u \in Activities!Threads :
            u # t /\ threads[u].at \in Alive /\ threads[u].of = c => c \in overlapped
    BY <2>4 DEF ActivityInv, AloneInv
  <2>6. ServedInv' /\ AloneInv'
    BY <2>2, <2>3, <2>4, <2>5 DEF ActivityInv, ServedInv, AloneInv
  <2>7. NewInv'
    <3> SUFFICES ASSUME main = "thread", connection \notin overlapped
                 PROVE  AliveOf(connection)' = {} /\ clash'[connection] # 0
      BY <2>4 DEF NewInv
    <3>1. AliveOf(connection) = {} /\ clash[connection] # 0
      BY DEF ActivityInv, NewInv
    <3>2. connection # c /\ connection \in Activities!Connections
      BY <1>t, <2>4, <3>1 DEF AliveOf, ActivityTyped
    <3> QED
      BY <2>2, <2>3, <2>4, <3>1, <3>2 DEF AliveOf
  <2>8. Activities!NothingDropped'
    BY <2>4 DEF ActivityInv, Activities!NothingDropped
  <2> QED
    BY <2>1, <2>6, <2>7, <2>8 DEF ActivityInv
<1> QED
  BY <1>1, <1>2, <1>3, <1>4, <1>5, <1>6, <1>7, <1>8, <1>9, <1>10, <1>11
     DEF Activities!Next, Activities!Connected, Activities!Handler

(* No request of an activity is dropped unless a connection was connected   *)
(* again before its last handler had ended (BaseActivity.kt's two monitors);*)
(* for any number of activities, handlers, deaths of the service and        *)
(* requests.  The safety half of RequestsAreRun.                            *)
THEOREM NoRequestDropped == StreamsSpec => []Activities!NothingDropped
<1>1. StreamsInit => ActivityInv
  BY ActivityInit DEF StreamsInit
<1>2. ActivityInv /\ [StreamsNext]_allVars => ActivityInv'
  <2>1. ActivityInv /\ UNCHANGED activityVars => ActivityInv'
    BY DEF activityVars, ActivityInv, ActivityTyped, ServedInv, AloneInv, NewInv, AliveOf,
           Activities!NothingDropped
  <2>2. [StreamsNext]_allVars => Activities!Next \/ UNCHANGED activityVars
    <3> SUFFICES ASSUME [StreamsNext]_allVars PROVE Activities!Next \/ UNCHANGED activityVars
      OBVIOUS
    <3>1. CASE UNCHANGED allVars
      BY <3>1 DEF allVars
    <3>2. CASE Activity(Activities!Next)
      BY <3>2 DEF Activity
    <3> QED
      BY <3>1, <3>2 DEF StreamsNext, LogStep, Pull
  <2> QED
    BY <2>1, <2>2, ActivityStep
<1>3. ActivityInv => Activities!NothingDropped
  BY DEF ActivityInv
<1> QED
  BY <1>1, <1>2, <1>3, PTL DEF StreamsSpec
=============================================================================
