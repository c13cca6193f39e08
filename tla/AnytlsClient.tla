----------------------------- MODULE AnytlsClient -----------------------------
(***************************************************************************)
(* transport/anytls/session: a client that opens each stream on a session  *)
(* of its own, takes idle sessions from a pool and puts them back when the *)
(* stream dies.  A session dies of a read or write error, of an answer     *)
(* that does not come, of the clean-up of idle sessions or with the client *)
(* itself.  Whoever closes a session or a stream first runs its hook once. *)
(* Bytes, padding, heartbeats and the settings frames are left out.        *)
(***************************************************************************)
EXTENDS Integers, FiniteSets, FiniteSetsExt

CONSTANTS
    Users,        \* goroutines that call CreateStream and then close the stream
    MaxSessions,  \* bound: sessions dialled
    MaxStreams,   \* bound: streams opened
    MinIdle       \* minIdleSession

Sessions == 1 .. MaxSessions
NoSession == 0

VARIABLES
    done,      \* the context of the client is cancelled
    toClose,   \* sessions that Client.Close or a clean-up still has to close
    closer,    \* Client.Close: "no", "cancelled", "closing"
    idle,      \* idleSession
    session,   \* per session: its life and the streams in its map
    user,      \* per user: progress, session and stream id
    recv       \* per session: progress of recvLoop and the stream it handles

vars == <<done, toClose, closer, idle, session, user, recv>>

(* life: "none", "alive", then die is closed, the hook has left the pool    *)
(* and the map, the streams are closed.  dead: streams whose dieOnce has run*)
(* asked: streams in the map whose first frames the server has seen.        *)
(* missed (a history): a stream has died before its hook was set.           *)
NewSession(life) ==
    [life |-> life, sid |-> 0, streams |-> {}, dead |-> {}, asked |-> {}, missed |-> FALSE]

Init ==
    /\ done = FALSE
    /\ toClose = {}
    /\ closer = "no"
    /\ idle = {}
    /\ session = [s \in Sessions |-> NewSession("none")]
    /\ user = [u \in Users |-> [pc |-> "idle", s |-> NoSession, sid |-> 0]]
    /\ recv = [s \in Sessions |-> [pc |-> "read", sid |-> 0, fin |-> FALSE]]

IsClosed(s) == session[s].life # "alive"
Go(u, pc) == user' = [user EXCEPT ![u].pc = pc]
Died(s) == [session EXCEPT ![s].life = IF @ = "alive" THEN "hook" ELSE @]
Rest(u) == user' = [user EXCEPT ![u] = [pc |-> "idle", s |-> NoSession, sid |-> 0]]

-----------------------------------------------------------------------------
(* CreateStream *)
CreateStream(u) ==
    /\ user[u].pc = "idle"
    /\ ~done
    /\ Go(u, "get")
    /\ UNCHANGED <<done, toClose, closer, idle, session, recv>>

(* The keys are MaxUint64 - seq: the first of the list is the newest.       *)
GetIdleSession(u) ==
    /\ user[u].pc = "get"
    /\ IF idle = {} THEN Go(u, "dial") /\ UNCHANGED idle
       ELSE /\ user' = [user EXCEPT ![u].pc = "open", ![u].s = Max(idle)]
            /\ idle' = idle \ {Max(idle)}
    /\ UNCHANGED <<done, toClose, closer, session, recv>>

CreateSession(u) ==
    /\ user[u].pc = "dial"
    /\ \/ /\ Rest(u)
          /\ UNCHANGED session
       \/ \E s \in Sessions :
            /\ session[s].life = "none" /\ \A r \in 1 .. s - 1 : session[r].life # "none"
            /\ session' = [session EXCEPT ![s] = NewSession("alive")]
            /\ user' = [user EXCEPT ![u].pc = "open", ![u].s = s]
    /\ UNCHANGED <<done, toClose, closer, idle, recv>>

(* OpenStream up to the SYN frame.                                          *)
OpenStream(u) ==
    /\ user[u].pc = "open"
    /\ LET s == user[u].s IN
       IF IsClosed(s) THEN Go(u, "failed") /\ UNCHANGED session
       ELSE /\ MapThenSumSet(LAMBDA r : session[r].sid, Sessions) < MaxStreams
            /\ session' = [session EXCEPT ![s].sid = @ + 1]
            /\ user' = [user EXCEPT ![u].pc = "syn", ![u].sid = session[s].sid + 1]
    /\ UNCHANGED <<done, toClose, closer, idle, recv>>

WriteSyn(u) ==
    /\ user[u].pc = "syn"
    /\ \/ Go(u, "register") /\ UNCHANGED session
       \/ session' = Died(user[u].s) /\ Go(u, "failed")
    /\ UNCHANGED <<done, toClose, closer, idle, recv>>

(* The streams are closed under the lock that this step takes.  The SYN of  *)
(* a session that is used again is on its way, and from now on an answer to *)
(* it finds the stream; that of a new session waits in the buffer for the   *)
(* next frame, the destination or the answer to a heartbeat.                *)
Register(u) ==
    /\ user[u].pc = "register"
    /\ IF IsClosed(user[u].s) THEN Go(u, "failed") /\ UNCHANGED session
       ELSE /\ \E sent \in IF user[u].sid = 1 THEN {{}, {1}} ELSE {{user[u].sid}} :
                 session' = [session EXCEPT ![user[u].s].streams = @ \cup {user[u].sid},
                                            ![user[u].s].asked = @ \cup sent]
            /\ Go(u, "hook")
    /\ UNCHANGED <<done, toClose, closer, idle, recv>>

CreateFails(u) ==
    /\ user[u].pc = "failed"
    /\ session' = Died(user[u].s)
    /\ Rest(u)
    /\ UNCHANGED <<done, toClose, closer, idle, recv>>

(* The hook of the stream is set, CreateStream returns, and the destination *)
(* is written, after which any server may answer.                           *)
SetDieHook(u) ==
    /\ user[u].pc = "hook"
    /\ session' = [session EXCEPT ![user[u].s].asked = @ \cup {user[u].sid}]
    /\ Go(u, "using")
    /\ UNCHANGED <<done, toClose, closer, idle, recv>>

(* Stream.Close: the first one to close it runs the hook.                   *)
CloseStream(u) ==
    /\ user[u].pc = "using"
    /\ LET s == user[u].s
           sid == user[u].sid IN
       IF sid \in session[s].dead THEN Rest(u) /\ UNCHANGED session
       ELSE /\ session' = [session EXCEPT ![s].dead = @ \cup {sid}]
            /\ Go(u, "pool")
    /\ UNCHANGED <<done, toClose, closer, idle, recv>>

(* The hook of a stream: what it decides on the session, then the insertion.*)
(* A session of a closed client is closed by a goroutine of its own.        *)
Decide(s) == IF IsClosed(s) \/ done THEN "fin" ELSE "insert"
GoClose(s) == toClose' = IF done /\ ~IsClosed(s) THEN toClose \cup {s} ELSE toClose

Pool(u) ==
    /\ user[u].pc = "pool"
    /\ Go(u, Decide(user[u].s))
    /\ GoClose(user[u].s)
    /\ UNCHANGED <<done, closer, idle, session, recv>>

Insert(u) ==
    /\ user[u].pc = "insert"
    /\ idle' = idle \cup {user[u].s}
    /\ Go(u, "fin")
    /\ UNCHANGED <<done, toClose, closer, session, recv>>

(* streamClosed: the FIN frame may fail.                                    *)
Forget(ss, s, sid) == [ss EXCEPT ![s].streams = @ \ {sid}, ![s].asked = @ \ {sid}]
ForgetOrDie(s, sid) ==
    IF IsClosed(s) THEN UNCHANGED session
    ELSE \/ session' = Forget(session, s, sid)
         \/ session' = Forget(Died(s), s, sid)

StreamClosed(u) ==
    /\ user[u].pc = "fin"
    /\ ForgetOrDie(user[u].s, user[u].sid)
    /\ Rest(u)
    /\ UNCHANGED <<done, toClose, closer, idle, recv>>

-----------------------------------------------------------------------------
(* dieOnce and the test of the hook, which its owner may not have set yet:  *)
(* the stream is dead then and its hook never runs.                         *)
HookIsSet(s, sid) == \A u \in Users : user[u].s = s /\ user[u].sid = sid => user[u].pc # "hook"
Dies(ss, s, sid) ==
    session' = [ss EXCEPT ![s].dead = @ \cup {sid}, ![s].missed = @ \/ ~HookIsSet(s, sid)]

(* Mutant: FIN runs the hook of a stream that is already closed. *)
RecvEveryFin(s, sid) ==
    /\ recv[s].pc = "read" /\ ~IsClosed(s)
    /\ sid \in session[s].asked
    /\ sid \in session[s].streams
    /\ Dies(Forget(session, s, sid), s, sid)
    /\ recv' = [recv EXCEPT ![s] = [pc |-> "pool", sid |-> sid, fin |-> FALSE]]
    /\ UNCHANGED <<done, toClose, closer, idle, user>>

(* FIN: closeLocally, which does not tell the server.                       *)
RecvFin(s, sid) ==
    /\ recv[s].pc = "read" /\ ~IsClosed(s)
    /\ sid \in session[s].asked
    /\ sid \in session[s].streams
    /\ Dies(Forget(session, s, sid), s, sid)
    /\ IF sid \in session[s].dead \/ ~HookIsSet(s, sid) THEN UNCHANGED recv
       ELSE recv' = [recv EXCEPT ![s] = [pc |-> "pool", sid |-> sid, fin |-> FALSE]]
    /\ UNCHANGED <<done, toClose, closer, idle, user>>

(* SYNACK with an error: closeWithError, which does.                        *)
RecvRefusal(s, sid) ==
    /\ recv[s].pc = "read" /\ ~IsClosed(s)
    /\ sid \in session[s].asked
    /\ sid \in session[s].streams \ session[s].dead
    /\ Dies(session, s, sid)
    /\ recv' = [recv EXCEPT ![s] = [pc |-> IF HookIsSet(s, sid) THEN "pool" ELSE "fin",
                                    sid |-> sid, fin |-> TRUE]]
    /\ UNCHANGED <<done, toClose, closer, idle, user>>

RecvHook(s) ==
    /\ recv[s].pc = "pool"
    /\ recv' = [recv EXCEPT ![s].pc = Decide(s)]
    /\ GoClose(s)
    /\ UNCHANGED <<done, closer, idle, session, user>>

RecvInsert(s) ==
    /\ recv[s].pc = "insert"
    /\ idle' = idle \cup {s}
    /\ recv' = [recv EXCEPT ![s].pc = "fin"]
    /\ UNCHANGED <<done, toClose, closer, session, user>>

RecvStreamClosed(s) ==
    /\ recv[s].pc = "fin"
    /\ IF recv[s].fin THEN ForgetOrDie(s, recv[s].sid) ELSE UNCHANGED session
    /\ recv' = [recv EXCEPT ![s] = [pc |-> "read", sid |-> 0, fin |-> FALSE]]
    /\ UNCHANGED <<done, toClose, closer, idle, user>>

(* A read fails, an alert arrives, the answer to a SYN does not come.       *)
ConnectionDies(s) ==
    /\ recv[s].pc = "read" /\ ~IsClosed(s)
    /\ session' = Died(s)
    /\ UNCHANGED <<done, toClose, closer, idle, user, recv>>

-----------------------------------------------------------------------------
(* Session.Close after die is closed: the hook, the streams.                *)
LeavePool(s) ==
    /\ session[s].life = "hook"
    /\ idle' = idle \ {s}
    /\ session' = [session EXCEPT ![s].life = "streams"]
    /\ UNCHANGED <<done, toClose, closer, user, recv>>

(* The hooks of these streams see a closed session and do nothing.          *)
CloseStreams(s) ==
    /\ session[s].life = "streams"
    /\ session' = [session EXCEPT ![s].life = "closed", ![s].dead = @ \cup session[s].streams,
                                ![s].streams = {}, ![s].asked = {}]
    /\ UNCHANGED <<done, toClose, closer, idle, user, recv>>

(* idleCleanup: of the sessions that are old, all but the newest few.       *)
IdleCleanup(old) ==
    /\ old # {}
    /\ LET out == {s \in old : Cardinality({r \in idle : r > s}) >= MinIdle} IN
       /\ idle' = idle \ out
       /\ toClose' = toClose \cup out
    /\ UNCHANGED <<done, closer, session, user, recv>>

CloseOne(s) ==
    /\ s \in toClose
    /\ toClose' = toClose \ {s}
    /\ session' = Died(s)
    /\ UNCHANGED <<done, closer, idle, user, recv>>

ClientCancels ==
    /\ closer = "no"
    /\ closer' = "cancelled"
    /\ done' = TRUE
    /\ UNCHANGED <<toClose, idle, session, user, recv>>

ClientCloses ==
    /\ closer = "cancelled"
    /\ closer' = "closing"
    /\ toClose' = toClose \cup {s \in Sessions : session[s].life \in {"alive", "hook"}}
    /\ UNCHANGED <<done, idle, session, user, recv>>

Next ==
    \/ \E u \in Users :
         \/ CreateStream(u) \/ GetIdleSession(u) \/ CreateSession(u) \/ OpenStream(u)
         \/ WriteSyn(u) \/ Register(u) \/ CreateFails(u) \/ SetDieHook(u) \/ CloseStream(u)
         \/ Pool(u) \/ Insert(u) \/ StreamClosed(u)
    \/ \E s \in Sessions :
         \/ (\E sid \in 1 .. MaxStreams : RecvFin(s, sid) \/ RecvRefusal(s, sid))
         \/ RecvHook(s) \/ RecvInsert(s) \/ RecvStreamClosed(s)
         \/ ConnectionDies(s)
         \/ LeavePool(s) \/ CloseStreams(s) \/ CloseOne(s)
    \/ \E old \in SUBSET idle : IdleCleanup(old)
    \/ ClientCancels \/ ClientCloses

Spec == Init /\ [][Next]_vars

-----------------------------------------------------------------------------
(* Streams of s that nobody has closed, and users about to open one.        *)
Opening(s) == {u \in Users : user[u].s = s /\ user[u].pc \in {"open", "syn", "register", "hook"}}
Serving(s) ==
    {u \in Users : user[u].s = s /\ user[u].pc = "using" /\ user[u].sid \notin session[s].dead}

(* A session carries one stream at a time: it is never in the pool, or      *)
(* handed to another caller, while somebody uses it, whoever of user, server*)
(* and closer of the session ends a stream.                                 *)
OneStreamPerSession ==
    \A s \in Sessions :
        /\ \A u, v \in Opening(s) \cup Serving(s) : u = v
        /\ s \in idle => Opening(s) \cup Serving(s) = {}

(* No session is forgotten: one that is alive serves a stream, is in the    *)
(* pool, or is in the hands of somebody who will pool or close it.  The     *)
(* exception is the session whose server ends a stream before CreateStream  *)
(* has set its hook: nobody pools it, and it lasts until the server or the  *)
(* client's Close ends it.                                                  *)
NoOrphan ==
    \A s \in Sessions : session[s].life = "alive" =>
        \/ session[s].missed
        \/ Opening(s) \cup Serving(s) # {}
        \/ s \in idle \cup toClose
        \/ \E u \in Users : user[u].s = s /\ user[u].pc \in {"failed", "pool", "insert"}
        \/ recv[s].pc \in {"pool", "insert"}

(* Once the client is closed and the calls that overlapped Close are over,  *)
(* no connection is left open except under a stream still in use, or one    *)
(* that was dialled meanwhile and whose stream died before its hook was set.*)
ClosedClientLeavesNone ==
    closer = "closing" /\ toClose = {} /\ (\A u \in Users : user[u].pc \in {"idle", "using"})
        => \A s \in Sessions :
             session[s].life = "alive" =>
                 session[s].missed \/ Serving(s) # {} \/ recv[s].pc = "pool"

(* Whatever ends a stream, no session is shared, and none is forgotten,     *)
(* neither while the client is open nor by its Close.                       *)
SessionsAreSound == OneStreamPerSession /\ NoOrphan /\ ClosedClientLeavesNone
=============================================================================
