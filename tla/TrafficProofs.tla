---------------------------- MODULE TrafficProofs ----------------------------
(***************************************************************************)
(* What carries the traffic, for every value of the constants.             *)
(*   TCP: for any number of bytes and attempts the remote a client is      *)
(* relayed to gets every byte once and in order, and the peeker and its    *)
(* deadline are gone.                                                      *)
(*   UDP: for any sequence of packets, any number of sessions and any size *)
(* of the queues a source has one socket at a time, every packet is either *)
(* carried or given back, they leave in the order in which they came, and  *)
(* the answers keep their origin.                                          *)
(*   Reloads: for any number of requests, patches and connections none is  *)
(* decided by parts of two configurations.                                 *)
(*   The sniffer: for a hello of any length, cut in any way, and any number*)
(* of frames the wait ends with the packet that completes it.              *)
(***************************************************************************)
EXTENDS MCTraffic, FiniteSetTheorems, SequenceTheorems, WellFoundedInduction, TLAPS

-----------------------------------------------------------------------------
(* ---- TcpConn: the bytes of a connection. -------------------------------*)
(* Who holds the mutex, and that nothing leaves the buffer before a remote *)
(* is chosen.                                                              *)
MutexInv ==
    /\ peekMutex = "peeker" <=> peeker # "over"
    /\ peekMutex = "handler" <=> handler \in {"writes", "resets", "relays"}

DeadlineInv ==
    /\ handler = "relays" => deadline = "none"
    /\ ~cutShort

Choosing == handler \in {"dials", "locks", "writes"}
Connected == handler \in {"tracks", "waits", "resets", "relays"}

GivenInv ==
    /\ Choosing => taken = 0 /\ given = <<>> /\ attempt < MaxAttempts
    /\ Connected => given = Bytes(1, taken)

ConnInv == TypeOK /\ MutexInv /\ DeadlineInv /\ GivenInv

LEMMA BytesType ==
    ASSUME NEW n \in Nat, NEW i \in Nat \ {0}, n <= MaxBytes
    PROVE  Bytes(i, n) \in Seq(1 .. MaxBytes)
BY TcpAssumption, SMT DEF Bytes

LEMMA NoBytes == Bytes(1, 0) = <<>>
BY SMT DEF Bytes

LEMMA BytesConcat ==
    ASSUME NEW n \in Nat, NEW m \in Nat, n <= m
    PROVE  Bytes(1, n) \o Bytes(n + 1, m) = Bytes(1, m)
<1> DEFINE s == Bytes(1, n)  t == Bytes(n + 1, m)  u == Bytes(1, m)
<1>1. s \in Seq(Int) /\ t \in Seq(Int) /\ u \in Seq(Int)
  BY SMT DEF Bytes
<1>2. Len(s) = n /\ Len(t) = m - n /\ Len(u) = m
  BY SMT DEF Bytes
<1>3. /\ \A k \in 1 .. n : s[k] = k
      /\ \A k \in 1 .. m - n : t[k] = n + k
      /\ \A k \in 1 .. m : u[k] = k
  BY SMT DEF Bytes
<1> HIDE DEF s, t, u
<1>4. /\ s \o t \in Seq(Int)
      /\ Len(s \o t) = m
      /\ \A k \in 1 .. m : (s \o t)[k] = IF k <= n THEN s[k] ELSE t[k - n]
  <2>1. /\ s \o t \in Seq(Int)
        /\ Len(s \o t) = Len(s) + Len(t)
        /\ \A k \in 1 .. Len(s) + Len(t) :
             (s \o t)[k] = IF k <= Len(s) THEN s[k] ELSE t[k - Len(s)]
    BY <1>1, ConcatProperties
  <2>2. Len(s) + Len(t) = m
    BY <1>2, SMT
  <2> QED
    BY <1>2, <2>1, <2>2
<1>5. \A k \in 1 .. m : (s \o t)[k] = u[k]
  <2> TAKE k \in 1 .. m
  <2>1. CASE k <= n
    BY <1>3, <1>4, <2>1, SMT
  <2>2. CASE ~(k <= n)
    <3>1. k - n \in 1 .. m - n
      BY <2>2, SMT
    <3>2. t[k - n] = n + (k - n)
      BY <1>3, <3>1
    <3> QED
      BY <1>3, <1>4, <2>2, <3>2, SMT
  <2> QED
    BY <2>1, <2>2
<1>6. s \o t = u
  BY <1>1, <1>2, <1>4, <1>5, SeqEqual
<1> QED
  BY <1>6 DEF s, t, u

LEMMA InitConn == Init => ConnInv
<1> SUFFICES ASSUME Init PROVE ConnInv
  OBVIOUS
<1>0. given \in Seq(1 .. MaxBytes) /\ 0 \in 0 .. MaxAttempts /\ MaxBytes \in Nat
  BY TcpAssumption, NoBytes, BytesType, SMT DEF Init
<1>1. TypeOK
  <2>1. sent \in 0 .. MaxBytes /\ fetched \in 0 .. sent /\ taken \in 0 .. fetched
    BY <1>0, SMT DEF Init
  <2> QED
    BY <1>0, <2>1 DEF Init, TypeOK
<1>2. MutexInv /\ DeadlineInv
  BY DEF Init, MutexInv, DeadlineInv
<1>3. GivenInv
  BY TcpAssumption, NoBytes, SMT DEF Init, GivenInv, Choosing, Connected
<1> QED
  BY <1>1, <1>2, <1>3 DEF ConnInv

(* The client, the time and the peeker leave the handler alone. *)
LEMMA OtherSteps ==
    ASSUME ConnInv, ClientSends \/ ClientHangsUp \/ DeadlinePasses \/ PeekerNext
    PROVE  ConnInv'
<1>1. TypeOK'
  <2>1. CASE ClientSends
    BY <2>1, TcpAssumption, SMT DEF ConnInv, TypeOK, ClientSends, bufferVars, handlerVars
  <2>2. CASE ClientHangsUp \/ DeadlinePasses
    BY <2>2 DEF ConnInv, TypeOK, ClientHangsUp, DeadlinePasses, clientVars, bufferVars, handlerVars
  <2>3. CASE StartPeek \/ EndPeek \/ UnlockPeek
    BY <2>3, SMT DEF ConnInv, TypeOK, StartPeek, EndPeek, UnlockPeek, clientVars, bufferVars, handlerVars
  <2>4. CASE Peek
    <3>1. fetched' \in 0 .. sent /\ taken \in 0 .. fetched'
      BY <2>4, TcpAssumption, SMT DEF ConnInv, TypeOK, Peek
    <3> QED
      BY <2>4, <3>1, SMT DEF ConnInv, TypeOK, Peek, clientVars, handlerVars
  <2> QED
    BY <2>1, <2>2, <2>3, <2>4 DEF PeekerNext
<1>2. MutexInv'
  BY SMT DEF ConnInv, MutexInv, ClientSends, ClientHangsUp, DeadlinePasses,
     PeekerNext, StartPeek, Peek, EndPeek, UnlockPeek, bufferVars, clientVars, handlerVars
<1>3. DeadlineInv'
  BY SMT DEF ConnInv, MutexInv, DeadlineInv, ClientSends, ClientHangsUp, DeadlinePasses,
     PeekerNext, StartPeek, Peek, EndPeek, UnlockPeek, bufferVars, clientVars, handlerVars
<1>4. UNCHANGED <<handler, taken, given, attempt>>
  BY DEF ClientSends, ClientHangsUp, DeadlinePasses,
     PeekerNext, StartPeek, Peek, EndPeek, UnlockPeek, bufferVars, clientVars, handlerVars
<1>5. GivenInv'
  BY <1>4, SMT DEF ConnInv, GivenInv, Choosing, Connected, Bytes
<1> QED
  BY <1>1, <1>2, <1>3, <1>5 DEF ConnInv

LEMMA RetrySteps ==
    ASSUME ConnInv, DialFails \/ WriteFails
    PROVE  ConnInv'
<1>1. /\ Choosing /\ handler' \in {"dials", "over"} /\ given' = <<>> /\ attempt' = attempt + 1
      /\ hungUp' \in {hungUp, TRUE} /\ (handler' = "dials" => attempt' < MaxAttempts)
      /\ UNCHANGED <<sent, fetched, taken, deadline, peeker, cutShort>>
      /\ peekMutex' = IF handler = "writes" THEN "free" ELSE peekMutex
  <2>1. Retry
    BY DEF DialFails, WriteFails
  <2>2. CASE DialFails
    BY <2>1, <2>2 DEF DialFails, Retry, Returns, Choosing, bufferVars
  <2>3. CASE WriteFails
    BY <2>1, <2>3 DEF WriteFails, Retry, Returns, Choosing, bufferVars
  <2> QED
    BY <2>2, <2>3
<1>2. TypeOK'
  <2>1. given' \in Seq(1 .. MaxBytes) /\ attempt' \in 0 .. MaxAttempts
    BY <1>1, TcpAssumption, NoBytes, BytesType, SMT DEF ConnInv, TypeOK, GivenInv
  <2>2. peekMutex' \in {"free", "peeker", "handler"} /\ hungUp' \in BOOLEAN
    BY <1>1 DEF ConnInv, TypeOK
  <2> QED
    BY <1>1, <2>1, <2>2 DEF ConnInv, TypeOK
<1>3. MutexInv' /\ DeadlineInv'
  <2>1. handler' # "relays" /\ handler' \notin {"writes", "resets"} /\ ~cutShort'
    BY <1>1 DEF ConnInv, DeadlineInv
  <2>2. CASE handler = "writes"
    BY <1>1, <2>1, <2>2 DEF ConnInv, MutexInv, DeadlineInv
  <2>3. CASE handler # "writes"
    BY <1>1, <2>1, <2>3 DEF ConnInv, MutexInv, DeadlineInv, Choosing
  <2> QED
    BY <2>2, <2>3
<1>4. GivenInv'
  BY <1>1, SMT DEF ConnInv, GivenInv, Choosing, Connected
<1> QED
  BY <1>2, <1>3, <1>4 DEF ConnInv

(* Steps of the handler that move no byte. *)
LEMMA LockSteps ==
    ASSUME ConnInv,
           Dialled \/ LockForHandshake \/ StopPeek \/ LockForRelay \/ ResetDeadline
    PROVE  ConnInv'
<1>1. TypeOK'
  BY SMT DEF ConnInv, TypeOK, Dialled, LockForHandshake, StopPeek, LockForRelay, ResetDeadline,
     clientVars, bufferVars
<1>2. MutexInv' /\ DeadlineInv'
  BY SMT DEF ConnInv, TypeOK, MutexInv, DeadlineInv, Dialled, LockForHandshake, StopPeek, LockForRelay,
     ResetDeadline, clientVars, bufferVars
<1>3. UNCHANGED <<taken, given, attempt>> /\ (Choosing' => Choosing)
      /\ (Connected' => Connected \/ Choosing)
  BY SMT DEF Dialled, LockForHandshake, StopPeek, LockForRelay, ResetDeadline,
     Choosing, Connected, bufferVars
<1>4. GivenInv'
  <2>1. Choosing' => taken' = 0 /\ given' = <<>> /\ attempt' < MaxAttempts
    BY <1>3, SMT DEF ConnInv, GivenInv
  <2>2. Connected' => given' = Bytes(1, taken')
    <3>1. CASE Connected
      BY <1>3, <3>1 DEF ConnInv, GivenInv
    <3>2. CASE Choosing
      BY <1>3, <3>2, NoBytes DEF ConnInv, GivenInv
    <3> QED
      BY <1>3, <3>1, <3>2
  <2> QED
    BY <2>1, <2>2 DEF GivenInv, Bytes
<1> QED
  BY <1>1, <1>2, <1>4 DEF ConnInv

LEMMA WriteStep ==
    ASSUME ConnInv, WritePeeked
    PROVE  ConnInv'
<1>1. taken = 0 /\ given = <<>> /\ fetched \in Nat /\ fetched <= MaxBytes
  BY TcpAssumption, SMT DEF ConnInv, TypeOK, GivenInv, Choosing, WritePeeked
<1>2. given' = Bytes(1, fetched)
  <2>1. taken \in Nat /\ taken <= fetched
    BY <1>1, SMT
  <2>2. Bytes(1, taken) \o Bytes(taken + 1, fetched) = Bytes(1, fetched)
    BY <1>1, <2>1, BytesConcat
  <2>3. given = Bytes(1, taken)
    BY <1>1, NoBytes
  <2> QED
    BY <2>2, <2>3 DEF WritePeeked
<1>3. given' \in Seq(1 .. MaxBytes)
  BY <1>1, <1>2, BytesType
<1>4. TypeOK'
  BY <1>1, <1>3, SMT DEF ConnInv, TypeOK, WritePeeked, clientVars
<1>5. MutexInv' /\ DeadlineInv'
  BY SMT DEF ConnInv, MutexInv, DeadlineInv, WritePeeked
<1>6. GivenInv'
  BY <1>2 DEF WritePeeked, GivenInv, Choosing, Connected, Bytes
<1> QED
  BY <1>4, <1>5, <1>6 DEF ConnInv

LEMMA RelayStep ==
    ASSUME ConnInv, Relay
    PROVE  ConnInv'
<1>1. taken \in Nat /\ taken' \in Nat /\ taken <= taken' /\ taken' <= MaxBytes
      /\ fetched' \in 0 .. sent /\ taken' \in 0 .. fetched' /\ sent' = sent
  BY TcpAssumption, SMT DEF ConnInv, TypeOK, Relay, clientVars
<1>2. given' = Bytes(1, taken')
  <2>1. given' = Bytes(1, taken) \o Bytes(taken + 1, taken')
    BY DEF ConnInv, GivenInv, Connected, Relay
  <2> QED
    BY <1>1, <2>1, BytesConcat
<1>3. given' \in Seq(1 .. MaxBytes)
  BY <1>1, <1>2, BytesType
<1>4. TypeOK'
  BY <1>1, <1>3, SMT DEF ConnInv, TypeOK, Relay, clientVars
<1>5. MutexInv' /\ DeadlineInv'
  BY SMT DEF ConnInv, MutexInv, DeadlineInv, Relay
<1>6. GivenInv'
  BY <1>2 DEF Relay, GivenInv, Choosing, Connected, Bytes
<1> QED
  BY <1>4, <1>5, <1>6 DEF ConnInv

LEMMA EndStep ==
    ASSUME ConnInv, RelayEnds
    PROVE  ConnInv'
<1>1. TypeOK'
  BY SMT DEF ConnInv, TypeOK, RelayEnds, Returns, bufferVars
<1>2. MutexInv' /\ DeadlineInv'
  BY SMT DEF ConnInv, TypeOK, MutexInv, DeadlineInv, RelayEnds, Returns
<1>3. GivenInv'
  BY DEF RelayEnds, Returns, GivenInv, Choosing, Connected
<1> QED
  BY <1>1, <1>2, <1>3 DEF ConnInv

LEMMA NextConn == ConnInv /\ [Next]_vars => ConnInv'
<1> SUFFICES ASSUME ConnInv, [Next]_vars PROVE ConnInv'
  OBVIOUS
<1>1. CASE ClientSends \/ ClientHangsUp \/ DeadlinePasses \/ PeekerNext
  BY <1>1, OtherSteps
<1>2. CASE DialFails \/ WriteFails
  BY <1>2, RetrySteps
<1>3. CASE Dialled \/ LockForHandshake \/ StopPeek \/ LockForRelay \/ ResetDeadline
  BY <1>3, LockSteps
<1>4. CASE WritePeeked
  BY <1>4, WriteStep
<1>5. CASE Relay
  BY <1>5, RelayStep
<1>6. CASE RelayEnds
  BY <1>6, EndStep
<1>7. CASE UNCHANGED vars
  BY <1>7 DEF vars, ConnInv, TypeOK, MutexInv, DeadlineInv, GivenInv, Choosing, Connected, Bytes
<1> QED
  BY <1>1, <1>2, <1>3, <1>4, <1>5, <1>6, <1>7 DEF Next, HandlerNext, RelayNext

(* The relay of a connection sends every byte once and in order, alone with *)
(* the reader and without a deadline (handleTCPConn).                       *)
THEOREM Heard == Spec => []ClientIsHeard
<1>1. Init => ConnInv
  BY InitConn
<1>2. ConnInv /\ [Next]_vars => ConnInv'
  BY NextConn
<1>3. ConnInv => ClientIsHeard
  BY DEF ConnInv, MutexInv, DeadlineInv, GivenInv, Connected, ClientIsHeard
<1> QED
  BY <1>1, <1>2, <1>3, PTL DEF Spec

-----------------------------------------------------------------------------
(* ---- UdpNat: the packets of a source. -----------------------------------*)
In(p, q) == \E i \in DOMAIN q : q[i] = p
Increasing(q) == \A i, j \in DOMAIN q : i < j => q[i] < q[j]

Procs == {"dial", "drain", "delete", "select", "packet", "write", "end"}
Relays == {"none", "read", "drain", "delete", "end"}
Senders ==
  [done : BOOLEAN, ch : Seq(Nat0!Packets), open : BOOLEAN,
   proc : Procs,
   packet : Nat0!Packets \cup {0}, relay : Relays,
   target : Targets \cup {0},
   originToTarget : [Nat0!Origins -> Targets \cup {0}],
   targetToOrigin : [Targets -> Nat]]
Writings == [packet : Nat0!Packets, s : Nat0!Sessions, target : Targets]
NatType ==
  /\ arrived \in 0 .. Len(Origin)
  /\ queue \in Seq(Nat0!Packets)
  /\ worker \in [pc : {"wait", "lookup", "send", "put"}, packet : Nat0!Packets \cup {0}, s : 0 .. MaxSessions]
  /\ made \in 0 .. MaxSessions /\ nat \in {0, made}
  /\ sess \in [Nat0!Sessions -> Senders]
  /\ dropped \subseteq Nat0!Packets
  /\ written \in Seq(Writings)

(* A session is in the table until it deletes itself, and the worker holds  *)
(* the last one.                                                            *)
Over(s) == sess[s].relay = "end" \/ (sess[s].relay = "none" /\ sess[s].proc = "end")
Busy == worker.pc # "wait"
Life ==
  /\ Busy => worker.packet \in Nat0!Packets
  /\ worker.pc \in {"send", "put"} => worker.s = made /\ made # 0
  /\ \A s \in Nat0!Sessions :
       /\ s > made => sess[s] = Nat0!NewPacketSender
       /\ s <= made => sess[s].packet \in Nat0!Packets
       /\ s <= made /\ ~Over(s) => nat = s
       /\ sess[s].proc \in {"dial", "drain", "delete"} => sess[s].relay = "none"
       /\ sess[s].proc \in {"select", "packet", "write"} => sess[s].relay # "none"
       /\ sess[s].open => sess[s].relay \in {"read", "drain"}

(* Where the packets are, and the order in which they came: from those that *)
(* were written to those in the queue.                                      *)
Hand(s) == sess[s].proc \in {"packet", "write"}
Queued == {p \in Nat0!Packets : In(p, queue)}
Carried == {p \in Nat0!Packets : Busy /\ worker.packet = p}
Held == [s \in Nat0!Sessions |->
  {p \in Nat0!Packets : In(p, sess[s].ch) \/ (Hand(s) /\ sess[s].packet = p)}]
Lists ==
  /\ Increasing(queue)
  /\ \A s \in Nat0!Sessions :
       /\ Increasing(sess[s].ch)
       /\ Hand(s) => \A p \in Nat0!Packets : In(p, sess[s].ch) => sess[s].packet < p
Chain ==
  /\ \A p \in Queued : p <= arrived
  /\ \A p \in Carried : p <= arrived /\ \A q \in Queued : p < q
  /\ \A s \in Nat0!Sessions : \A p \in Held[s] :
       p <= arrived /\ (\A q \in Queued : p < q) /\ (\A q \in Carried : p < q)
Apart ==
  \A s, t \in Nat0!Sessions : \A p \in Nat0!Packets : p \in Held[s] /\ p \in Held[t] => s = t
Sent ==
  /\ Nat0!SentInOrder
  /\ \A i \in DOMAIN written :
       /\ written[i].packet <= arrived
       /\ \A q \in Queued : written[i].packet < q
       /\ \A q \in Carried : written[i].packet < q
       /\ made # 0 => \A q \in Held[made] : written[i].packet < q
Kept ==
  /\ \A p \in dropped : p <= arrived
  /\ \A p \in 1 .. arrived :
       p \in dropped <=> ~(p \in Queued \/ p \in Carried \/ \E s \in Nat0!Sessions : p \in Held[s])

(* Both maps of a session agree, and what has been written went by them.    *)
Agree(e) ==
  /\ \A o \in Nat0!Origins : e.originToTarget[o] # 0 /\ Address[o] # 0 =>
       e.targetToOrigin[e.originToTarget[o]] # 0
  /\ \A t \in Targets : e.targetToOrigin[t] # 0 =>
       \E o \in Nat0!Origins : Address[o] = e.targetToOrigin[t] /\ e.originToTarget[o] = t
Mapped ==
  \A s \in Nat0!Sessions :
    /\ Agree(sess[s])
    /\ sess[s].proc = "dial" =>
         /\ \A o \in Nat0!Origins : sess[s].originToTarget[o] = 0
         /\ \A t \in Targets : sess[s].targetToOrigin[t] = 0
    /\ sess[s].proc = "write" =>
         sess[s].target # 0 /\ sess[s].originToTarget[Origin[sess[s].packet]] = sess[s].target
WroteMapped ==
  \A i \in DOMAIN written :
    sess[written[i].s].originToTarget[Origin[written[i].packet]] = written[i].target

NatInv == NatType /\ Life /\ Lists /\ Chain /\ Apart /\ Sent /\ Kept /\ Mapped /\ WroteMapped

LEMMA AppendIn ==
  ASSUME NEW S, NEW q \in Seq(S), NEW x \in S, NEW p
  PROVE  In(p, Append(q, x)) <=> In(p, q) \/ p = x
<1> DEFINE r == Append(q, x)
<1>1. /\ DOMAIN q = 1 .. Len(q) /\ DOMAIN r = 1 .. Len(q) + 1
      /\ Len(q) \in Nat
      /\ \A i \in 1 .. Len(q) : r[i] = q[i]
      /\ r[Len(q) + 1] = x
  BY AppendProperties, LenProperties
<1> HIDE DEF r
<1>2. In(p, r) <=> In(p, q) \/ p = x
  BY <1>1, SMT DEF In
<1> QED
  BY <1>2 DEF r

LEMMA TakeIn ==
  ASSUME NEW S, NEW q \in Seq(S), q # <<>>, NEW p
  PROVE  In(p, q) <=> In(p, Tail(q)) \/ p = Head(q)
<1> DEFINE r == Tail(q)
<1>1. /\ DOMAIN q = 1 .. Len(q) /\ DOMAIN r = 1 .. Len(q) - 1
      /\ Len(q) \in Nat \ {0}
      /\ \A i \in 1 .. Len(q) - 1 : r[i] = q[i + 1]
      /\ q[1] = Head(q)
  BY HeadTailProperties, LenProperties, EmptySeq
<1> HIDE DEF r
<1>2. ASSUME In(p, q) PROVE In(p, r) \/ p = q[1]
  <2>1. PICK i \in 1 .. Len(q) : q[i] = p
    BY <1>1, <1>2 DEF In
  <2>2. i = 1 \/ (i - 1 \in 1 .. Len(q) - 1 /\ r[i - 1] = q[(i - 1) + 1] /\ (i - 1) + 1 = i)
    BY <1>1, <2>1, SMT
  <2> QED
    BY <1>1, <2>1, <2>2 DEF In
<1>3. ASSUME In(p, r) PROVE In(p, q)
  <2>1. PICK i \in 1 .. Len(q) - 1 : r[i] = p
    BY <1>1, <1>3 DEF In
  <2>2. i + 1 \in 1 .. Len(q) /\ q[i + 1] = p
    BY <1>1, <2>1, SMT
  <2> QED
    BY <1>1, <2>2 DEF In
<1>4. In(q[1], q)
  BY <1>1, SMT DEF In
<1> QED
  BY <1>1, <1>2, <1>3, <1>4 DEF r

LEMMA AppendIncreasing ==
  ASSUME NEW S \in SUBSET Int, NEW q \in Seq(S), NEW x \in S, Increasing(q),
         \A p \in S : In(p, q) => p < x
  PROVE  Increasing(Append(q, x))
<1> DEFINE r == Append(q, x)
<1>1. /\ DOMAIN q = 1 .. Len(q) /\ DOMAIN r = 1 .. Len(q) + 1
      /\ Len(q) \in Nat
      /\ \A i \in 1 .. Len(q) : r[i] = q[i] /\ q[i] \in S
      /\ r[Len(q) + 1] = x
  BY AppendProperties, LenProperties, ElementOfSeq
<1>2. \A i \in 1 .. Len(q) : q[i] < x
  BY <1>1 DEF In
<1> HIDE DEF r
<1>3. Increasing(r)
  BY <1>1, <1>2, SMT DEF Increasing
<1> QED
  BY <1>3 DEF r

LEMMA TakeIncreasing ==
  ASSUME NEW S \in SUBSET Int, NEW q \in Seq(S), q # <<>>, Increasing(q)
  PROVE  /\ Increasing(Tail(q))
         /\ \A p \in S : In(p, Tail(q)) => Head(q) < p
<1> DEFINE r == Tail(q)
<1>1. /\ DOMAIN q = 1 .. Len(q) /\ DOMAIN r = 1 .. Len(q) - 1
      /\ Len(q) \in Nat \ {0}
      /\ \A i \in 1 .. Len(q) - 1 : r[i] = q[i + 1]
      /\ q[1] = Head(q)
  BY HeadTailProperties, LenProperties, EmptySeq
<1> HIDE DEF r
<1>2. Increasing(r)
  BY <1>1, SMT DEF Increasing
<1>3. ASSUME NEW p \in S, In(p, r) PROVE Head(q) < p
  <2>1. PICK i \in 1 .. Len(q) - 1 : r[i] = p
    BY <1>1, <1>3 DEF In
  <2>2. q[1] < q[i + 1]
    BY <1>1, <2>1, SMT DEF Increasing
  <2> QED
    BY <1>1, <2>1, <2>2
<1> QED
  BY <1>2, <1>3 DEF r

LEMMA NatInit == Nat0!Init => NatInv
<1> SUFFICES ASSUME Nat0!Init PROVE NatInv
  OBVIOUS
<1> USE NatAssumption DEF Nat0!Init, Nat0!NewPacketSender, Nat0!None, Nat0!Sessions
<1>1. NatType
  BY SMT DEF NatType, Senders, Procs, Relays
<1>2. Life
  BY SMT DEF Life, Over, Busy
<1>3. Queued = {} /\ Carried = {} /\ \A s \in Nat0!Sessions : Held[s] = {}
  BY SMT DEF Queued, Carried, Held, In, Busy, Hand
<1>4. Lists
  BY SMT DEF Lists, Increasing, Hand
<1>5. Chain /\ Apart /\ Sent /\ Kept
  BY <1>3, SMT DEF Chain, Apart, Sent, Kept, Nat0!SentInOrder
<1>6. Mapped /\ WroteMapped
  BY SMT DEF Mapped, Agree, WroteMapped
<1> QED
  BY <1>1, <1>2, <1>4, <1>5, <1>6 DEF NatInv

(* A mapping back to an origin is never replaced.                           *)
MappingsStay ==
  \A s \in Nat0!Sessions, t \in Targets :
    sess[s].targetToOrigin[t] # Nat0!None => sess'[s].targetToOrigin[t] = sess[s].targetToOrigin[t]

(* What the sets are made of.                                               *)
LEMMA PacketSets ==
  ASSUME NatType
  PROVE  /\ Nat0!Packets \subseteq Nat \ {0}
         /\ Queued \subseteq Nat0!Packets /\ Carried \subseteq Nat0!Packets
         /\ Held \in [Nat0!Sessions -> SUBSET Nat0!Packets]
BY NatAssumption, SMT DEF NatType, Nat0!Packets, Queued, Carried, Held

LEMMA WrittenType ==
  ASSUME NatType, NEW i \in DOMAIN written
  PROVE  /\ written[i].packet \in Nat0!Packets
         /\ written[i].s \in Nat0!Sessions
         /\ written[i].target \in Targets
<1>1. written[i] \in Writings
  BY LenProperties, ElementOfSeq DEF NatType
<1> QED
  BY <1>1 DEF Writings

LEMMA FieldTypes ==
  ASSUME NEW f \in [Nat0!Sessions -> Senders], NEW s \in Nat0!Sessions
  PROVE  /\ \A x \in Procs : [f EXCEPT ![s].proc = x] \in [Nat0!Sessions -> Senders]
         /\ \A x \in Relays : [f EXCEPT ![s].relay = x] \in [Nat0!Sessions -> Senders]
         /\ \A x \in BOOLEAN : [f EXCEPT ![s].done = x] \in [Nat0!Sessions -> Senders]
         /\ \A x \in BOOLEAN : [f EXCEPT ![s].open = x] \in [Nat0!Sessions -> Senders]
         /\ \A x \in Nat0!Packets : [f EXCEPT ![s].packet = x] \in [Nat0!Sessions -> Senders]
         /\ \A x \in Targets : [f EXCEPT ![s].target = x] \in [Nat0!Sessions -> Senders]
         /\ \A x \in Seq(Nat0!Packets) : [f EXCEPT ![s].ch = x] \in [Nat0!Sessions -> Senders]
<1>1. ASSUME NEW r \in Senders
      PROVE  /\ \A x \in Procs : [r EXCEPT !.proc = x] \in Senders
             /\ \A x \in Relays : [r EXCEPT !.relay = x] \in Senders
             /\ \A x \in BOOLEAN : [r EXCEPT !.done = x] \in Senders
             /\ \A x \in BOOLEAN : [r EXCEPT !.open = x] \in Senders
             /\ \A x \in Nat0!Packets : [r EXCEPT !.packet = x] \in Senders
             /\ \A x \in Targets : [r EXCEPT !.target = x] \in Senders
             /\ \A x \in Seq(Nat0!Packets) : [r EXCEPT !.ch = x] \in Senders
  BY Zenon DEF Senders
<1>2. \A e \in Senders : [f EXCEPT ![s] = e] \in [Nat0!Sessions -> Senders]
  OBVIOUS
<1> QED
  BY <1>1, <1>2, Zenon

(* A session that has not been made has done nothing.                       *)
LEMMA Fresh ==
  ASSUME NatInv, NEW s \in Nat0!Sessions, sess[s].proc # "dial" \/ sess[s].relay # "none"
  PROVE  s <= made
<1>1. Nat0!NewPacketSender.proc = "dial" /\ Nat0!NewPacketSender.relay = "none"
  BY DEF Nat0!NewPacketSender
<1>2. s > made => sess[s] = Nat0!NewPacketSender
  BY DEF NatInv, Life
<1>3. s \in Nat /\ made \in Nat
  BY NatAssumption, SMT DEF NatInv, NatType, Nat0!Sessions
<1> QED
  BY <1>1, <1>2, <1>3

(* A step after which every packet is where it was.                         *)
LEMMA PacketsRest ==
  ASSUME NatInv, NatType', UNCHANGED <<arrived, queue, dropped, written>>,
         Busy' = Busy, Busy => worker'.packet = worker.packet,
         made' = made \/ (made' \in Nat0!Sessions /\ Held[made'] = {}),
         \A t \in Nat0!Sessions :
           /\ sess'[t].ch = sess[t].ch
           /\ Hand(t)' <=> Hand(t)
           /\ Hand(t) => sess'[t].packet = sess[t].packet
  PROVE  Lists' /\ Chain' /\ Apart' /\ Sent' /\ Kept'
<1>1. Queued' = Queued
  BY DEF Queued
<1>2. Carried' = Carried
  BY DEF Carried
<1>3. Held' = Held
  BY SMT DEF Held
<1>4. Lists'
  BY SMT DEF NatInv, Lists
<1>5. Chain' /\ Apart'
  BY <1>1, <1>2, <1>3 DEF NatInv, Chain, Apart
<1>6. Sent' /\ Kept'
  BY <1>1, <1>2, <1>3 DEF NatInv, Sent, Kept, Nat0!SentInOrder
<1> QED
  BY <1>4, <1>5, <1>6

(* A step that leaves the mappings alone.                                   *)
LEMMA MapsRest ==
  ASSUME NatInv, NatType', UNCHANGED written,
         \A t \in Nat0!Sessions :
           /\ sess'[t].originToTarget = sess[t].originToTarget
           /\ sess'[t].targetToOrigin = sess[t].targetToOrigin
           /\ sess'[t].proc = "dial" => sess[t].proc = "dial"
           /\ sess'[t].proc = "write" =>
                sess'[t].target # 0 /\ sess[t].originToTarget[Origin[sess'[t].packet]] = sess'[t].target
  PROVE  Mapped' /\ WroteMapped' /\ MappingsStay
<1>1. Mapped'
  BY DEF NatInv, Mapped, Agree
<1>2. ASSUME NEW i \in DOMAIN written
      PROVE  sess[written[i].s].originToTarget = sess'[written[i].s].originToTarget
  <2>1. written[i].s \in Nat0!Sessions
    BY WrittenType DEF NatInv
  <2> QED
    BY <2>1
<1>3. WroteMapped'
  BY <1>2 DEF NatInv, WroteMapped
<1> QED
  BY <1>1, <1>3 DEF MappingsStay

(* A step of one sender that moves no packet and adds no mapping.           *)
LEMMA SenderRests ==
  ASSUME NatInv, NatType', Life', NEW s \in Nat0!Sessions,
         UNCHANGED <<arrived, queue, worker, made, dropped, written>>,
         \A t \in Nat0!Sessions : t # s => sess'[t] = sess[t],
         sess'[s].ch = sess[s].ch, Hand(s)' <=> Hand(s),
         Hand(s) => sess'[s].packet = sess[s].packet,
         sess'[s].originToTarget = sess[s].originToTarget,
         sess'[s].targetToOrigin = sess[s].targetToOrigin,
         sess'[s].proc # "dial",
         sess'[s].proc = "write" =>
           sess'[s].target # 0 /\ sess[s].originToTarget[Origin[sess'[s].packet]] = sess'[s].target
  PROVE  NatInv' /\ MappingsStay
<1>1. Lists' /\ Chain' /\ Apart' /\ Sent' /\ Kept'
  <2>1. Busy' = Busy /\ worker'.packet = worker.packet /\ made' = made
    BY DEF Busy
  <2>2. \A t \in Nat0!Sessions :
           /\ sess'[t].ch = sess[t].ch
           /\ Hand(t)' <=> Hand(t)
           /\ Hand(t) => sess'[t].packet = sess[t].packet
    BY DEF Hand
  <2> QED
    BY <2>1, <2>2, PacketsRest
<1>2. Mapped' /\ WroteMapped' /\ MappingsStay
  <2>1. ASSUME NEW t \in Nat0!Sessions
        PROVE  /\ sess'[t].originToTarget = sess[t].originToTarget
               /\ sess'[t].targetToOrigin = sess[t].targetToOrigin
               /\ sess'[t].proc = "dial" => sess[t].proc = "dial"
               /\ sess'[t].proc = "write" =>
                    sess'[t].target # 0 /\ sess[t].originToTarget[Origin[sess'[t].packet]] = sess'[t].target
    BY DEF NatInv, Mapped
  <2> QED
    BY <2>1, MapsRest
<1> QED
  BY <1>1, <1>2 DEF NatInv

(* A step that gives a packet of a sender back.                             *)
LEMMA SenderDrops ==
  ASSUME NatInv, NatType', NEW s \in Nat0!Sessions, NEW p \in Held[s],
         UNCHANGED <<arrived, queue, worker, made>>,
         dropped' = dropped \cup {p},
         Held' = [Held EXCEPT ![s] = @ \ {p}]
  PROVE  Chain' /\ Apart' /\ Kept' /\ (written' = written => Sent')
<1>1. Queued' = Queued
  BY DEF Queued
<1>2. Carried' = Carried
  BY DEF Carried, Busy
<1>3. /\ Held'[s] = Held[s] \ {p}
      /\ \A t \in Nat0!Sessions : t # s => Held'[t] = Held[t]
      /\ \A t \in Nat0!Sessions : Held[t] \subseteq Nat0!Packets
      /\ p \in Nat0!Packets
  BY PacketSets DEF NatInv
<1>4. Chain' /\ Apart'
  BY <1>1, <1>2, <1>3 DEF NatInv, Chain, Apart
<1>5. written' = written => Sent'
  <2>1. made' # 0 => made \in Nat0!Sessions
    BY NatAssumption, SMT DEF NatInv, NatType, Nat0!Sessions
  <2>2. made' # 0 => Held'[made'] \subseteq Held[made]
    BY <1>3, <2>1
  <2> QED
    BY <1>1, <1>2, <2>2 DEF NatInv, Sent, Nat0!SentInOrder
<1>6. Kept'
  <2>1. p <= arrived /\ p \notin Queued /\ p \notin Carried
    BY PacketSets, SMT DEF NatInv, Chain
  <2>2. \A t \in Nat0!Sessions : t # s => p \notin Held[t]
    BY <1>3 DEF NatInv, Apart
  <2>3. \A q \in dropped' : q <= arrived'
    BY <2>1 DEF NatInv, Kept
  <2>4. ASSUME NEW q \in 1 .. arrived
        PROVE  q \in dropped' <=>
                 ~(q \in Queued' \/ q \in Carried' \/ \E t \in Nat0!Sessions : q \in Held'[t])
    <3>1. CASE q = p
      BY <1>1, <1>2, <1>3, <2>1, <2>2, <3>1
    <3>2. CASE q # p
      <4>1. (\E t \in Nat0!Sessions : q \in Held'[t]) <=> \E t \in Nat0!Sessions : q \in Held[t]
        BY <1>3, <3>2
      <4> QED
        BY <1>1, <1>2, <4>1, <3>2 DEF NatInv, Kept
    <3> QED
      BY <3>1, <3>2
  <2> QED
    BY <2>3, <2>4 DEF Kept
<1> QED
  BY <1>4, <1>5, <1>6

LEMMA ProcessDoneInv ==
  ASSUME NatInv, NEW s \in Nat0!Sessions, Nat0!ProcessDone(s)
  PROVE  NatInv' /\ MappingsStay
<1>1. /\ UNCHANGED <<arrived, queue, worker, made, dropped, written>>
      /\ sess[s].proc = "select" /\ nat' = nat
      /\ sess' = [sess EXCEPT ![s].proc = "end"]
  BY DEF Nat0!ProcessDone
<1>2. sess' \in [Nat0!Sessions -> Senders]
  BY <1>1, FieldTypes DEF NatInv, NatType, Procs, Relays
<1>3. NatType'
  BY <1>1, <1>2 DEF NatInv, NatType
<1>4. \A t \in Nat0!Sessions : t # s => sess'[t] = sess[t]
  BY <1>1, SMT DEF NatInv, NatType
<1>5. /\ sess'[s].ch = sess[s].ch /\ sess'[s].packet = sess[s].packet
      /\ sess'[s].originToTarget = sess[s].originToTarget
      /\ sess'[s].targetToOrigin = sess[s].targetToOrigin
      /\ sess'[s].proc = "end" /\ sess'[s].relay = sess[s].relay /\ sess'[s].open = sess[s].open
  BY <1>1, SMT DEF NatInv, NatType, Senders
<1>6. s <= made
  BY <1>1, Fresh
<1>7. Life'
  BY <1>1, <1>4, <1>5, <1>6, SMT DEF NatInv, Life, Over, Busy, NatType, Nat0!Sessions
<1>8. Hand(s)' <=> Hand(s)
  BY <1>1, <1>5 DEF Hand
<1> QED
  <2>1. sess'[s].proc = "write" =>
           sess'[s].target # 0 /\ sess[s].originToTarget[Origin[sess'[s].packet]] = sess'[s].target
    BY <1>1, <1>5 DEF NatInv, Mapped
  <2>2. sess'[s].proc # "dial"
    BY <1>1, <1>5 DEF NatInv, Life
  <2> QED
    BY <1>1, <1>3, <1>4, <1>5, <1>7, <1>8, <2>1, <2>2, SenderRests

LEMMA RelayEndsInv ==
  ASSUME NatInv, NEW s \in Nat0!Sessions, Nat0!RelayEnds(s)
  PROVE  NatInv' /\ MappingsStay
<1>1. /\ UNCHANGED <<arrived, queue, worker, made, dropped, written>>
      /\ sess[s].relay = "read" /\ nat' = nat
      /\ sess' = [[sess EXCEPT ![s].done = TRUE] EXCEPT ![s].relay = "drain"]
  BY DEF Nat0!RelayEnds, Nat0!Cancel
<1>2. sess' \in [Nat0!Sessions -> Senders]
  BY <1>1, FieldTypes DEF NatInv, NatType, Procs, Relays
<1>3. NatType'
  BY <1>1, <1>2 DEF NatInv, NatType
<1>4. \A t \in Nat0!Sessions : t # s => sess'[t] = sess[t]
  BY <1>1, SMT DEF NatInv, NatType
<1>5. /\ sess'[s].ch = sess[s].ch /\ sess'[s].packet = sess[s].packet
      /\ sess'[s].originToTarget = sess[s].originToTarget
      /\ sess'[s].targetToOrigin = sess[s].targetToOrigin
      /\ sess'[s].proc = sess[s].proc /\ sess'[s].relay = "drain" /\ sess'[s].open = sess[s].open
      /\ sess'[s].target = sess[s].target
  BY <1>1, SMT DEF NatInv, NatType, Senders
<1>6. s <= made
  BY <1>1, Fresh
<1>7. Life'
  BY <1>1, <1>4, <1>5, <1>6, SMT DEF NatInv, Life, Over, Busy, NatType, Nat0!Sessions
<1>8. Hand(s)' <=> Hand(s)
  BY <1>1, <1>5 DEF Hand
<1> QED
  <2>1. sess'[s].proc = "write" =>
           sess'[s].target # 0 /\ sess[s].originToTarget[Origin[sess'[s].packet]] = sess'[s].target
    BY <1>1, <1>5 DEF NatInv, Mapped
  <2>2. sess'[s].proc # "dial"
    BY <1>1, <1>5 DEF NatInv, Life
  <2> QED
    BY <1>1, <1>3, <1>4, <1>5, <1>7, <1>8, <2>1, <2>2, SenderRests

LEMMA DialFailsInv ==
  ASSUME NatInv, NEW s \in Nat0!Sessions, Nat0!DialFails(s)
  PROVE  NatInv' /\ MappingsStay
<1>1. /\ UNCHANGED <<arrived, queue, worker, made, dropped, written>>
      /\ sess[s].proc = "dial" /\ nat' = nat /\ s <= made
      /\ sess' = [[sess EXCEPT ![s].done = TRUE] EXCEPT ![s].proc = "drain"]
  BY DEF Nat0!DialFails, Nat0!Cancel
<1>2. sess' \in [Nat0!Sessions -> Senders]
  BY <1>1, FieldTypes DEF NatInv, NatType, Procs, Relays
<1>3. NatType'
  BY <1>1, <1>2 DEF NatInv, NatType
<1>4. \A t \in Nat0!Sessions : t # s => sess'[t] = sess[t]
  BY <1>1, SMT DEF NatInv, NatType
<1>5. /\ sess'[s].ch = sess[s].ch /\ sess'[s].packet = sess[s].packet
      /\ sess'[s].originToTarget = sess[s].originToTarget
      /\ sess'[s].targetToOrigin = sess[s].targetToOrigin
      /\ sess'[s].proc = "drain" /\ sess'[s].relay = sess[s].relay /\ sess'[s].open = sess[s].open
  BY <1>1, SMT DEF NatInv, NatType, Senders
<1>6. Life'
  BY <1>1, <1>4, <1>5, SMT DEF NatInv, Life, Over, Busy, NatType, Nat0!Sessions
<1>7. Hand(s)' <=> Hand(s)
  BY <1>1, <1>5 DEF Hand
<1>8. /\ sess'[s].proc # "dial"
      /\ sess'[s].proc = "write" =>
           sess'[s].target # 0 /\ sess[s].originToTarget[Origin[sess'[s].packet]] = sess'[s].target
  BY <1>5
<1> QED
  BY <1>1, <1>3, <1>4, <1>5, <1>6, <1>7, <1>8, SenderRests

LEMMA DeleteInv ==
  ASSUME NatInv, NEW s \in Nat0!Sessions, Nat0!Delete(s)
  PROVE  NatInv' /\ MappingsStay
<1>1. /\ UNCHANGED <<arrived, queue, worker, made, dropped, written>>
      /\ "delete" \in {sess[s].proc, sess[s].relay} /\ nat' = 0
      /\ sess' = IF sess[s].proc = "delete" THEN [sess EXCEPT ![s].proc = "end"]
                 ELSE [sess EXCEPT ![s].relay = "end"]
  BY DEF Nat0!Delete, Nat0!None
<1>2. sess' \in [Nat0!Sessions -> Senders]
  BY <1>1, FieldTypes DEF NatInv, NatType, Procs, Relays
<1>3. NatType'
  BY <1>1, <1>2 DEF NatInv, NatType
<1>4. \A t \in Nat0!Sessions : t # s => sess'[t] = sess[t]
  BY <1>1, SMT DEF NatInv, NatType
<1>5. /\ sess'[s].ch = sess[s].ch /\ sess'[s].packet = sess[s].packet
      /\ sess'[s].originToTarget = sess[s].originToTarget
      /\ sess'[s].targetToOrigin = sess[s].targetToOrigin
      /\ sess'[s].open = sess[s].open /\ sess'[s].target = sess[s].target
      /\ IF sess[s].proc = "delete" THEN sess'[s].proc = "end" /\ sess'[s].relay = sess[s].relay
         ELSE sess'[s].proc = sess[s].proc /\ sess'[s].relay = "end"
  BY <1>1, SMT DEF NatInv, NatType, Senders
<1>6. s <= made
  BY <1>1, Fresh
(* Only this session can be in the table.                                   *)
<1>7. /\ nat = s /\ Over(s)'
      /\ \A t \in Nat0!Sessions : t # s /\ t <= made => Over(t) /\ Over(t)'
  BY <1>1, <1>4, <1>5, <1>6, SMT DEF NatInv, Life, Over
<1>8. Life'
  BY <1>1, <1>4, <1>5, <1>6, <1>7, SMT DEF NatInv, Life, Busy, NatType, Nat0!Sessions
<1>9. Hand(s)' <=> Hand(s)
  BY <1>1, <1>5 DEF Hand
<1> QED
  <2>1. sess'[s].proc = "write" =>
           sess'[s].target # 0 /\ sess[s].originToTarget[Origin[sess'[s].packet]] = sess'[s].target
    BY <1>5 DEF NatInv, Mapped
  <2>2. sess'[s].proc # "dial"
    BY <1>1, <1>5 DEF NatInv, Life
  <2> QED
    BY <1>1, <1>3, <1>4, <1>5, <1>8, <1>9, <2>1, <2>2, SenderRests

LEMMA DropAllInv ==
  ASSUME NatInv, NEW s \in Nat0!Sessions, Nat0!DropAll(s)
  PROVE  NatInv' /\ MappingsStay
<1>1. /\ UNCHANGED <<arrived, queue, worker, made, nat, written>>
      /\ "drain" \in {sess[s].proc, sess[s].relay}
  BY DEF Nat0!DropAll
<1>2. s <= made
  BY <1>1, Fresh
<1>3. CASE sess[s].ch = <<>>
  <2>1. /\ dropped' = dropped
        /\ sess' = IF sess[s].proc = "drain" THEN [sess EXCEPT ![s].proc = "delete"]
                   ELSE [[sess EXCEPT ![s].relay = "delete"] EXCEPT ![s].open = FALSE]
    BY <1>3 DEF Nat0!DropAll, Nat0!Keep
  <2>2. sess' \in [Nat0!Sessions -> Senders]
    BY <2>1, FieldTypes DEF NatInv, NatType, Procs, Relays
  <2>3. NatType'
    BY <1>1, <2>1, <2>2 DEF NatInv, NatType
  <2>4. \A t \in Nat0!Sessions : t # s => sess'[t] = sess[t]
    BY <2>1, SMT DEF NatInv, NatType
  <2>5. /\ sess'[s].ch = sess[s].ch /\ sess'[s].packet = sess[s].packet
        /\ sess'[s].originToTarget = sess[s].originToTarget
        /\ sess'[s].targetToOrigin = sess[s].targetToOrigin
        /\ sess'[s].target = sess[s].target
        /\ IF sess[s].proc = "drain"
           THEN sess'[s].proc = "delete" /\ sess'[s].relay = sess[s].relay /\ sess'[s].open = sess[s].open
           ELSE sess'[s].proc = sess[s].proc /\ sess'[s].relay = "delete" /\ sess'[s].open = FALSE
    <3>1. CASE sess[s].proc = "drain"
      BY <2>1, <3>1, SMT DEF NatInv, NatType, Senders
    <3>2. CASE sess[s].proc # "drain"
      BY <2>1, <3>2, SMT DEF NatInv, NatType, Senders
    <3> QED
      BY <3>1, <3>2
  <2>6. Life'
    BY <1>1, <1>2, <2>4, <2>5, SMT DEF NatInv, Life, Over, Busy, NatType, Nat0!Sessions
  <2>7. Hand(s)' <=> Hand(s)
    BY <1>1, <2>5 DEF Hand
  <2>8. sess'[s].proc = "write" =>
           sess'[s].target # 0 /\ sess[s].originToTarget[Origin[sess'[s].packet]] = sess'[s].target
    BY <2>5 DEF NatInv, Mapped
  <2>9. sess'[s].proc # "dial"
    BY <1>1, <2>5 DEF NatInv, Life
  <2> QED
    BY <1>1, <2>1, <2>3, <2>4, <2>5, <2>6, <2>7, <2>8, <2>9, SenderRests
<1>4. CASE sess[s].ch # <<>>
  <2> DEFINE ch == sess[s].ch
             p == Head(ch)
  <2>1. /\ dropped' = dropped \cup {p}
        /\ sess' = [sess EXCEPT ![s].ch = Tail(@)]
    BY <1>4 DEF Nat0!DropAll, Nat0!Drop
  <2>2. ch \in Seq(Nat0!Packets)
    BY SMT DEF NatInv, NatType, Senders
  <2>3. p \in Nat0!Packets /\ Tail(ch) \in Seq(Nat0!Packets)
    BY <1>4, <2>2, HeadTailProperties
  <2>4. sess' = [sess EXCEPT ![s].ch = Tail(ch)] /\ sess' \in [Nat0!Sessions -> Senders]
    BY <2>1, <2>3, FieldTypes DEF NatInv, NatType
  <2>5. NatType'
    BY <1>1, <2>1, <2>3, <2>4 DEF NatInv, NatType
  <2>6. \A t \in Nat0!Sessions : t # s => sess'[t] = sess[t]
    BY <2>4, SMT DEF NatInv, NatType
  <2>7. /\ sess'[s].ch = Tail(ch) /\ sess'[s].packet = sess[s].packet
        /\ sess'[s].proc = sess[s].proc /\ sess'[s].relay = sess[s].relay /\ sess'[s].open = sess[s].open
        /\ sess'[s].originToTarget = sess[s].originToTarget
        /\ sess'[s].targetToOrigin = sess[s].targetToOrigin
        /\ sess'[s].target = sess[s].target
    BY <2>4, SMT DEF NatInv, NatType, Senders
  <2>8. Life'
    BY <1>1, <1>2, <2>6, <2>7, SMT DEF NatInv, Life, Over, Busy, NatType, Nat0!Sessions
  <2>9. /\ \A q \in Nat0!Packets : In(q, ch) <=> In(q, Tail(ch)) \/ q = p
        /\ Increasing(Tail(ch))
        /\ \A q \in Nat0!Packets : In(q, Tail(ch)) => p < q
        /\ Hand(s) => \A q \in Nat0!Packets : In(q, ch) => sess[s].packet < q
    <3>1. Nat0!Packets \subseteq Int /\ Increasing(ch)
      BY PacketSets, SMT DEF NatInv, Lists
    <3> QED
      BY <1>4, <2>2, <3>1, TakeIn, TakeIncreasing DEF NatInv, Lists
  <2> HIDE DEF ch, p
  <2>10. /\ p \in Held[s] /\ Held' = [Held EXCEPT ![s] = @ \ {p}]
    <3>1. Nat0!Packets \subseteq Int
      BY PacketSets DEF NatInv
    <3>2. p \notin {q \in Nat0!Packets : In(q, Tail(ch)) \/ (Hand(s) /\ sess[s].packet = q)}
      BY <2>3, <2>9, <3>1, SMT
    <3>3. /\ Hand(s)' <=> Hand(s)
          /\ \A t \in Nat0!Sessions : t # s => (Hand(t)' <=> Hand(t))
      BY <2>6, <2>7 DEF Hand
    <3>4. Held[s] = {q \in Nat0!Packets : In(q, Tail(ch)) \/ (Hand(s) /\ sess[s].packet = q)} \cup {p}
      BY <2>3, <2>9 DEF Held, ch
    <3>5. Held'[s] = {q \in Nat0!Packets : In(q, Tail(ch)) \/ (Hand(s) /\ sess[s].packet = q)}
      BY <2>7, <3>3 DEF Held
    <3>6. \A t \in Nat0!Sessions : t # s => Held'[t] = Held[t]
      BY <2>6, <3>3 DEF Held
    <3>7. DOMAIN Held' = Nat0!Sessions /\ Held \in [Nat0!Sessions -> SUBSET Nat0!Packets]
      BY PacketSets DEF Held, NatInv
    <3>8. Held' = [t \in Nat0!Sessions |-> Held'[t]]
      BY DEF Held
    <3> QED
      BY <3>2, <3>4, <3>5, <3>6, <3>7, <3>8
  <2>11. Lists'
    BY <1>1, <2>6, <2>7, <2>9 DEF NatInv, Lists, Hand
  <2>12. Chain' /\ Apart' /\ Sent' /\ Kept'
    BY <1>1, <2>1, <2>5, <2>10, SenderDrops
  <2>13. Mapped' /\ WroteMapped' /\ MappingsStay
    <3>1. ASSUME NEW t \in Nat0!Sessions
          PROVE  /\ sess'[t].originToTarget = sess[t].originToTarget
                 /\ sess'[t].targetToOrigin = sess[t].targetToOrigin
                 /\ sess'[t].proc = "dial" => sess[t].proc = "dial"
                 /\ sess'[t].proc = "write" =>
                      sess'[t].target # 0 /\ sess[t].originToTarget[Origin[sess'[t].packet]] = sess'[t].target
      BY <2>6, <2>7 DEF NatInv, Mapped
    <3> QED
      BY <1>1, <2>5, <3>1, MapsRest
  <2> QED
    BY <2>5, <2>8, <2>11, <2>12, <2>13 DEF NatInv
<1> QED
  BY <1>3, <1>4

LEMMA OriginsType ==
  /\ Nat0!Origins \subseteq Nat \ {0}
  /\ \A p \in Nat0!Packets : Origin[p] \in Nat0!Origins
  /\ \A o \in Nat0!Origins : Address[o] \in Nat
<1>1. \A p \in Nat0!Packets : Origin[p] \in Nat \ {0}
  BY NatAssumption, ElementOfSeq DEF Nat0!Packets
<1> QED
  BY <1>1, NatAssumption DEF Nat0!Origins, Nat0!Packets

(* What a new mapping leaves: both maps agree, and no mapping is replaced.  *)
LEMMA AddMappingKeeps ==
  ASSUME NEW e \in Senders, NEW o \in Nat0!Origins, NEW t \in Targets,
         e.originToTarget[o] = 0, Agree(e)
  PROVE  LET a == Nat0!AddMapping(e, o, t) IN
         /\ a \in Senders
         /\ a.ch = e.ch /\ a.packet = e.packet /\ a.proc = e.proc /\ a.relay = e.relay
         /\ a.open = e.open /\ a.done = e.done /\ a.target = e.target
         /\ a.originToTarget[o] = t
         /\ \A p \in Nat0!Origins : e.originToTarget[p] # 0 => a.originToTarget[p] = e.originToTarget[p]
         /\ \A u \in Targets : e.targetToOrigin[u] # 0 => a.targetToOrigin[u] = e.targetToOrigin[u]
         /\ Agree(a)
<1> DEFINE a == Nat0!AddMapping(e, o, t)
           to == [e.originToTarget EXCEPT ![o] = t]
           back == [e.targetToOrigin EXCEPT ![t] = IF @ = 0 THEN Address[o] ELSE @]
<1>0. Address[o] \in Nat /\ t # 0 /\ 0 \notin Targets
  BY OriginsType, NatAssumption
<1>1. /\ e.originToTarget \in [Nat0!Origins -> Targets \cup {0}]
      /\ e.targetToOrigin \in [Targets -> Nat]
  BY DEF Senders
<1>2. to \in [Nat0!Origins -> Targets \cup {0}] /\ back \in [Targets -> Nat]
  BY <1>0, <1>1
<1>3. /\ to[o] = t /\ \A p \in Nat0!Origins : p # o => to[p] = e.originToTarget[p]
      /\ back[t] = IF e.targetToOrigin[t] = 0 THEN Address[o] ELSE e.targetToOrigin[t]
      /\ \A u \in Targets : u # t => back[u] = e.targetToOrigin[u]
  BY <1>1
<1>4. a = [[e EXCEPT !.originToTarget = to] EXCEPT !.targetToOrigin = back]
  BY <1>1, SMT DEF Nat0!AddMapping, Nat0!None, Senders
<1> HIDE DEF to, back, a
<1>5. a \in Senders
  <2>1. \A r \in Senders : [r EXCEPT !.originToTarget = to] \in Senders
    BY <1>2, ZenonT(90) DEF Senders
  <2>2. \A r \in Senders : [r EXCEPT !.targetToOrigin = back] \in Senders
    BY <1>2, ZenonT(90) DEF Senders
  <2> QED
    BY <1>4, <2>1, <2>2
<1>6. /\ a.ch = e.ch /\ a.packet = e.packet /\ a.proc = e.proc /\ a.relay = e.relay
      /\ a.open = e.open /\ a.done = e.done /\ a.target = e.target
      /\ a.originToTarget = to /\ a.targetToOrigin = back
  BY <1>4, SMT DEF Senders
<1>7. /\ \A p \in Nat0!Origins : e.originToTarget[p] # 0 => to[p] = e.originToTarget[p]
      /\ \A u \in Targets : e.targetToOrigin[u] # 0 => back[u] = e.targetToOrigin[u]
  BY <1>3
<1>8. ASSUME NEW p \in Nat0!Origins, to[p] # 0, Address[p] # 0 PROVE back[to[p]] # 0
  <2>1. CASE p = o
    BY <1>3, <1>8, <2>1
  <2>2. CASE p # o
    <3>1. to[p] = e.originToTarget[p]
      BY <1>3, <2>2
    <3>2. to[p] \in Targets
      BY <1>1, <1>8, <3>1
    <3>3. e.targetToOrigin[to[p]] # 0
      BY <1>8, <3>1 DEF Agree
    <3> QED
      BY <1>7, <3>2, <3>3
  <2> QED
    BY <2>1, <2>2
<1>9. ASSUME NEW u \in Targets, back[u] # 0
      PROVE  \E p \in Nat0!Origins : Address[p] = back[u] /\ to[p] = u
  <2>1. CASE u = t /\ e.targetToOrigin[t] = 0
    BY <1>3, <2>1
  <2>2. CASE ~(u = t /\ e.targetToOrigin[t] = 0)
    <3>1. back[u] = e.targetToOrigin[u]
      BY <1>3, <2>2
    <3>2. PICK p \in Nat0!Origins : Address[p] = back[u] /\ e.originToTarget[p] = u
      BY <1>9, <3>1 DEF Agree
    <3>3. p # o
      BY <1>0, <3>2
    <3> QED
      BY <1>3, <3>2, <3>3
  <2> QED
    BY <2>1, <2>2
<1>10. Agree(a)
  BY <1>6, <1>8, <1>9 DEF Agree
<1> QED
  BY <1>3, <1>5, <1>6, <1>7, <1>10 DEF a

(* A step of one sender that may add a mapping.                             *)
LEMMA MapsGrow ==
  ASSUME NatInv, NatType', UNCHANGED written, NEW s \in Nat0!Sessions,
         \A t \in Nat0!Sessions : t # s => sess'[t] = sess[t],
         \A o \in Nat0!Origins : sess[s].originToTarget[o] # 0 =>
           sess'[s].originToTarget[o] = sess[s].originToTarget[o],
         \A t \in Targets : sess[s].targetToOrigin[t] # 0 =>
           sess'[s].targetToOrigin[t] = sess[s].targetToOrigin[t],
         Agree(sess'[s]),
         sess'[s].proc # "dial",
         sess'[s].proc = "write" =>
           sess'[s].target # 0 /\ sess'[s].originToTarget[Origin[sess'[s].packet]] = sess'[s].target
  PROVE  Mapped' /\ WroteMapped' /\ MappingsStay
<1>1. Mapped'
  <2> SUFFICES ASSUME NEW t \in Nat0!Sessions
               PROVE  /\ Agree(sess'[t])
                      /\ sess'[t].proc = "dial" =>
                           /\ \A o \in Nat0!Origins : sess'[t].originToTarget[o] = 0
                           /\ \A u \in Targets : sess'[t].targetToOrigin[u] = 0
                      /\ sess'[t].proc = "write" =>
                           sess'[t].target # 0 /\ sess'[t].originToTarget[Origin[sess'[t].packet]] = sess'[t].target
    BY DEF Mapped
  <2>1. CASE t = s
    BY <2>1
  <2>2. CASE t # s
    BY <2>2 DEF NatInv, Mapped
  <2> QED
    BY <2>1, <2>2
<1>2. ASSUME NEW i \in DOMAIN written
      PROVE  sess'[written[i].s].originToTarget[Origin[written[i].packet]] = written[i].target
  <2>1. /\ written[i].s \in Nat0!Sessions /\ written[i].target # 0
        /\ Origin[written[i].packet] \in Nat0!Origins
    BY WrittenType, OriginsType, NatAssumption DEF NatInv
  <2>2. sess[written[i].s].originToTarget[Origin[written[i].packet]] = written[i].target
    BY DEF NatInv, WroteMapped
  <2> QED
    BY <2>1, <2>2
<1> QED
  BY <1>1, <1>2 DEF WroteMapped, MappingsStay, Nat0!None

(* A step of one sender that moves no packet.                               *)
LEMMA SenderKeeps ==
  ASSUME NatInv, NatType', NEW s \in Nat0!Sessions,
         UNCHANGED <<arrived, queue, worker, made, dropped, written>>,
         \A t \in Nat0!Sessions : t # s => sess'[t] = sess[t],
         sess'[s].ch = sess[s].ch, Hand(s)' <=> Hand(s),
         Hand(s) => sess'[s].packet = sess[s].packet
  PROVE  Lists' /\ Chain' /\ Apart' /\ Sent' /\ Kept'
<1>1. Busy' = Busy /\ worker'.packet = worker.packet /\ made' = made
  BY DEF Busy
<1>2. \A t \in Nat0!Sessions :
         /\ sess'[t].ch = sess[t].ch
         /\ Hand(t)' <=> Hand(t)
         /\ Hand(t) => sess'[t].packet = sess[t].packet
  BY DEF Hand
<1> QED
  BY <1>1, <1>2, PacketsRest

LEMMA DialInv ==
  ASSUME NatInv, NEW s \in Nat0!Sessions, Nat0!Dial(s)
  PROVE  NatInv' /\ MappingsStay
<1> DEFINE e == [[[sess[s] EXCEPT !.proc = "select"] EXCEPT !.relay = "read"] EXCEPT !.open = TRUE]
           o == Origin[e.packet]
<1>1. /\ UNCHANGED <<arrived, queue, worker, made, nat, dropped, written>>
      /\ s <= made /\ sess[s].proc = "dial"
  BY DEF Nat0!Dial
<1>2. PICK t \in Targets \cup {0} :
        sess' = [sess EXCEPT ![s] = IF t = 0 THEN e ELSE Nat0!AddMapping(e, o, t)]
  BY DEF Nat0!Dial, Nat0!None
<1> DEFINE a == IF t = 0 THEN e ELSE Nat0!AddMapping(e, o, t)
<1>3. sess[s] \in Senders
  BY DEF NatInv, NatType
<1>4. /\ e \in Senders /\ e.proc = "select" /\ e.relay = "read" /\ e.open = TRUE
      /\ e.ch = sess[s].ch /\ e.packet = sess[s].packet /\ e.done = sess[s].done
      /\ e.originToTarget = sess[s].originToTarget /\ e.targetToOrigin = sess[s].targetToOrigin
  <2>1. e \in Senders
    BY <1>3, Zenon DEF Senders, Procs, Relays
  <2> QED
    BY <1>3, <2>1, SMT DEF Senders
<1>5. /\ \A p \in Nat0!Origins : e.originToTarget[p] = 0
      /\ \A u \in Targets : e.targetToOrigin[u] = 0
      /\ o \in Nat0!Origins
  <2>1. e.packet \in Nat0!Packets
    BY <1>1, <1>4 DEF NatInv, Life
  <2> QED
    BY <1>1, <1>4, <2>1, OriginsType DEF NatInv, Mapped
<1> HIDE DEF e, o
<1>6. /\ a \in Senders /\ a.proc = "select" /\ a.relay = "read"
      /\ a.ch = sess[s].ch /\ a.packet = sess[s].packet
      /\ Agree(a)
  <2>0. Agree(e)
    BY <1>5 DEF Agree
  <2>1. CASE t = 0
    BY <1>4, <2>0, <2>1
  <2>2. CASE t # 0
    <3>1. t \in Targets
      BY <2>2
    <3> QED
      BY <1>4, <1>5, <2>0, <2>2, <3>1, AddMappingKeeps
  <2> QED
    BY <2>1, <2>2
<1> HIDE DEF a
<1>7. sess' = [sess EXCEPT ![s] = a]
  BY <1>2 DEF a
<1>8. /\ sess' \in [Nat0!Sessions -> Senders] /\ sess'[s] = a
      /\ \A u \in Nat0!Sessions : u # s => sess'[u] = sess[u]
  BY <1>6, <1>7 DEF NatInv, NatType
<1>9. NatType'
  BY <1>1, <1>8 DEF NatInv, NatType
<1>10. Life'
  BY <1>1, <1>6, <1>8, SMT DEF NatInv, Life, Over, Busy, NatType, Nat0!Sessions
<1>11. Lists' /\ Chain' /\ Apart' /\ Sent' /\ Kept'
  <2>1. ~Hand(s) /\ ~Hand(s)'
    BY <1>1, <1>6, <1>8 DEF Hand
  <2> QED
    BY <1>1, <1>6, <1>8, <1>9, <2>1, SenderKeeps
<1>12. Mapped' /\ WroteMapped' /\ MappingsStay
  <2>1. /\ \A p \in Nat0!Origins : sess[s].originToTarget[p] = 0
        /\ \A u \in Targets : sess[s].targetToOrigin[u] = 0
        /\ sess'[s].proc # "dial" /\ sess'[s].proc # "write"
    BY <1>1, <1>6, <1>8 DEF NatInv, Mapped
  <2> QED
    BY <1>1, <1>6, <1>8, <1>9, <2>1, MapsGrow
<1> QED
  BY <1>9, <1>10, <1>11, <1>12 DEF NatInv

LEMMA ProcessTakesInv ==
  ASSUME NatInv, NEW s \in Nat0!Sessions, Nat0!ProcessTakes(s)
  PROVE  NatInv' /\ MappingsStay
<1> DEFINE ch == sess[s].ch
           p == Head(ch)
<1>1. /\ UNCHANGED <<arrived, queue, worker, made, nat, dropped, written>>
      /\ sess[s].proc = "select" /\ ch # <<>>
      /\ sess' = [sess EXCEPT ![s].proc = "packet", ![s].packet = p, ![s].ch = Tail(@)]
  BY DEF Nat0!ProcessTakes
<1>2. s <= made
  BY <1>1, Fresh
<1>3. ch \in Seq(Nat0!Packets) /\ p \in Nat0!Packets /\ Tail(ch) \in Seq(Nat0!Packets)
  <2>1. ch \in Seq(Nat0!Packets)
    BY SMT DEF NatInv, NatType, Senders
  <2> QED
    BY <1>1, <2>1, HeadTailProperties
<1>4. sess' = [sess EXCEPT ![s].proc = "packet", ![s].packet = p, ![s].ch = Tail(ch)]
  BY <1>1, SMT DEF NatInv, NatType, Senders
<1>5. sess' \in [Nat0!Sessions -> Senders]
  BY <1>3, <1>4, FieldTypes DEF NatInv, NatType, Procs
<1>6. NatType'
  BY <1>1, <1>5 DEF NatInv, NatType
<1>7. \A t \in Nat0!Sessions : t # s => sess'[t] = sess[t]
  BY <1>4, SMT DEF NatInv, NatType
<1>8. /\ sess'[s].ch = Tail(ch) /\ sess'[s].packet = p /\ sess'[s].proc = "packet"
      /\ sess'[s].relay = sess[s].relay /\ sess'[s].open = sess[s].open
      /\ sess'[s].originToTarget = sess[s].originToTarget
      /\ sess'[s].targetToOrigin = sess[s].targetToOrigin
  BY <1>4, SMT DEF NatInv, NatType, Senders
<1>9. Life'
  <2>1. Busy' = Busy /\ \A t \in Nat0!Sessions : Over(t)' <=> Over(t)
    BY <1>1, <1>7, <1>8 DEF Busy, Over
  <2>2. ~(s > made)
    BY <1>2, NatAssumption, SMT DEF NatInv, NatType, Nat0!Sessions
  <2> HIDE DEF p, ch
  <2>3. ASSUME NEW t \in Nat0!Sessions
        PROVE  /\ t > made => sess'[t] = Nat0!NewPacketSender
               /\ t <= made => sess'[t].packet \in Nat0!Packets
               /\ t <= made /\ ~Over(t) => nat = t
               /\ sess'[t].proc \in {"dial", "drain", "delete"} => sess'[t].relay = "none"
               /\ sess'[t].proc \in {"select", "packet", "write"} => sess'[t].relay # "none"
               /\ sess'[t].open => sess'[t].relay \in {"read", "drain"}
    <3>1. CASE t = s
      BY <1>1, <1>3, <1>8, <2>2, <3>1 DEF NatInv, Life
    <3>2. CASE t # s
      BY <1>7, <3>2 DEF NatInv, Life
    <3> QED
      BY <3>1, <3>2
  <2> QED
    BY <1>1, <2>1, <2>3 DEF NatInv, Life
<1>10. /\ \A q \in Nat0!Packets : In(q, ch) <=> In(q, Tail(ch)) \/ q = p
       /\ Increasing(Tail(ch))
       /\ \A q \in Nat0!Packets : In(q, Tail(ch)) => p < q
  <2>1. Nat0!Packets \subseteq Int /\ Increasing(ch)
    BY PacketSets, SMT DEF NatInv, Lists
  <2> QED
    BY <1>1, <1>3, <2>1, TakeIn, TakeIncreasing
<1>11. /\ Hand(s)' /\ ~Hand(s)
       /\ \A t \in Nat0!Sessions : t # s => (Hand(t)' <=> Hand(t))
  BY <1>1, <1>7, <1>8 DEF Hand
<1>12. Lists'
  BY <1>1, <1>7, <1>8, <1>10, <1>11 DEF NatInv, Lists
<1>13. Queued' = Queued /\ Carried' = Carried /\ Held' = Held
  <2>1. Queued' = Queued /\ Carried' = Carried
    BY <1>1 DEF Queued, Carried, Busy
  <2>2. ASSUME NEW t \in Nat0!Sessions
        PROVE  {q \in Nat0!Packets : In(q, sess[t].ch) \/ (Hand(t) /\ sess[t].packet = q)}
               = {q \in Nat0!Packets : In(q, sess'[t].ch) \/ (Hand(t)' /\ sess'[t].packet = q)}
    <3>1. CASE t = s
      BY <1>8, <1>10, <1>11, <3>1
    <3>2. CASE t # s
      BY <1>7, <1>11, <3>2
    <3> QED
      BY <3>1, <3>2
  <2> QED
    BY <2>1, <2>2 DEF Held
<1>14. Chain' /\ Apart' /\ Sent' /\ Kept'
  BY <1>1, <1>13 DEF NatInv, Chain, Apart, Sent, Kept, Nat0!SentInOrder
<1>15. Mapped' /\ WroteMapped' /\ MappingsStay
  <2>1. ASSUME NEW t \in Nat0!Sessions
        PROVE  /\ sess'[t].originToTarget = sess[t].originToTarget
               /\ sess'[t].targetToOrigin = sess[t].targetToOrigin
               /\ sess'[t].proc = "dial" => sess[t].proc = "dial"
               /\ sess'[t].proc = "write" =>
                    sess'[t].target # 0 /\ sess[t].originToTarget[Origin[sess'[t].packet]] = sess'[t].target
    BY <1>7, <1>8 DEF NatInv, Mapped
  <2> QED
    BY <1>1, <1>6, <2>1, MapsRest
<1> QED
  BY <1>6, <1>9, <1>12, <1>14, <1>15 DEF NatInv

(* The packet of the worker is nowhere else.                                *)
LEMMA CarriedOnce ==
  ASSUME NatInv, NEW x \in Carried
  PROVE  x <= arrived /\ x \notin Queued /\ \A s \in Nat0!Sessions : x \notin Held[s]
<1>1. x \in Int
  BY PacketSets DEF NatInv
<1> QED
  BY <1>1, SMT DEF NatInv, Chain

(* What neither goroutine of a session did.                                 *)
LEMMA SessionsRest ==
  ASSUME NatInv, UNCHANGED <<sess, written>>
  PROVE  Held' = Held /\ Mapped' /\ WroteMapped' /\ MappingsStay
<1>1. Held' = Held
  BY DEF Held, Hand
<1> QED
  BY <1>1 DEF NatInv, Mapped, WroteMapped, MappingsStay

LEMMA HandleUDPPacketInv ==
  ASSUME NatInv, Nat0!HandleUDPPacket
  PROVE  NatInv' /\ MappingsStay
<1> DEFINE x == arrived + 1
<1>1. /\ UNCHANGED <<worker, made, nat, sess, written>>
      /\ arrived < Len(Origin) /\ arrived' = x
      /\ \/ queue' = Append(queue, x) /\ dropped' = dropped
         \/ queue' = queue /\ dropped' = dropped \cup {x}
  BY DEF Nat0!HandleUDPPacket, Nat0!Drop, Nat0!Keep
<1>2. /\ x \in Nat0!Packets /\ x \in 1 .. Len(Origin) /\ arrived \in Nat
      /\ queue \in Seq(Nat0!Packets) /\ Nat0!Packets \subseteq Int
  <2>1. Len(Origin) \in Nat
    BY NatAssumption, LenProperties
  <2> QED
    BY <1>1, <2>1, PacketSets, SMT DEF NatInv, NatType, Nat0!Packets
<1>3. Held' = Held /\ Mapped' /\ WroteMapped' /\ MappingsStay
  BY <1>1, SessionsRest
<1>4. Carried' = Carried
  BY <1>1 DEF Carried, Busy
<1>5. Life'
  BY <1>1 DEF NatInv, Life, Over, Busy
<1>6. /\ \A p \in Queued : p <= arrived
      /\ \A p \in Carried : p <= arrived
      /\ \A s \in Nat0!Sessions : \A p \in Held[s] : p <= arrived
      /\ \A i \in DOMAIN written : written[i].packet <= arrived /\ written[i].packet \in Nat0!Packets
      /\ Queued \subseteq Nat0!Packets /\ Carried \subseteq Nat0!Packets
      /\ \A s \in Nat0!Sessions : Held[s] \subseteq Nat0!Packets
      /\ dropped \subseteq Nat0!Packets
  BY PacketSets, WrittenType DEF NatInv, Chain, Sent, NatType
<1>7. made # 0 => made \in Nat0!Sessions
  BY NatAssumption, SMT DEF NatInv, NatType, Nat0!Sessions
<1> HIDE DEF x
<1>8. x = arrived + 1
  BY DEF x
<1>9. \A p \in Nat0!Packets : p <= arrived => p < x /\ p <= arrived' /\ p # x
  BY <1>1, <1>2, <1>8, SMT
<1>10. x <= arrived'
  BY <1>1, <1>2
<1>11. \A p \in 1 .. arrived' : p = x \/ p \in 1 .. arrived
  BY <1>1, <1>2, <1>8, SMT
<1>12. Apart'
  BY <1>3 DEF NatInv, Apart
<1>13. CASE queue' = Append(queue, x) /\ dropped' = dropped
  <2>1. NatType'
    <3>1. queue' \in Seq(Nat0!Packets)
      BY <1>2, <1>13, AppendProperties
    <3> QED
      BY <1>1, <1>2, <1>13, <3>1 DEF NatInv, NatType
  <2>2. Queued' = Queued \cup {x}
    BY <1>2, <1>13, AppendIn DEF Queued
  <2>3. Lists'
    <3>1. Increasing(queue')
      <4>1. \A p \in Nat0!Packets : In(p, queue) => p < x
        BY <1>2, <1>6, <1>8, SMT DEF Queued
      <4> QED
        BY <1>2, <1>13, <4>1, AppendIncreasing DEF NatInv, Lists
    <3> QED
      BY <1>1, <3>1 DEF NatInv, Lists, Hand
  <2>4. Chain'
    BY <1>3, <1>4, <1>6, <1>9, <1>10, <2>2 DEF NatInv, Chain
  <2>5. Sent'
    BY <1>1, <1>3, <1>4, <1>6, <1>7, <1>9, <2>2 DEF NatInv, Sent, Nat0!SentInOrder
  <2>6. Kept'
    BY <1>3, <1>4, <1>6, <1>13, <1>9, <1>11, <2>2 DEF NatInv, Kept
  <2> QED
    BY <1>3, <1>5, <2>1, <2>3, <2>4, <2>5, <2>6, <1>12 DEF NatInv
<1>14. CASE queue' = queue /\ dropped' = dropped \cup {x}
  <2>1. NatType'
    BY <1>1, <1>2, <1>14 DEF NatInv, NatType
  <2>2. Queued' = Queued
    BY <1>14 DEF Queued
  <2>3. Lists'
    BY <1>1, <1>14 DEF NatInv, Lists, Hand
  <2>4. Chain'
    BY <1>3, <1>4, <1>6, <1>9, <1>10, <2>2 DEF NatInv, Chain
  <2>5. Sent'
    BY <1>1, <1>3, <1>4, <1>6, <1>7, <1>9, <2>2 DEF NatInv, Sent, Nat0!SentInOrder
  <2>6. Kept'
    BY <1>3, <1>4, <1>6, <1>14, <1>9, <1>10, <1>11, <2>2 DEF NatInv, Kept
  <2> QED
    BY <1>3, <1>5, <2>1, <2>3, <2>4, <2>5, <2>6, <1>12 DEF NatInv
<1> QED
  BY <1>1, <1>13, <1>14

LEMMA ProcessUDPInv ==
  ASSUME NatInv, Nat0!ProcessUDP
  PROVE  NatInv' /\ MappingsStay
<1> DEFINE x == Head(queue)
<1>1. /\ UNCHANGED <<arrived, made, nat, sess, written>>
      /\ worker.pc = "wait" /\ queue # <<>> /\ queue' = Tail(queue)
      /\ \/ worker' = [worker EXCEPT !.pc = "lookup", !.packet = x] /\ dropped' = dropped
         \/ worker' = worker /\ dropped' = dropped \cup {x}
  BY DEF Nat0!ProcessUDP, Nat0!Drop, Nat0!Keep
<1>2. /\ queue \in Seq(Nat0!Packets) /\ x \in Nat0!Packets /\ queue' \in Seq(Nat0!Packets)
      /\ Nat0!Packets \subseteq Int /\ arrived \in Nat
  <2>1. queue \in Seq(Nat0!Packets)
    BY DEF NatInv, NatType
  <2>2. arrived \in Nat
    <3>1. Len(Origin) \in Nat
      BY NatAssumption, LenProperties
    <3> QED
      BY <3>1, SMT DEF NatInv, NatType
  <2> QED
    BY <1>1, <2>1, <2>2, HeadTailProperties, PacketSets DEF NatInv
<1>3. Held' = Held /\ Mapped' /\ WroteMapped' /\ MappingsStay
  BY <1>1, SessionsRest
<1>4. /\ \A p \in Nat0!Packets : In(p, queue) <=> In(p, queue') \/ p = x
      /\ Increasing(queue')
      /\ \A p \in Nat0!Packets : In(p, queue') => x < p
  BY <1>1, <1>2, TakeIn, TakeIncreasing DEF NatInv, Lists
<1> HIDE DEF x
<1>5. Queued = Queued' \cup {x} /\ \A p \in Queued' : x < p
  BY <1>2, <1>4 DEF Queued
<1>6. Lists'
  BY <1>1, <1>4 DEF NatInv, Lists, Hand
<1>7. Carried = {}
  BY <1>1 DEF Carried, Busy
<1>8. /\ Queued' \subseteq Nat0!Packets
      /\ \A s \in Nat0!Sessions : Held[s] \subseteq Nat0!Packets
      /\ \A i \in DOMAIN written : written[i].packet \in Nat0!Packets
      /\ made # 0 => made \in Nat0!Sessions
  <2>1. Queued' \subseteq Nat0!Packets
    BY <1>5, PacketSets DEF NatInv
  <2>2. made # 0 => made \in Nat0!Sessions
    BY NatAssumption, SMT DEF NatInv, NatType, Nat0!Sessions
  <2> QED
    BY <2>1, <2>2, PacketSets, WrittenType DEF NatInv
<1>9. CASE worker' = [worker EXCEPT !.pc = "lookup", !.packet = x] /\ dropped' = dropped
  <2>1. Busy' /\ worker'.packet = x /\ worker'.pc = "lookup"
    BY <1>9, SMT DEF NatInv, NatType, Busy
  <2>7. NatType'
    <3>1. worker' \in [pc : {"wait", "lookup", "send", "put"}, packet : Nat0!Packets \cup {0}, s : 0 .. MaxSessions]
      BY <1>2, <1>9, Zenon DEF NatInv, NatType
    <3> QED
      BY <1>1, <1>2, <1>9, <3>1 DEF NatInv, NatType
  <2>2. Life'
    BY <1>1, <1>2, <2>1 DEF NatInv, Life, Over
  <2>3. Carried' = {x}
    BY <1>2, <2>1 DEF Carried
  <2>4. Chain' /\ Apart'
    BY <1>1, <1>2, <1>3, <1>5, <1>8, <2>3, SMT DEF NatInv, Chain, Apart
  <2>5. Sent'
    BY <1>1, <1>3, <1>5, <2>3 DEF NatInv, Sent, Nat0!SentInOrder
  <2>6. Kept'
    BY <1>1, <1>3, <1>5, <1>7, <1>9, <2>3 DEF NatInv, Kept
  <2> QED
    BY <1>3, <1>6, <2>2, <2>4, <2>5, <2>6, <2>7 DEF NatInv
<1>10. CASE worker' = worker /\ dropped' = dropped \cup {x}
  <2>1. NatType'
    BY <1>1, <1>2, <1>10 DEF NatInv, NatType
  <2>2. Life'
    BY <1>1, <1>10 DEF NatInv, Life, Over, Busy
  <2>3. Carried' = {}
    BY <1>1, <1>10 DEF Carried, Busy
  <2>4. Chain' /\ Apart'
    BY <1>1, <1>3, <1>5, <2>3 DEF NatInv, Chain, Apart
  <2>5. Sent'
    BY <1>1, <1>3, <1>5, <2>3 DEF NatInv, Sent, Nat0!SentInOrder
  <2>6. Kept'
    <3>1. x <= arrived /\ x \notin Queued' /\ \A s \in Nat0!Sessions : x \notin Held[s]
      BY <1>2, <1>5, <1>8, SMT DEF NatInv, Chain
    <3> QED
      BY <1>1, <1>3, <1>5, <1>7, <1>10, <2>3, <3>1 DEF NatInv, Kept
  <2> QED
    BY <1>3, <1>6, <2>1, <2>2, <2>4, <2>5, <2>6 DEF NatInv
<1> QED
  BY <1>1, <1>9, <1>10

LEMMA SendInv ==
  ASSUME NatInv, Nat0!Send
  PROVE  NatInv' /\ MappingsStay
<1> DEFINE x == worker.packet
<1>1. /\ UNCHANGED <<arrived, queue, made, nat, sess, written>>
      /\ worker.pc = "send"
      /\ \/ worker' = [worker EXCEPT !.pc = "put"] /\ dropped' = dropped
         \/ worker' = [worker EXCEPT !.pc = "wait"] /\ dropped' = dropped \cup {x}
  BY DEF Nat0!Send, Nat0!Drop, Nat0!Keep
<1>2. Busy /\ x \in Nat0!Packets /\ worker.s = made /\ made # 0
  BY <1>1 DEF NatInv, Life, Busy
<1>3. Held' = Held /\ Mapped' /\ WroteMapped' /\ MappingsStay
  BY <1>1, SessionsRest
<1>4. CASE worker' = [worker EXCEPT !.pc = "put"] /\ dropped' = dropped
  <2>1. NatType' /\ worker'.pc = "put" /\ worker'.packet = x /\ worker'.s = worker.s
    BY <1>1, <1>4, SMT DEF NatInv, NatType
  <2>2. Life'
    BY <1>1, <1>2, <2>1 DEF NatInv, Life, Over
  <2>3. Lists' /\ Chain' /\ Apart' /\ Sent' /\ Kept'
    <3>1. Busy'
      BY <2>1 DEF Busy
    <3> QED
      BY <1>1, <1>2, <1>4, <2>1, <3>1, PacketsRest DEF Hand
  <2> QED
    BY <1>3, <2>1, <2>2, <2>3 DEF NatInv
<1>5. CASE worker' = [worker EXCEPT !.pc = "wait"] /\ dropped' = dropped \cup {x}
  <2>1. NatType' /\ worker'.pc = "wait"
    BY <1>1, <1>2, <1>5, SMT DEF NatInv, NatType
  <2>2. Life'
    BY <1>1, <2>1 DEF NatInv, Life, Over, Busy
  <2>3. Carried = {x} /\ Carried' = {} /\ Queued' = Queued
    BY <1>1, <1>2, <2>1 DEF Carried, Busy, Queued
  <2>4. Lists' /\ Chain' /\ Apart' /\ Sent'
    BY <1>1, <1>3, <2>3 DEF NatInv, Lists, Hand, Chain, Apart, Sent, Nat0!SentInOrder
  <2>5. Kept'
    BY <1>1, <1>2, <1>3, <1>5, <2>3, CarriedOnce DEF NatInv, Kept
  <2> QED
    BY <1>3, <2>1, <2>2, <2>4, <2>5 DEF NatInv
<1> QED
  BY <1>1, <1>4, <1>5

LEMMA GetOrCreateInv ==
  ASSUME NatInv, Nat0!GetOrCreate
  PROVE  NatInv' /\ MappingsStay
<1> DEFINE n == made + 1
<1>1. /\ UNCHANGED <<arrived, queue, dropped, written>>
      /\ worker.pc = "lookup"
  BY DEF Nat0!GetOrCreate
<1>2. worker.packet \in Nat0!Packets /\ Busy
  BY <1>1 DEF NatInv, Life, Busy
<1>3. made \in 0 .. MaxSessions /\ MaxSessions \in Nat
  BY NatAssumption DEF NatInv, NatType
<1>4. CASE nat # 0
  <2>1. UNCHANGED <<made, nat, sess>> /\ worker' = [worker EXCEPT !.pc = "send", !.s = nat]
    BY <1>4 DEF Nat0!GetOrCreate, Nat0!None
  <2>2. nat = made /\ made # 0
    BY <1>4 DEF NatInv, NatType
  <2>3. worker'.pc = "send" /\ worker'.s = made /\ worker'.packet = worker.packet
    BY <2>1, <2>2, SMT DEF NatInv, NatType
  <2>4. NatType'
    <3>1. worker' \in [pc : {"wait", "lookup", "send", "put"}, packet : Nat0!Packets \cup {0}, s : 0 .. MaxSessions]
      BY <1>3, <2>1, <2>2, Zenon DEF NatInv, NatType
    <3> QED
      BY <1>1, <2>1, <3>1 DEF NatInv, NatType
  <2>5. Life'
    BY <1>2, <2>1, <2>2, <2>3 DEF NatInv, Life, Over
  <2>6. Lists' /\ Chain' /\ Apart' /\ Sent' /\ Kept'
    <3>1. Busy'
      BY <2>3 DEF Busy
    <3> QED
      BY <1>1, <1>2, <2>1, <2>3, <2>4, <3>1, PacketsRest DEF Hand
  <2>7. Mapped' /\ WroteMapped' /\ MappingsStay
    BY <1>1, <2>1, SessionsRest
  <2> QED
    BY <2>4, <2>5, <2>6, <2>7 DEF NatInv
<1>5. CASE nat = 0
  <2>1. /\ made < MaxSessions /\ made' = n /\ nat' = n
        /\ worker' = [worker EXCEPT !.pc = "send", !.s = n]
        /\ sess' = [sess EXCEPT ![n].packet = worker.packet]
    BY <1>5 DEF Nat0!GetOrCreate, Nat0!None
  <2>2. n \in Nat0!Sessions /\ n > made /\ n # 0
    BY <1>3, <2>1, SMT DEF Nat0!Sessions
  <2>3. sess[n] = Nat0!NewPacketSender
    BY <2>2 DEF NatInv, Life
  <2>4. /\ Nat0!NewPacketSender.ch = <<>> /\ Nat0!NewPacketSender.proc = "dial"
        /\ Nat0!NewPacketSender.relay = "none" /\ Nat0!NewPacketSender.open = FALSE
    BY DEF Nat0!NewPacketSender
  <2> HIDE DEF n
  <2>5. worker'.pc = "send" /\ worker'.s = n /\ worker'.packet = worker.packet
    BY <2>1, SMT DEF NatInv, NatType
  <2>6. NatType'
    <3>1. worker' \in [pc : {"wait", "lookup", "send", "put"}, packet : Nat0!Packets \cup {0}, s : 0 .. MaxSessions]
      <4>1. n \in 0 .. MaxSessions
        BY <1>3, <2>2, SMT DEF Nat0!Sessions
      <4> QED
        BY <4>1, <2>1, Zenon DEF NatInv, NatType
    <3>2. sess' \in [Nat0!Sessions -> Senders]
      BY <1>2, <2>1, <2>2, FieldTypes DEF NatInv, NatType
    <3>3. made' \in 0 .. MaxSessions /\ nat' \in {0, made'}
      BY <1>3, <2>1, <2>2, SMT DEF Nat0!Sessions
    <3> QED
      BY <1>1, <2>1, <3>1, <3>2, <3>3 DEF NatInv, NatType
  <2>7. \A t \in Nat0!Sessions : t # n => sess'[t] = sess[t]
    BY <2>1, SMT DEF NatInv, NatType
  <2>8. /\ sess'[n].ch = <<>> /\ sess'[n].packet = worker.packet /\ sess'[n].proc = "dial"
        /\ sess'[n].relay = "none" /\ sess'[n].open = FALSE
        /\ sess'[n].originToTarget = sess[n].originToTarget
        /\ sess'[n].targetToOrigin = sess[n].targetToOrigin
    BY <2>1, <2>2, <2>3, <2>4, SMT DEF NatInv, NatType, Senders
  <2>9. Life'
    <3>1. \A t \in Nat0!Sessions : (t > n => t > made) /\ (t <= n /\ t # n => t <= made)
      <4>1. n = made + 1
        BY DEF n
      <4> QED
        BY <1>3, <4>1, SMT DEF Nat0!Sessions
    <3>2. \A t \in Nat0!Sessions : t <= made => Over(t)
      <4>1. \A t \in Nat0!Sessions : 0 # t
        BY <1>3, SMT DEF Nat0!Sessions
      <4> QED
        BY <1>5, <4>1 DEF NatInv, Life
    <3>3. \A t \in Nat0!Sessions : t # n => (Over(t)' <=> Over(t))
      BY <2>7 DEF Over
    <3>4. Busy' /\ n \in Nat /\ ~(n > n)
      BY <1>3, <2>2, <2>5, SMT DEF Busy, Nat0!Sessions
    <3>5. worker'.pc \in {"send", "put"} => worker'.s = made' /\ made' # 0
      BY <2>1, <2>2, <2>5
    <3>6. ASSUME NEW t \in Nat0!Sessions
          PROVE  /\ t > made' => sess'[t] = Nat0!NewPacketSender
                 /\ t <= made' => sess'[t].packet \in Nat0!Packets
                 /\ t <= made' /\ ~Over(t)' => nat' = t
                 /\ sess'[t].proc \in {"dial", "drain", "delete"} => sess'[t].relay = "none"
                 /\ sess'[t].proc \in {"select", "packet", "write"} => sess'[t].relay # "none"
                 /\ sess'[t].open => sess'[t].relay \in {"read", "drain"}
      <4>1. CASE t = n
        BY <1>2, <2>1, <2>8, <3>4, <4>1
      <4>2. CASE t # n
        BY <2>1, <2>7, <3>1, <3>2, <3>3, <4>2 DEF NatInv, Life
      <4> QED
        BY <4>1, <4>2
    <3> QED
      BY <1>2, <2>5, <3>4, <3>5, <3>6 DEF Life
  <2>10. Lists' /\ Chain' /\ Apart' /\ Sent' /\ Kept'
    <3>1. Busy' = Busy
      BY <1>2, <2>5 DEF Busy
    <3>2. \A t \in Nat0!Sessions :
           /\ sess'[t].ch = sess[t].ch
           /\ Hand(t)' <=> Hand(t)
           /\ Hand(t) => sess'[t].packet = sess[t].packet
      BY <2>3, <2>4, <2>7, <2>8 DEF Hand
    <3>3. Held[made'] = {}
      <4>1. \A p : ~In(p, <<>>)
        BY DEF In
      <4>2. ~Hand(n) /\ sess[n].ch = <<>>
        BY <2>3, <2>4 DEF Hand
      <4> QED
        BY <2>1, <2>2, <4>1, <4>2 DEF Held
    <3> QED
      BY <1>1, <2>1, <2>2, <2>5, <2>6, <3>1, <3>2, <3>3, PacketsRest
  <2>11. Mapped' /\ WroteMapped' /\ MappingsStay
    <3>1. ASSUME NEW t \in Nat0!Sessions
          PROVE  /\ sess'[t].originToTarget = sess[t].originToTarget
                 /\ sess'[t].targetToOrigin = sess[t].targetToOrigin
                 /\ sess'[t].proc = "dial" => sess[t].proc = "dial"
                 /\ sess'[t].proc = "write" =>
                      sess'[t].target # 0 /\ sess[t].originToTarget[Origin[sess'[t].packet]] = sess'[t].target
      BY <2>3, <2>4, <2>7, <2>8 DEF NatInv, Mapped
    <3> QED
      BY <1>1, <2>6, <3>1, MapsRest
  <2> QED
    BY <2>6, <2>9, <2>10, <2>11 DEF NatInv
<1> QED
  BY <1>4, <1>5

LEMMA PutInv ==
  ASSUME NatInv, Nat0!Put
  PROVE  NatInv' /\ MappingsStay
<1> DEFINE s == worker.s
           x == worker.packet
           ch == sess[s].ch
<1>1. /\ UNCHANGED <<arrived, queue, made, nat, written>>
      /\ worker.pc = "put" /\ worker' = [worker EXCEPT !.pc = "wait"]
      /\ \/ sess' = [sess EXCEPT ![s].ch = Append(@, x)] /\ dropped' = dropped
         \/ sess' = sess /\ dropped' = dropped \cup {x}
  BY DEF Nat0!Put, Nat0!Drop, Nat0!Keep
<1>2. /\ x \in Nat0!Packets /\ s = made /\ s \in Nat0!Sessions
      /\ Carried = {x}
  <2>1. x \in Nat0!Packets /\ s = made /\ made # 0 /\ Busy
    BY <1>1 DEF NatInv, Life, Busy
  <2>2. made \in Nat0!Sessions
    BY <2>1, NatAssumption, SMT DEF NatInv, NatType, Nat0!Sessions
  <2> QED
    BY <2>1, <2>2 DEF Carried
<1>3. worker'.pc = "wait" /\ ~Busy' /\ Carried' = {} /\ Queued' = Queued
  <2>1. worker'.pc = "wait"
    BY <1>1, SMT DEF NatInv, NatType
  <2> QED
    BY <1>1, <2>1 DEF Busy, Carried, Queued
<1>4. worker' \in [pc : {"wait", "lookup", "send", "put"}, packet : Nat0!Packets \cup {0}, s : 0 .. MaxSessions]
  BY <1>1, Zenon DEF NatInv, NatType
<1> HIDE DEF s, x
<1>5. x <= arrived /\ x \notin Queued /\ \A t \in Nat0!Sessions : x \notin Held[t]
  BY <1>2, CarriedOnce
<1>6. CASE sess' = sess /\ dropped' = dropped \cup {x}
  <2>1. Held' = Held /\ Mapped' /\ WroteMapped' /\ MappingsStay
    BY <1>1, <1>6, SessionsRest
  <2>2. NatType'
    BY <1>1, <1>2, <1>4, <1>6 DEF NatInv, NatType
  <2>3. Life'
    BY <1>1, <1>3, <1>6 DEF NatInv, Life, Over
  <2>4. Lists' /\ Chain' /\ Apart' /\ Sent'
    BY <1>1, <1>3, <1>6, <2>1 DEF NatInv, Lists, Hand, Chain, Apart, Sent, Nat0!SentInOrder
  <2>5. Kept'
    BY <1>1, <1>2, <1>3, <1>5, <1>6, <2>1 DEF NatInv, Kept
  <2> QED
    BY <2>1, <2>2, <2>3, <2>4, <2>5 DEF NatInv
<1>7. CASE sess' = [sess EXCEPT ![s].ch = Append(@, x)] /\ dropped' = dropped
  <2>1. ch \in Seq(Nat0!Packets)
    BY <1>2, SMT DEF NatInv, NatType, Senders
  <2>2. sess' = [sess EXCEPT ![s].ch = Append(ch, x)]
    BY <1>7
  <2>3. Append(ch, x) \in Seq(Nat0!Packets)
    BY <1>2, <2>1, AppendProperties
  <2>4. NatType'
    <3>1. sess' \in [Nat0!Sessions -> Senders]
      BY <1>2, <2>2, <2>3, FieldTypes DEF NatInv, NatType
    <3> QED
      BY <1>1, <1>4, <1>7, <3>1 DEF NatInv, NatType
  <2>5. \A t \in Nat0!Sessions : t # s => sess'[t] = sess[t]
    BY <2>2, SMT DEF NatInv, NatType
  <2>6. /\ sess'[s].ch = Append(ch, x) /\ sess'[s].packet = sess[s].packet
        /\ sess'[s].proc = sess[s].proc /\ sess'[s].relay = sess[s].relay /\ sess'[s].open = sess[s].open
        /\ sess'[s].originToTarget = sess[s].originToTarget
        /\ sess'[s].targetToOrigin = sess[s].targetToOrigin
        /\ sess'[s].target = sess[s].target
    BY <1>2, <2>2, SMT DEF NatInv, NatType, Senders
  <2>7. \A q \in Nat0!Packets : In(q, Append(ch, x)) <=> In(q, ch) \/ q = x
    BY <1>2, <2>1, AppendIn
  <2>8. \A q \in Held[s] : q < x
    BY <1>2 DEF NatInv, Chain
  <2>9. Nat0!Packets \subseteq Int
    BY PacketSets DEF NatInv
  <2>10. Increasing(Append(ch, x))
    <3>1. \A q \in Nat0!Packets : In(q, ch) => q < x
      BY <1>2, <2>8 DEF Held
    <3> QED
      BY <1>2, <2>1, <2>9, <3>1, AppendIncreasing DEF NatInv, Lists
  <2> HIDE DEF ch
  <2>11. \A t \in Nat0!Sessions : Hand(t)' <=> Hand(t)
    BY <2>5, <2>6 DEF Hand
  <2>12. /\ Held'[s] = Held[s] \cup {x}
         /\ \A t \in Nat0!Sessions : t # s => Held'[t] = Held[t]
    <3>1. Held'[s] = {q \in Nat0!Packets : In(q, Append(ch, x)) \/ (Hand(s) /\ sess[s].packet = q)}
      BY <1>2, <2>6, <2>11 DEF Held
    <3>2. Held[s] = {q \in Nat0!Packets : In(q, ch) \/ (Hand(s) /\ sess[s].packet = q)}
      BY <1>2 DEF Held, ch
    <3>3. \A t \in Nat0!Sessions : t # s => Held'[t] = Held[t]
      BY <2>5, <2>11 DEF Held
    <3> QED
      BY <1>2, <2>7, <3>1, <3>2, <3>3
  <2>13. Life'
    <3>1. s <= made /\ ~(s > made)
      BY <1>2, NatAssumption, SMT DEF Nat0!Sessions
    <3>2. \A t \in Nat0!Sessions : Over(t)' <=> Over(t)
      BY <2>5, <2>6 DEF Over
    <3> QED
      BY <1>1, <1>3, <2>5, <2>6, <3>1, <3>2 DEF NatInv, Life
  <2>14. Lists'
    <3>1. Increasing(queue')
      BY <1>1 DEF NatInv, Lists
    <3>2. ASSUME NEW t \in Nat0!Sessions
          PROVE  /\ Increasing(sess'[t].ch)
                 /\ Hand(t)' => \A p \in Nat0!Packets : In(p, sess'[t].ch) => sess'[t].packet < p
      <4>1. CASE t = s
        <5>1. Hand(s) => sess[s].packet < x
          <6>1. s <= made
            BY <1>2, NatAssumption, SMT DEF Nat0!Sessions
          <6>2. sess[s].packet \in Nat0!Packets
            BY <1>2, <6>1 DEF NatInv, Life
          <6> QED
            BY <1>2, <2>8, <6>2 DEF Held
        <5> QED
          BY <2>6, <2>7, <2>10, <2>11, <4>1, <5>1 DEF NatInv, Lists, ch
      <4>2. CASE t # s
        BY <2>5, <2>11, <4>2 DEF NatInv, Lists
      <4> QED
        BY <4>1, <4>2
    <3> QED
      BY <3>1, <3>2 DEF Lists
  <2>15. Chain' /\ Apart'
    <3>1. \A q \in Queued : x < q
      BY <1>2 DEF NatInv, Chain
    <3>2. Chain'
      BY <1>1, <1>3, <1>5, <2>12, <3>1 DEF NatInv, Chain
    <3> QED
      BY <1>5, <2>12, <3>2 DEF NatInv, Apart
  <2>16. Sent'
    BY <1>1, <1>2, <1>3, <2>12 DEF NatInv, Sent, Nat0!SentInOrder
  <2>17. Kept'
    BY <1>1, <1>2, <1>3, <1>5, <1>7, <2>12 DEF NatInv, Kept
  <2>18. Mapped' /\ WroteMapped' /\ MappingsStay
    <3>1. ASSUME NEW t \in Nat0!Sessions
          PROVE  /\ sess'[t].originToTarget = sess[t].originToTarget
                 /\ sess'[t].targetToOrigin = sess[t].targetToOrigin
                 /\ sess'[t].proc = "dial" => sess[t].proc = "dial"
                 /\ sess'[t].proc = "write" =>
                      sess'[t].target # 0 /\ sess[t].originToTarget[Origin[sess'[t].packet]] = sess'[t].target
      BY <2>5, <2>6 DEF NatInv, Mapped
    <3> QED
      BY <1>1, <2>4, <3>1, MapsRest
  <2> QED
    BY <2>4, <2>13, <2>14, <2>15, <2>16, <2>17, <2>18 DEF NatInv
<1> QED
  BY <1>1, <1>6, <1>7 DEF s, x

(* A sender that is done with the packet in its hand.                       *)
LEMMA HandFreed ==
  ASSUME NatInv, NEW s \in Nat0!Sessions, Hand(s), ~Hand(s)',
         \A t \in Nat0!Sessions : t # s => sess'[t] = sess[t],
         sess'[s].ch = sess[s].ch
  PROVE  /\ sess[s].packet \in Held[s]
         /\ Held' = [Held EXCEPT ![s] = @ \ {sess[s].packet}]
<1> DEFINE x == sess[s].packet
<1>1. s <= made
  BY Fresh DEF Hand
<1>2. x \in Nat0!Packets
  BY <1>1 DEF NatInv, Life
<1>3. \A p \in Nat0!Packets : In(p, sess[s].ch) => x < p
  BY DEF NatInv, Lists
<1>4. Nat0!Packets \subseteq Int
  BY PacketSets DEF NatInv
<1> HIDE DEF x
<1>5. ~In(x, sess[s].ch)
  <2>1. ~(x < x)
    BY <1>2, <1>4, SMT
  <2> QED
    BY <1>2, <1>3, <2>1
<1>6. Held[s] = {q \in Nat0!Packets : In(q, sess[s].ch) \/ x = q}
  BY DEF Held, x
<1>7. Held'[s] = {q \in Nat0!Packets : In(q, sess[s].ch)}
  BY DEF Held
<1>8. \A t \in Nat0!Sessions : t # s => Held'[t] = Held[t]
  BY DEF Held, Hand
<1>9. Held' = [t \in Nat0!Sessions |-> Held'[t]] /\ Held \in [Nat0!Sessions -> SUBSET Nat0!Packets]
  BY PacketSets DEF Held, NatInv
<1> QED
  BY <1>2, <1>5, <1>6, <1>7, <1>8, <1>9 DEF x

(* processPacket gives its packet back and the select begins again.         *)
LEMMA SelectRests ==
  ASSUME NatInv, NatType', NEW s \in Nat0!Sessions,
         UNCHANGED <<arrived, queue, worker, made, nat>>,
         \A t \in Nat0!Sessions : t # s => sess'[t] = sess[t],
         s <= made, Hand(s), sess'[s].proc = "select",
         sess'[s].ch = sess[s].ch, sess'[s].packet = sess[s].packet,
         sess'[s].relay = sess[s].relay, sess'[s].open = sess[s].open
  PROVE  Life' /\ Lists' /\ ~Hand(s)'
<1>1. Life'
  <2>1. sess[s].relay # "none"
    BY DEF NatInv, Life, Hand
  <2> QED
    BY <2>1, SMT DEF NatInv, Life, Over, Busy, NatType, Nat0!Sessions, Hand
<1>2. ~Hand(s)'
  BY DEF Hand
<1> QED
  BY <1>1, <1>2 DEF NatInv, Lists, Hand

LEMMA SelectInv ==
  ASSUME NatInv, NatType', NEW s \in Nat0!Sessions,
         UNCHANGED <<arrived, queue, worker, made, nat, written>>,
         \A t \in Nat0!Sessions : t # s => sess'[t] = sess[t],
         s <= made, Hand(s), sess'[s].proc = "select",
         sess'[s].ch = sess[s].ch, sess'[s].packet = sess[s].packet,
         sess'[s].relay = sess[s].relay, sess'[s].open = sess[s].open,
         sess'[s].originToTarget = sess[s].originToTarget,
         sess'[s].targetToOrigin = sess[s].targetToOrigin,
         dropped' = dropped \cup {sess[s].packet}
  PROVE  NatInv' /\ MappingsStay
<1>1. Life' /\ Lists' /\ ~Hand(s)'
  BY SelectRests
<1>2. /\ sess[s].packet \in Held[s]
      /\ Held' = [Held EXCEPT ![s] = @ \ {sess[s].packet}]
  BY <1>1, HandFreed
<1>3. Chain' /\ Apart' /\ Sent' /\ Kept'
  BY <1>2, SenderDrops
<1>4. Mapped' /\ WroteMapped' /\ MappingsStay
  <2>1. ASSUME NEW t \in Nat0!Sessions
        PROVE  /\ sess'[t].originToTarget = sess[t].originToTarget
               /\ sess'[t].targetToOrigin = sess[t].targetToOrigin
               /\ sess'[t].proc = "dial" => sess[t].proc = "dial"
               /\ sess'[t].proc = "write" =>
                    sess'[t].target # 0 /\ sess[t].originToTarget[Origin[sess'[t].packet]] = sess'[t].target
    BY DEF NatInv, Mapped
  <2> QED
    BY <2>1, MapsRest
<1> QED
  BY <1>1, <1>3, <1>4 DEF NatInv

LEMMA ResolveInv ==
  ASSUME NatInv, NEW s \in Nat0!Sessions, Nat0!Resolve(s)
  PROVE  NatInv' /\ MappingsStay
<1> DEFINE x == sess[s].packet
           o == Origin[x]
           known == sess[s].originToTarget[o]
<1>1. /\ UNCHANGED <<arrived, queue, worker, made, nat, written>>
      /\ sess[s].proc = "packet"
  BY DEF Nat0!Resolve
<1>2. s <= made /\ Hand(s)
  BY <1>1, Fresh DEF Hand
<1>3. x \in Nat0!Packets /\ o \in Nat0!Origins
  BY <1>2, OriginsType DEF NatInv, Life
<1>4. sess[s] \in Senders
  BY DEF NatInv, NatType
<1>5. CASE known # 0
  <2>1. dropped' = dropped /\ sess' = [sess EXCEPT ![s].proc = "write", ![s].target = known]
    BY <1>5 DEF Nat0!Resolve, Nat0!None, Nat0!Keep
  <2>2. known \in Targets
    BY <1>3, <1>4, <1>5 DEF Senders
  <2>3. NatType'
    <3>1. sess' \in [Nat0!Sessions -> Senders]
      BY <2>1, <2>2, FieldTypes DEF NatInv, NatType, Procs
    <3> QED
      BY <1>1, <2>1, <3>1 DEF NatInv, NatType
  <2>4. \A t \in Nat0!Sessions : t # s => sess'[t] = sess[t]
    BY <2>1, SMT DEF NatInv, NatType
  <2>5. /\ sess'[s].ch = sess[s].ch /\ sess'[s].packet = x
        /\ sess'[s].proc = "write" /\ sess'[s].target = known
        /\ sess'[s].relay = sess[s].relay /\ sess'[s].open = sess[s].open
        /\ sess'[s].originToTarget = sess[s].originToTarget
        /\ sess'[s].targetToOrigin = sess[s].targetToOrigin
    BY <2>1, SMT DEF NatInv, NatType, Senders
  <2>6. Life'
    BY <1>1, <1>2, <2>4, <2>5, SMT DEF NatInv, Life, Over, Busy, NatType, Nat0!Sessions
  <2>7. /\ Hand(s)' <=> Hand(s)
        /\ Hand(s) => sess'[s].packet = sess[s].packet
    BY <1>2, <2>5 DEF Hand
  <2>8. sess'[s].proc # "dial"
    BY <2>5
  <2>9. sess'[s].proc = "write" =>
          sess'[s].target # 0 /\ sess[s].originToTarget[Origin[sess'[s].packet]] = sess'[s].target
    BY <1>5, <2>5
  <2> QED
    BY <1>1, <2>1, <2>3, <2>4, <2>5, <2>6, <2>7, <2>8, <2>9, SenderRests
<1>6. CASE known = 0 /\ dropped' = dropped
  <2>1. PICK t \in Targets :
          sess' = [sess EXCEPT ![s] = [Nat0!AddMapping(@, o, t) EXCEPT !.proc = "write", !.target = t]]
    <3>1. s \in DOMAIN sess
      BY DEF NatInv, NatType
    <3>2. x \notin dropped
      <4>1. x \in Held[s]
        BY <1>2, <1>3 DEF Held
      <4>2. x \in 1 .. arrived
        BY <1>3, <4>1, PacketSets, SMT DEF NatInv, Chain, Nat0!Packets
      <4> QED
        BY <4>1, <4>2 DEF NatInv, Kept
    <3> QED
      BY <1>6, <3>2 DEF Nat0!Resolve, Nat0!None, Nat0!Drop
  <2> DEFINE e == Nat0!AddMapping(sess[s], o, t)
             a == [[e EXCEPT !.proc = "write"] EXCEPT !.target = t]
  <2>2. sess' = [sess EXCEPT ![s] = a]
    BY <2>1
  <2>3. /\ e \in Senders
        /\ e.ch = sess[s].ch /\ e.packet = x /\ e.relay = sess[s].relay /\ e.open = sess[s].open
        /\ e.originToTarget[o] = t
        /\ \A p \in Nat0!Origins : sess[s].originToTarget[p] # 0 => e.originToTarget[p] = sess[s].originToTarget[p]
        /\ \A u \in Targets : sess[s].targetToOrigin[u] # 0 => e.targetToOrigin[u] = sess[s].targetToOrigin[u]
        /\ Agree(e)
    <3>1. Agree(sess[s])
      BY DEF NatInv, Mapped
    <3>2. sess[s].originToTarget[o] = 0
      BY <1>6
    <3> HIDE DEF o
    <3> QED
      BY <1>3, <1>4, <3>1, <3>2, AddMappingKeeps
  <2> HIDE DEF e
  <2>4. /\ a \in Senders
        /\ a.ch = e.ch /\ a.packet = e.packet /\ a.relay = e.relay /\ a.open = e.open
        /\ a.proc = "write" /\ a.target = t
        /\ a.originToTarget = e.originToTarget /\ a.targetToOrigin = e.targetToOrigin
        /\ Agree(a)
    <3>1. a \in Senders
      <4>1. \A r \in Senders : [r EXCEPT !.proc = "write"] \in Senders
        BY Zenon DEF Senders, Procs
      <4>2. \A r \in Senders : [r EXCEPT !.target = t] \in Senders
        BY Zenon DEF Senders
      <4> QED
        BY <2>3, <4>1, <4>2
    <3>2. a.originToTarget = e.originToTarget /\ a.targetToOrigin = e.targetToOrigin
      BY <2>3, <3>1, SMT DEF Senders
    <3>3. Agree(a)
      BY <2>3, <3>2 DEF Agree
    <3> QED
      BY <2>3, <3>1, <3>2, <3>3, SMT DEF Senders
  <2> HIDE DEF a
  <2>5. /\ sess' \in [Nat0!Sessions -> Senders] /\ sess'[s] = a
        /\ \A u \in Nat0!Sessions : u # s => sess'[u] = sess[u]
    BY <2>2, <2>4 DEF NatInv, NatType
  <2>6. NatType'
    BY <1>1, <1>6, <2>5 DEF NatInv, NatType
  <2>7. Life'
    BY <1>1, <1>2, <2>3, <2>4, <2>5, SMT DEF NatInv, Life, Over, Busy, NatType, Nat0!Sessions
  <2>8. Lists' /\ Chain' /\ Apart' /\ Sent' /\ Kept'
    <3>1. Hand(s)' /\ sess'[s].packet = sess[s].packet
      BY <2>3, <2>4, <2>5 DEF Hand
    <3> QED
      BY <1>1, <1>2, <1>6, <2>3, <2>4, <2>5, <2>6, <3>1, SenderKeeps
  <2>9. Mapped' /\ WroteMapped' /\ MappingsStay
    <3>1. /\ sess'[s].proc # "dial"
          /\ sess'[s].target # 0 /\ sess'[s].originToTarget[Origin[sess'[s].packet]] = sess'[s].target
      BY <2>3, <2>4, <2>5, NatAssumption
    <3> QED
      BY <1>1, <2>3, <2>4, <2>5, <2>6, <3>1, MapsGrow
  <2> QED
    BY <2>6, <2>7, <2>8, <2>9 DEF NatInv
<1>7. CASE sess' = [sess EXCEPT ![s].proc = "select"] /\ dropped' = dropped \cup {x}
  <2>1. NatType'
    <3>1. sess' \in [Nat0!Sessions -> Senders]
      BY <1>7, FieldTypes DEF NatInv, NatType, Procs
    <3> QED
      BY <1>1, <1>3, <1>7, <3>1 DEF NatInv, NatType
  <2>2. \A t \in Nat0!Sessions : t # s => sess'[t] = sess[t]
    BY <1>7, SMT DEF NatInv, NatType
  <2>3. /\ sess'[s].ch = sess[s].ch /\ sess'[s].packet = x /\ sess'[s].proc = "select"
        /\ sess'[s].relay = sess[s].relay /\ sess'[s].open = sess[s].open
        /\ sess'[s].originToTarget = sess[s].originToTarget
        /\ sess'[s].targetToOrigin = sess[s].targetToOrigin
    BY <1>7, SMT DEF NatInv, NatType, Senders
  <2> QED
    BY <1>1, <1>2, <1>7, <2>1, <2>2, <2>3, SelectInv
<1> QED
  BY <1>5, <1>6, <1>7 DEF Nat0!Resolve, Nat0!None, Nat0!Keep, Nat0!Drop

LEMMA WriteInv ==
  ASSUME NatInv, NEW s \in Nat0!Sessions, Nat0!Write(s)
  PROVE  NatInv' /\ MappingsStay
<1> DEFINE x == sess[s].packet
           w == [packet |-> x, s |-> s, target |-> sess[s].target]
<1>1. /\ UNCHANGED <<arrived, queue, worker, made, nat>>
      /\ sess[s].proc = "write" /\ dropped' = dropped \cup {x}
      /\ sess' = [sess EXCEPT ![s].proc = "select"]
      /\ \/ written' = written
         \/ sess[s].open /\ written' = Append(written, w)
  BY DEF Nat0!Write, Nat0!Drop
<1>2. s <= made /\ Hand(s)
  BY <1>1, Fresh DEF Hand
<1>3. x \in Nat0!Packets
  BY <1>2 DEF NatInv, Life
<1>4. sess' \in [Nat0!Sessions -> Senders]
  BY <1>1, FieldTypes DEF NatInv, NatType, Procs
<1>5. \A t \in Nat0!Sessions : t # s => sess'[t] = sess[t]
  BY <1>1, SMT DEF NatInv, NatType
<1>6. /\ sess'[s].ch = sess[s].ch /\ sess'[s].packet = x /\ sess'[s].proc = "select"
      /\ sess'[s].relay = sess[s].relay /\ sess'[s].open = sess[s].open
      /\ sess'[s].originToTarget = sess[s].originToTarget
      /\ sess'[s].targetToOrigin = sess[s].targetToOrigin
  BY <1>1, SMT DEF NatInv, NatType, Senders
<1>7. CASE written' = written
  <2>1. NatType'
    BY <1>1, <1>3, <1>4, <1>7 DEF NatInv, NatType
  <2> QED
    BY <1>1, <1>2, <1>5, <1>6, <1>7, <2>1, SelectInv
<1>8. CASE sess[s].open /\ written' = Append(written, w)
  <2>1. sess[s].target \in Targets /\ sess[s].originToTarget[Origin[x]] = sess[s].target
    <3>1. sess[s].target # 0 /\ sess[s].originToTarget[Origin[x]] = sess[s].target
      BY <1>1 DEF NatInv, Mapped
    <3>2. sess[s].target \in Targets \cup {0}
      BY SMT DEF NatInv, NatType, Senders
    <3> QED
      BY <3>1, <3>2
(* The socket is open: no later session has been made.                      *)
  <2>2. made = s
    <3>1. ~Over(s)
      BY <1>8 DEF NatInv, Life, Over
    <3>2. nat = s /\ s # 0
      BY <1>2, <3>1, NatAssumption, SMT DEF NatInv, Life, Nat0!Sessions
    <3> QED
      BY <3>2 DEF NatInv, NatType
  <2>3. w \in Writings /\ w.packet = x /\ w.s = s /\ w.target = sess[s].target
    BY <1>3, <2>1 DEF Writings
  <2> HIDE DEF x, w
  <2>4. written \in Seq(Writings)
    BY DEF NatInv, NatType
  <2>5. NatType'
    <3>1. written' \in Seq(Writings)
      BY <1>8, <2>3, <2>4, AppendProperties
    <3> QED
      BY <1>1, <1>3, <1>4, <3>1 DEF NatInv, NatType
  <2>6. Life' /\ Lists' /\ ~Hand(s)'
    <3>1. sess'[s].packet = sess[s].packet
      BY <1>6 DEF x
    <3> QED
      BY <1>1, <1>2, <1>5, <1>6, <2>5, <3>1, SelectRests
  <2>7. x \in Held[s] /\ Held' = [Held EXCEPT ![s] = @ \ {x}]
    BY <1>2, <1>5, <1>6, <2>6, HandFreed DEF x
  <2>8. Chain' /\ Apart' /\ Kept'
    BY <1>1, <2>5, <2>7, SenderDrops
  <2>9. /\ DOMAIN written = 1 .. Len(written) /\ DOMAIN written' = 1 .. Len(written) + 1
        /\ Len(written) \in Nat
        /\ \A i \in 1 .. Len(written) : written'[i] = written[i]
        /\ written'[Len(written) + 1] = w
    BY <1>8, <2>3, <2>4, AppendProperties, LenProperties
  <2>10. Sent'
    <3>1. Queued' = Queued /\ Carried' = Carried /\ made' = made /\ arrived' = arrived
      BY <1>1 DEF Queued, Carried, Busy
    <3>2. Held'[s] = Held[s] \ {x} /\ Held[s] \subseteq Nat0!Packets
      BY <2>7, PacketSets DEF NatInv
    <3>3. \A q \in Held'[s] : x < q
      <4>1. \A q \in Held'[s] : In(q, sess[s].ch)
        BY <1>2, <3>2 DEF Held, x
      <4> QED
        BY <1>2, <3>2, <4>1 DEF NatInv, Lists, x
    <3>4. /\ x <= arrived
          /\ \A q \in Queued : x < q
          /\ \A q \in Carried : x < q
      BY <2>7 DEF NatInv, Chain
    <3>5. \A i \in DOMAIN written : written[i].packet < x
      BY <1>2, <2>2, <2>7, SMT DEF NatInv, Sent, Nat0!Sessions
    <3>6. Nat0!SentInOrder'
      <4>1. \A i, j \in 1 .. Len(written) : i < j => written[i].packet < written[j].packet
        BY <2>9 DEF NatInv, Sent, Nat0!SentInOrder
      <4>2. \A i \in 1 .. Len(written) : written[i].packet < x
        BY <2>9, <3>5
      <4>3. \A i, j \in 1 .. Len(written) + 1 : i < j => written'[i].packet < written'[j].packet
        BY <2>3, <2>9, <4>1, <4>2, SMT
      <4> QED
        BY <2>9, <4>3 DEF Nat0!SentInOrder
    <3>7. ASSUME NEW i \in DOMAIN written'
          PROVE  /\ written'[i].packet <= arrived'
                 /\ \A q \in Queued' : written'[i].packet < q
                 /\ \A q \in Carried' : written'[i].packet < q
                 /\ made' # 0 => \A q \in Held'[made'] : written'[i].packet < q
      <4>1. CASE i = Len(written) + 1
        BY <2>2, <2>3, <2>9, <3>1, <3>3, <3>4, <4>1
      <4>2. CASE i \in DOMAIN written
        BY <2>2, <2>9, <3>1, <3>2, <4>2 DEF NatInv, Sent
      <4> QED
        BY <2>9, <4>1, <4>2, SMT
    <3> QED
      BY <3>6, <3>7 DEF Sent
  <2>11. Mapped' /\ WroteMapped' /\ MappingsStay
    <3>1. \A t \in Nat0!Sessions : sess'[t].originToTarget = sess[t].originToTarget
      BY <1>5, <1>6
    <3>2. \A t \in Nat0!Sessions : sess'[t].targetToOrigin = sess[t].targetToOrigin
      BY <1>5, <1>6
    <3>3. Mapped'
      <4> SUFFICES ASSUME NEW t \in Nat0!Sessions
                   PROVE  /\ Agree(sess'[t])
                          /\ sess'[t].proc = "dial" =>
                               /\ \A p \in Nat0!Origins : sess'[t].originToTarget[p] = 0
                               /\ \A u \in Targets : sess'[t].targetToOrigin[u] = 0
                          /\ sess'[t].proc = "write" =>
                               sess'[t].target # 0 /\ sess'[t].originToTarget[Origin[sess'[t].packet]] = sess'[t].target
        BY DEF Mapped
      <4>1. CASE t = s
        BY <1>6, <4>1 DEF NatInv, Mapped, Agree
      <4>2. CASE t # s
        BY <1>5, <4>2 DEF NatInv, Mapped, Agree
      <4> QED
        BY <4>1, <4>2
    <3>4. ASSUME NEW i \in DOMAIN written'
          PROVE  sess'[written'[i].s].originToTarget[Origin[written'[i].packet]] = written'[i].target
      <4>1. CASE i = Len(written) + 1
        BY <1>6, <2>1, <2>3, <2>9, <4>1
      <4>2. CASE i \in DOMAIN written
        <5>1. written[i].s \in Nat0!Sessions
          BY <4>2, WrittenType DEF NatInv
        <5> QED
          BY <2>9, <3>1, <4>2, <5>1 DEF NatInv, WroteMapped
      <4> QED
        BY <2>9, <4>1, <4>2, SMT
    <3> QED
      BY <3>2, <3>3, <3>4 DEF WroteMapped, MappingsStay
  <2> QED
    BY <2>5, <2>6, <2>8, <2>10, <2>11 DEF NatInv
<1> QED
  BY <1>1, <1>7, <1>8

LEMMA NatStep ==
  ASSUME NatInv, Nat0!Next \/ UNCHANGED natVars
  PROVE  NatInv' /\ MappingsStay
<1>1. CASE UNCHANGED natVars
  <2>1. UNCHANGED <<arrived, queue, worker, made, nat, sess, dropped, written>>
    BY <1>1 DEF natVars
  <2>2. NatType' /\ Busy' = Busy /\ \A s : (Over(s)' <=> Over(s)) /\ (Hand(s)' <=> Hand(s))
    BY <2>1 DEF NatInv, NatType, Busy, Over, Hand
  <2>3. Life' /\ Lists'
    BY <2>1, <2>2 DEF NatInv, Life, Lists
  <2>4. Chain' /\ Apart' /\ Sent' /\ Kept' /\ Mapped' /\ WroteMapped' /\ MappingsStay
    BY <2>1, <2>2, PacketsRest, SessionsRest
  <2> QED
    BY <2>2, <2>3, <2>4 DEF NatInv
<1>2. CASE Nat0!HandleUDPPacket
  BY <1>2, HandleUDPPacketInv
<1>3. CASE Nat0!Worker
  BY <1>3, ProcessUDPInv, GetOrCreateInv, SendInv, PutInv DEF Nat0!Worker
<1>4. ASSUME NEW s \in Nat0!Sessions, Nat0!Sender(s) \/ Nat0!RelayEnds(s)
      PROVE  NatInv' /\ MappingsStay
  BY <1>4, DialInv, DialFailsInv, DropAllInv, DeleteInv, ProcessDoneInv, ProcessTakesInv,
     ResolveInv, WriteInv, RelayEndsInv DEF Nat0!Sender
<1> QED
  BY <1>1, <1>2, <1>3, <1>4 DEF Nat0!Next

LEMMA NatSteps ==
  ASSUME [TrafficNext]_allVars
  PROVE  Nat0!Next \/ UNCHANGED natVars
BY DEF TrafficNext, allVars, natVars, T, U, M, Q, R, Nat0!Next, Nat0!Sessions

LEMMA NatInvImplies ==
  ASSUME NatInv
  PROVE  /\ Nat0!OneSocketPerSource /\ Nat0!BufferAccounted /\ Nat0!SentInOrder
         /\ Nat0!FlowKeepsTarget
<1>1. Nat0!OneSocketPerSource
  BY DEF NatInv, Life, Over, Nat0!OneSocketPerSource
<1>2. Nat0!BufferAccounted
  <2> SUFFICES ASSUME NEW p \in 1 .. arrived
               PROVE  p \in dropped <=>
                        ~ \/ \E i \in DOMAIN queue : queue[i] = p
                          \/ worker.pc # "wait" /\ worker.packet = p
                          \/ \E s \in Nat0!Sessions :
                               \/ \E i \in DOMAIN sess[s].ch : sess[s].ch[i] = p
                               \/ sess[s].proc \in {"packet", "write"} /\ sess[s].packet = p
    BY DEF Nat0!BufferAccounted
  <2>1. p \in Nat0!Packets
    <3>1. Len(Origin) \in Nat
      BY NatAssumption, LenProperties
    <3> QED
      BY <3>1, SMT DEF NatInv, NatType, Nat0!Packets
  <2>2. /\ p \in Queued <=> \E i \in DOMAIN queue : queue[i] = p
        /\ p \in Carried <=> worker.pc # "wait" /\ worker.packet = p
        /\ \A s \in Nat0!Sessions :
             p \in Held[s] <=> \/ \E i \in DOMAIN sess[s].ch : sess[s].ch[i] = p
                               \/ sess[s].proc \in {"packet", "write"} /\ sess[s].packet = p
    BY <2>1 DEF Queued, Carried, Busy, Held, Hand, In
  <2> QED
    BY <2>2 DEF NatInv, Kept
<1>3. Nat0!SentInOrder
  BY DEF NatInv, Sent
<1>4. Nat0!FlowKeepsTarget
  <2>1. ASSUME NEW i \in DOMAIN written
        PROVE  LET s == written[i].s
                   t == written[i].target IN
               \/ \E o \in Nat0!Origins :
                    /\ sess[s].originToTarget[o] = t
                    /\ Address[o] # 0 /\ Nat0!RestoreReadFrom(s, t) = Address[o]
               \/ Nat0!OnlyDomains(s, t) /\ Nat0!RestoreReadFrom(s, t) = t
    <3> DEFINE s == written[i].s
               t == written[i].target
    <3>1. s \in Nat0!Sessions /\ t \in Targets /\ t # 0
      BY WrittenType, NatAssumption DEF NatInv
    <3>2. Agree(sess[s])
      BY <3>1 DEF NatInv, Mapped
    <3>4. sess[s].targetToOrigin[t] = 0 =>
            \A o \in Nat0!Origins : sess[s].originToTarget[o] = t => Address[o] = 0
      BY <3>1, <3>2 DEF Agree
    <3>3. sess[s].targetToOrigin[t] # 0 =>
            \E o \in Nat0!Origins :
              Address[o] = sess[s].targetToOrigin[t] /\ sess[s].originToTarget[o] = t
      BY <3>1, <3>2 DEF Agree
    <3> QED
      BY <3>3, <3>4 DEF Nat0!OnlyDomains, Nat0!RestoreReadFrom, Nat0!None
  <2>2. \A i, j \in DOMAIN written :
          written[i].s = written[j].s /\ Origin[written[i].packet] = Origin[written[j].packet]
            => written[i].target = written[j].target
    BY DEF NatInv, WroteMapped
  <2> QED
    BY <2>1, <2>2 DEF Nat0!FlowKeepsTarget, Nat0!None
<1> QED
  BY <1>1, <1>2, <1>3, <1>4

(* What a session loses: once its channel has been drained, one packet can  *)
(* still come, from a Send that looked at the context before it ended.      *)
LossInv ==
  /\ Nat0!OneIsLost
  /\ \A s \in Nat0!Sessions :
       sess[s].proc = "drain" \/ sess[s].relay = "drain" \/ Nat0!Drained(s) => sess[s].done

LEMMA LossInit == Nat0!Init => LossInv
BY SMT DEF Nat0!Init, Nat0!NewPacketSender, Nat0!None, LossInv, Nat0!OneIsLost, Nat0!Drained

(* What the other steps of a session leave of it.                           *)
LEMMA LossRests ==
  ASSUME LossInv, NatInv, NEW s \in Nat0!Sessions,
         sess[s].done => sess'[s].done,
         sess'[s].proc = "drain" \/ sess'[s].relay = "drain" => sess'[s].done,
         Nat0!Drained(s)' => Nat0!Drained(s) \/ (sess'[s].done /\ sess[s].ch = <<>>),
         sess'[s].ch = sess[s].ch \/ (sess[s].ch # <<>> /\ sess'[s].ch = Tail(sess[s].ch)),
         Nat0!Putting(s)' => Nat0!Putting(s) \/ ~sess'[s].done
  PROVE  /\ Nat0!Drained(s)' => Len(sess'[s].ch) <= 1 /\ (Nat0!Putting(s)' => sess'[s].ch = <<>>)
         /\ sess'[s].proc = "drain" \/ sess'[s].relay = "drain" \/ Nat0!Drained(s)' => sess'[s].done
<1> DEFINE ch == sess[s].ch
<1>1. ch \in Seq(Nat0!Packets)
  BY SMT DEF NatInv, NatType, Senders
<1>2. Len(ch) \in Nat /\ (ch # <<>> => Len(Tail(ch)) = Len(ch) - 1)
  BY <1>1, HeadTailProperties, LenProperties
<1>3. ch = <<>> => Len(ch) = 0
  OBVIOUS
<1>4. Len(ch) <= 1 /\ ch # <<>> => Tail(ch) = <<>>
  BY <1>1, <1>2, EmptySeq, HeadTailProperties
<1>5. Nat0!Drained(s) => Len(ch) <= 1 /\ (Nat0!Putting(s) => ch = <<>>) /\ sess[s].done
  BY DEF LossInv, Nat0!OneIsLost
<1>6. sess'[s].ch = ch \/ (ch # <<>> /\ sess'[s].ch = Tail(ch))
  OBVIOUS
<1> HIDE DEF ch
<1>7. ASSUME Nat0!Drained(s)'
      PROVE  Len(sess'[s].ch) <= 1 /\ (Nat0!Putting(s)' => sess'[s].ch = <<>>) /\ sess'[s].done
  <2>1. CASE Nat0!Drained(s)
    <3>1. Len(sess'[s].ch) <= 1
      BY <1>2, <1>5, <1>6, <2>1
    <3>2. Nat0!Putting(s)' => Nat0!Putting(s)
      BY <1>5, <2>1
    <3> QED
      BY <1>5, <1>6, <2>1, <3>1, <3>2
  <2>2. CASE sess'[s].done /\ ch = <<>>
    BY <1>3, <1>6, <2>2
  <2> QED
    BY <1>7, <2>1, <2>2 DEF ch
<1> QED
  BY <1>7

LEMMA LossStep ==
  ASSUME NatInv, LossInv, Nat0!Next \/ UNCHANGED natVars
  PROVE  LossInv'
<1>0. /\ sess \in [Nat0!Sessions -> Senders]
      /\ worker \in [pc : {"wait", "lookup", "send", "put"}, packet : Nat0!Packets \cup {0}, s : 0 .. MaxSessions]
      /\ Life
  BY DEF NatInv, NatType
<1> DEFINE Good(s) ==
      /\ Nat0!Drained(s)' => Len(sess'[s].ch) <= 1 /\ (Nat0!Putting(s)' => sess'[s].ch = <<>>)
      /\ sess'[s].proc = "drain" \/ sess'[s].relay = "drain" \/ Nat0!Drained(s)' => sess'[s].done
<1> SUFFICES ASSUME NEW s \in Nat0!Sessions PROVE Good(s)
  BY DEF LossInv, Nat0!OneIsLost
<1>1. CASE UNCHANGED natVars \/ Nat0!HandleUDPPacket \/ Nat0!ProcessUDP \/ Nat0!Send
  <2>1. sess' = sess
    BY <1>1 DEF natVars, Nat0!HandleUDPPacket, Nat0!ProcessUDP, Nat0!Send
  <2>2. Nat0!Putting(s)' => Nat0!Putting(s) \/ ~sess[s].done
    <3>1. CASE UNCHANGED natVars \/ Nat0!HandleUDPPacket
      BY <3>1 DEF natVars, Nat0!HandleUDPPacket, Nat0!Putting
    <3>2. CASE Nat0!ProcessUDP
      <4>1. worker' = [worker EXCEPT !.pc = "lookup", !.packet = Head(queue)] \/ worker' = worker
        BY <3>2 DEF Nat0!ProcessUDP
      <4>2. ASSUME NEW h PROVE [worker EXCEPT !.pc = "lookup", !.packet = h].pc = "lookup"
        BY <1>0
      <4>3. worker'.pc # "put" \/ worker' = worker
        BY <4>1, <4>2
      <4> QED
        BY <4>3 DEF Nat0!Putting
    <3>3. CASE Nat0!Send
      <4>1. /\ worker.pc = "send"
            /\ IF sess[worker.s].done THEN worker' = [worker EXCEPT !.pc = "wait"]
               ELSE worker' = [worker EXCEPT !.pc = "put"]
        BY <3>3 DEF Nat0!Send
      <4>2. worker'.s = worker.s /\ (sess[worker.s].done => worker'.pc = "wait")
        BY <1>0, <4>1, SMT
      <4> QED
        BY <4>2 DEF Nat0!Putting
    <3> QED
      BY <1>1, <3>1, <3>2, <3>3
  <2> QED
    BY <2>1, <2>2, LossRests DEF LossInv, Nat0!Drained
<1>2. CASE Nat0!GetOrCreate
  <2>1. ~Nat0!Putting(s)'
    <3>1. \E u \in {nat, made + 1} : worker' = [worker EXCEPT !.pc = "send", !.s = u]
      BY <1>2 DEF Nat0!GetOrCreate
    <3>2. worker'.pc = "send"
      BY <1>0, <3>1, SMT
    <3> QED
      BY <3>2 DEF Nat0!Putting
  <2>2. /\ sess'[s].ch = sess[s].ch /\ sess'[s].done = sess[s].done
        /\ sess'[s].proc = sess[s].proc /\ sess'[s].relay = sess[s].relay
    <3>1. sess' = sess \/ sess' = [sess EXCEPT ![made + 1].packet = worker.packet]
      BY <1>2 DEF Nat0!GetOrCreate
    <3>2. CASE sess' = [sess EXCEPT ![made + 1].packet = worker.packet]
      BY <1>0, <3>2, SMT DEF Senders
    <3> QED
      BY <3>1, <3>2
  <2> QED
    BY <2>1, <2>2, LossRests DEF LossInv, Nat0!Drained
<1>3. CASE Nat0!Put
  <2>0. worker.pc = "put" /\ worker' = [worker EXCEPT !.pc = "wait"]
    BY <1>3 DEF Nat0!Put
  <2>1. ~Nat0!Putting(s)'
    <3>1. worker'.pc = "wait"
      BY <1>0, <2>0, SMT
    <3> QED
      BY <3>1 DEF Nat0!Putting
  <2>2. /\ sess'[s].done = sess[s].done
        /\ sess'[s].proc = sess[s].proc /\ sess'[s].relay = sess[s].relay
        /\ sess'[s].ch = sess[s].ch \/ (worker.s = s /\ sess'[s].ch = Append(sess[s].ch, worker.packet))
    <3>1. sess' = sess \/ sess' = [sess EXCEPT ![worker.s].ch = Append(@, worker.packet)]
      BY <1>3 DEF Nat0!Put
    <3>2. CASE sess' = [sess EXCEPT ![worker.s].ch = Append(@, worker.packet)]
      <4>1. CASE worker.s = s
        BY <1>0, <3>2, <4>1, SMT DEF Senders
      <4>2. CASE worker.s # s
        BY <1>0, <3>2, <4>2, SMT DEF Senders
      <4> QED
        BY <4>1, <4>2
    <3> QED
      BY <3>1, <3>2
  <2>3. CASE sess'[s].ch = sess[s].ch
    BY <2>1, <2>2, <2>3, LossRests DEF LossInv, Nat0!Drained
  <2>4. CASE worker.s = s /\ sess'[s].ch = Append(sess[s].ch, worker.packet)
    <3>1. Nat0!Drained(s)' => sess[s].ch = <<>>
      BY <2>0, <2>2, <2>4 DEF LossInv, Nat0!OneIsLost, Nat0!Drained, Nat0!Putting
    <3>2. Nat0!Drained(s)' => Len(sess'[s].ch) <= 1
      <4>1. Len(Append(<<>>, worker.packet)) = 1
        OBVIOUS
      <4> QED
        BY <2>4, <3>1, <4>1
    <3> QED
      BY <2>1, <2>2, <3>2 DEF LossInv, Nat0!Drained
  <2> QED
    BY <2>2, <2>3, <2>4
<1>4. ASSUME NEW t \in Nat0!Sessions, Nat0!Sender(t) \/ Nat0!RelayEnds(t) PROVE Good(s)
  <2>1. worker' = worker
    BY <1>4 DEF Nat0!Sender, Nat0!RelayEnds, Nat0!Dial, Nat0!DialFails, Nat0!DropAll, Nat0!Delete,
       Nat0!ProcessDone, Nat0!ProcessTakes, Nat0!Resolve, Nat0!Write
  <2>2. CASE t # s
    <3>1. \E e : sess' = [sess EXCEPT ![t] = e]
      <4>1. CASE Nat0!Dial(t) \/ Nat0!Resolve(t)
        BY <4>1 DEF Nat0!Dial, Nat0!Resolve
      <4>2. CASE Nat0!DialFails(t) \/ Nat0!RelayEnds(t)
        <5>1. [[sess EXCEPT ![t].done = TRUE] EXCEPT ![t].proc = "drain"]
              = [sess EXCEPT ![t] = [[sess[t] EXCEPT !.done = TRUE] EXCEPT !.proc = "drain"]]
          BY <1>0
        <5>2. [[sess EXCEPT ![t].done = TRUE] EXCEPT ![t].relay = "drain"]
              = [sess EXCEPT ![t] = [[sess[t] EXCEPT !.done = TRUE] EXCEPT !.relay = "drain"]]
          BY <1>0
        <5> QED
          BY <4>2, <5>1, <5>2 DEF Nat0!DialFails, Nat0!RelayEnds, Nat0!Cancel
      <4>3. CASE Nat0!DropAll(t)
        BY <1>0, <4>3 DEF Nat0!DropAll
      <4>4. CASE Nat0!Delete(t) \/ Nat0!ProcessDone(t) \/ Nat0!ProcessTakes(t) \/ Nat0!Write(t)
        BY <1>0, <4>4 DEF Nat0!Delete, Nat0!ProcessDone, Nat0!ProcessTakes, Nat0!Write
      <4> QED
        BY <1>4, <4>1, <4>2, <4>3, <4>4 DEF Nat0!Sender
    <3>2. sess'[s] = sess[s]
      BY <1>0, <2>2, <3>1
    <3> QED
      BY <2>1, <3>2, LossRests DEF LossInv, Nat0!Drained, Nat0!Putting
  <2>3. CASE t = s
    <3>1. Nat0!Putting(s)' <=> Nat0!Putting(s)
      BY <2>1 DEF Nat0!Putting
    <3>2. CASE Nat0!Dial(s)
      <4>1. sess[s].proc = "dial" /\ sess[s].relay = "none"
        BY <1>0, <3>2 DEF Nat0!Dial, Life
      <4>2. /\ sess'[s].proc = "select" /\ sess'[s].relay = "read"
            /\ sess'[s].ch = sess[s].ch /\ sess'[s].done = sess[s].done
        BY <1>0, <3>2, SMT DEF Nat0!Dial, Nat0!AddMapping, Senders
      <4> QED
        BY <3>1, <4>1, <4>2, LossRests DEF Nat0!Drained
    <3>3. CASE Nat0!DialFails(s) \/ Nat0!RelayEnds(s)
      <4>1. /\ sess'[s].done /\ sess'[s].ch = sess[s].ch
            /\ \/ sess[s].proc = "dial" /\ sess'[s].proc = "drain" /\ sess'[s].relay = sess[s].relay
               \/ sess[s].relay = "read" /\ sess'[s].relay = "drain" /\ sess'[s].proc = sess[s].proc
        BY <1>0, <3>3, SMT DEF Nat0!DialFails, Nat0!RelayEnds, Nat0!Cancel, Senders
      <4> QED
        BY <3>1, <4>1, LossRests DEF Nat0!Drained
    <3>4. CASE Nat0!DropAll(s)
      <4>1. sess[s].proc = "drain" \/ sess[s].relay = "drain"
        BY <3>4 DEF Nat0!DropAll
      <4>2. CASE sess[s].ch # <<>>
        <5>1. sess' = [sess EXCEPT ![s].ch = Tail(@)]
          BY <3>4, <4>2 DEF Nat0!DropAll
        <5>2. /\ sess'[s].ch = Tail(sess[s].ch) /\ sess'[s].done = sess[s].done
              /\ sess'[s].proc = sess[s].proc /\ sess'[s].relay = sess[s].relay
          BY <1>0, <5>1, SMT DEF Senders
        <5> QED
          BY <3>1, <4>1, <4>2, <5>2, LossRests DEF LossInv, Nat0!Drained
      <4>3. CASE sess[s].ch = <<>>
        <5>1. sess' = IF sess[s].proc = "drain" THEN [sess EXCEPT ![s].proc = "delete"]
                      ELSE [[sess EXCEPT ![s].relay = "delete"] EXCEPT ![s].open = FALSE]
          BY <3>4, <4>3 DEF Nat0!DropAll
        <5>2. /\ sess'[s].ch = sess[s].ch /\ sess'[s].done = sess[s].done
          BY <1>0, <5>1, SMT DEF Senders
        <5>3. sess[s].done
          BY <4>1 DEF LossInv
        <5> QED
          BY <3>1, <4>3, <5>2, <5>3, LossRests
      <4> QED
        BY <4>2, <4>3
    <3>5. CASE Nat0!Delete(s)
      <4>1. /\ "delete" \in {sess[s].proc, sess[s].relay} /\ sess'[s].ch = sess[s].ch /\ sess'[s].done = sess[s].done
            /\ IF sess[s].proc = "delete" THEN sess'[s].proc = "end" /\ sess'[s].relay = sess[s].relay
               ELSE sess'[s].proc = sess[s].proc /\ sess'[s].relay = "end"
        BY <1>0, <3>5, SMT DEF Nat0!Delete, Senders
      <4>2. Nat0!Drained(s)
        BY <1>0, <4>1 DEF Nat0!Drained, Life
      <4>3. sess[s].done
        BY <4>2 DEF LossInv
      <4> QED
        BY <3>1, <4>1, <4>2, <4>3, LossRests
    <3>6. CASE Nat0!ProcessDone(s) \/ Nat0!ProcessTakes(s) \/ Nat0!Resolve(s) \/ Nat0!Write(s)
      <4>1. /\ sess[s].proc \in {"select", "packet", "write"}
            /\ sess'[s].proc \in {"end", "select", "packet", "write"}
            /\ sess'[s].relay = sess[s].relay /\ sess'[s].done = sess[s].done
            /\ sess'[s].ch = sess[s].ch \/ (sess[s].ch # <<>> /\ sess'[s].ch = Tail(sess[s].ch))
        <5>1. CASE Nat0!Resolve(s)
          <6> DEFINE o == Origin[sess[s].packet]
          <6>1. /\ sess[s].proc = "packet"
                /\ \/ \E t0 \in Targets : sess' = [sess EXCEPT ![s] =
                         [Nat0!AddMapping(@, o, t0) EXCEPT !.proc = "write", !.target = t0]]
                   \/ sess' = [[sess EXCEPT ![s].proc = "write"] EXCEPT ![s].target = sess[s].originToTarget[o]]
                   \/ sess' = [sess EXCEPT ![s].proc = "select"]
            BY <1>0, <5>1 DEF Nat0!Resolve
          <6>2. ASSUME NEW t0 \in Targets, sess' = [sess EXCEPT ![s] =
                         [Nat0!AddMapping(@, o, t0) EXCEPT !.proc = "write", !.target = t0]]
                PROVE  /\ sess'[s].proc = "write" /\ sess'[s].relay = sess[s].relay
                       /\ sess'[s].done = sess[s].done /\ sess'[s].ch = sess[s].ch
            BY <1>0, <6>2, SMT DEF Nat0!AddMapping, Senders
          <6>3. CASE sess' = [[sess EXCEPT ![s].proc = "write"] EXCEPT ![s].target = sess[s].originToTarget[o]]
            BY <1>0, <6>1, <6>3, SMT DEF Senders
          <6>4. CASE sess' = [sess EXCEPT ![s].proc = "select"]
            BY <1>0, <6>1, <6>4, SMT DEF Senders
          <6> QED
            BY <6>1, <6>2, <6>3, <6>4
        <5>2. CASE Nat0!ProcessDone(s) \/ Nat0!ProcessTakes(s) \/ Nat0!Write(s)
          BY <1>0, <5>2, SMT DEF Nat0!ProcessDone, Nat0!ProcessTakes, Nat0!Write, Senders
        <5> QED
          BY <3>6, <5>1, <5>2
      <4>2. sess[s].relay # "none"
        BY <1>0, <4>1 DEF Life
      <4> QED
        BY <3>1, <4>1, <4>2, LossRests DEF LossInv, Nat0!Drained
    <3> QED
      BY <1>4, <2>3, <3>2, <3>3, <3>4, <3>5, <3>6 DEF Nat0!Sender
  <2> QED
    BY <2>2, <2>3
<1> QED
  BY <1>1, <1>2, <1>3, <1>4 DEF Nat0!Next, Nat0!Worker

(* The packets of one source: one socket at a time, no buffer kept or given *)
(* back early, sent in the order in which they came, and no more than one   *)
(* of a session lost in its emptied channel.                                *)
THEOREM UdpPacketsInOrder == TrafficSpec => []PacketsInOrder
<1>1. TrafficInit => NatInv /\ LossInv
  BY NatInit, LossInit DEF TrafficInit
<1>2. NatInv /\ LossInv /\ [TrafficNext]_allVars => (NatInv /\ LossInv)'
  BY NatSteps, NatStep, LossStep
<1>3. NatInv /\ LossInv => PacketsInOrder
  BY NatInvImplies DEF LossInv, PacketsInOrder, Nat0!PacketsInOrder
<1> QED
  BY <1>1, <1>2, <1>3, PTL DEF TrafficSpec

(* An answer's address changes only where the record was not valid.         *)
LEMMA AddressStays ==
  ASSUME NatInv, MappingsStay
  PROVE  \A s \in Nat0!Sessions, t \in Targets :
           Nat0!RestoreReadFrom(s, t)' # Nat0!RestoreReadFrom(s, t) => Nat0!OnlyDomains(s, t)
<1> SUFFICES ASSUME NEW s \in Nat0!Sessions, NEW t \in Targets,
                    sess[s].targetToOrigin[t] = 0
             PROVE  Nat0!OnlyDomains(s, t)
  BY DEF MappingsStay, Nat0!RestoreReadFrom, Nat0!None
<1>1. Agree(sess[s]) /\ t # 0
  BY NatAssumption DEF NatInv, Mapped
<1> QED
  BY <1>1 DEF Agree, Nat0!OnlyDomains, Nat0!None

(* What goes to one origin of a session goes to one target, and the address *)
(* that target's answers get changes only while it has had nothing but      *)
(* domains.                                                                 *)
THEOREM UdpAnswersKeepOrigin == TrafficSpec => AnswersKeepOrigin
<1> DEFINE Changes == \A s \in Nat0!Sessions, t \in Targets :
             Nat0!RestoreReadFrom(s, t)' # Nat0!RestoreReadFrom(s, t) => Nat0!OnlyDomains(s, t)
<1>1. TrafficInit => NatInv
  BY NatInit DEF TrafficInit
<1>2. NatInv /\ [TrafficNext]_allVars => NatInv'
  BY NatSteps, NatStep
<1>3. NatInv => Nat0!FlowKeepsTarget
  BY NatInvImplies
<1>4. NatInv /\ [TrafficNext]_allVars => [Changes]_(Nat0!vars)
  BY NatSteps, NatStep, AddressStays
<1>5. AnswersKeepOrigin <=> []Nat0!FlowKeepsTarget /\ [][Changes]_(Nat0!vars)
  BY DEF AnswersKeepOrigin, Nat0!AnswersKeepOrigin
<1> QED
  BY <1>1, <1>2, <1>3, <1>4, <1>5, PTL DEF TrafficSpec

-----------------------------------------------------------------------------
(* ---- ConfigReload: no connection is decided by parts of two             *)
(* configurations.                                                         *)
LEMMA CardinalityHere == \A S : Reload!Cardinality(S) = Cardinality(S)
BY DEF Reload!Cardinality, Cardinality

Exchanging == {"proxies", "rules", "general", "dns", "inbounds", "inner"}
Applying == Exchanging \cup {"providers"}

ReloadTyped ==
    /\ status \in {"suspend", "inner", "running"}
    /\ mux \in Puts \cup {Reload!Nobody}
    /\ part \in [Reload!Parts -> Puts \cup {0}]
    /\ ports \in Puts \cup Patches \cup {0}
    /\ applied \in Puts \cup {0}
    /\ begun \in Nat
    /\ req \in [Puts \cup Patches ->
                 [pc : {"idle", "saved", "parsing", "parsed", "refused", "got", "made", "done"} \cup Applying,
                  old : Puts \cup Patches \cup {0}]]
    /\ general \in Puts \cup Patches \cup {0}
    /\ conn \in [Conns \cup InnerConns ->
                  [pc : {"new", "accepted", "handled", "decided", "closed"},
                   begun : Nat, host : Puts \cup {0}, by : SUBSET (Puts \cup {0})]]

(* The request that holds the mutex is the one that applies.                *)
Turns == \A r \in Puts \cup Patches : req[r].pc \in Applying <=> r = mux

(* The tunnel only runs between two applications, and lets the program's own*)
(* connections in only when the last part has been exchanged.               *)
Gate ==
    /\ status = "running" => mux = Reload!Nobody
    /\ status = "inner" => mux # Reload!Nobody /\ req[mux].pc = "providers"

(* What the request that applies has exchanged so far.                      *)
Exchanged(r) ==
    CASE req[r].pc = "rules" -> {"proxies"}
      [] req[r].pc \in {"general", "dns"} -> {"proxies", "rules"}
      [] req[r].pc = "inbounds" -> {"proxies", "rules", "dns"}
      [] req[r].pc \in {"inner", "providers"} -> Reload!Parts
      [] OTHER -> {}

OneConfigInForce ==
    /\ Reload!ConfigIsWhole
    /\ mux # Reload!Nobody => \A p \in Exchanged(mux) : part[p] = mux

(* A connection no reload has overtaken reads what all parts agree on.      *)
Settled == mux = Reload!Nobody \/ req[mux].pc = "providers"
Undisturbed ==
    \A c \in Conns \cup InnerConns :
        /\ conn[c].begun <= begun
        /\ conn[c].pc \in {"accepted", "handled", "decided"} /\ conn[c].begun = begun =>
             /\ Settled
             /\ conn[c].pc = "handled" => conn[c].host = part["dns"]
             /\ conn[c].pc = "decided" => conn[c].by = {part["dns"]}

ReloadInv == ReloadTyped /\ Turns /\ Gate /\ OneConfigInForce /\ Undisturbed

-----------------------------------------------------------------------------
(* Before the first request nothing is open and nothing has been applied.   *)
LEMMA ReloadInit == ASSUME Reload!Init PROVE ReloadInv
  BY ReloadAssumption, SMT DEF Reload!Numbered, Reload!Init, ReloadInv, ReloadTyped, Turns, Gate,
     OneConfigInForce, Reload!ConfigIsWhole, Undisturbed, Settled,
     Applying, Exchanging, Reload!Parts, Reload!Nobody

(* All parts are the same when the tunnel lets connections in.              *)
LEMMA SettledIsWhole ==
  ASSUME ReloadInv, Settled
  PROVE  \A p \in Reload!Parts : part[p] = part["dns"]
  BY SMT DEF ReloadInv, ReloadTyped, OneConfigInForce, Reload!ConfigIsWhole, Settled, Exchanged,
     Reload!Parts, Reload!Nobody

(* Parsing changes the general part only.                                   *)
LEMMA ParseStep ==
  ASSUME ReloadInv, NEW r \in Puts, Reload!Parse(r)
  PROVE  ReloadInv'
<1>1. /\ req[r].pc \notin Applying /\ req'[r].pc \notin Applying
      /\ req' \in [Puts \cup Patches ->
                 [pc : {"idle", "saved", "parsing", "parsed", "refused", "got", "made", "done"} \cup Applying,
                  old : Puts \cup Patches \cup {0}]]
      /\ \A q \in Puts \cup Patches : q # r => req'[q] = req[q]
      /\ general' \in Puts \cup Patches \cup {0}
      /\ UNCHANGED <<status, mux, part, ports, applied, begun, conn>>
  BY SMT DEF ReloadInv, ReloadTyped, Reload!Parse, Reload!GetGeneral, Reload!UpdateTemporarily,
     Reload!ParseEnds, Reload!Go, Applying, Exchanging
<1>2. r # mux
  BY <1>1 DEF ReloadInv, Turns
<1>3. mux # Reload!Nobody => mux \in Puts /\ req'[mux] = req[mux]
  BY <1>1, <1>2 DEF ReloadInv, ReloadTyped
<1>4. ReloadTyped' /\ Turns'
  BY <1>1, <1>2 DEF ReloadInv, ReloadTyped, Turns
<1>5. Gate' /\ OneConfigInForce' /\ Undisturbed'
  BY <1>1, <1>3 DEF ReloadInv, Gate, OneConfigInForce, Reload!ConfigIsWhole, Exchanged,
     Undisturbed, Settled
<1> QED
  BY <1>4, <1>5 DEF ReloadInv

LEMMA LockAndSuspendStep ==
  ASSUME ReloadInv, NEW r \in Puts, Reload!LockAndSuspend(r)
  PROVE  ReloadInv'
<1>1. /\ mux = Reload!Nobody /\ mux' = r /\ r # Reload!Nobody
      /\ req'[r].pc = "proxies"
      /\ \A q \in Puts \cup Patches : q # r => req'[q] = req[q]
      /\ begun \in Nat /\ begun' = begun + 1 /\ status' = "suspend"
      /\ UNCHANGED <<part, ports, general, applied, conn>>
  BY ReloadAssumption DEF Reload!Numbered, ReloadInv, ReloadTyped, Reload!LockAndSuspend, Reload!Go
<1>2. ReloadTyped'
  BY <1>1 DEF ReloadInv, ReloadTyped, Reload!LockAndSuspend, Reload!Go, Applying, Exchanging
<1>3. Turns'
  BY ReloadAssumption, <1>1, SMT DEF ReloadInv, ReloadTyped, Turns, Reload!Numbered, Applying,
     Exchanging
<1>4. Gate' /\ OneConfigInForce'
  BY <1>1, SMT DEF Gate, OneConfigInForce, Reload!ConfigIsWhole, Exchanged
<1>5. Undisturbed'
  BY <1>1, SMT DEF ReloadInv, ReloadTyped, Undisturbed
<1> QED
  BY <1>2, <1>3, <1>4, <1>5 DEF ReloadInv

(* The steps that exchange a part, while nobody is let in.                  *)
LEMMA ExchangeStep ==
  ASSUME ReloadInv, NEW r \in Puts,
         Reload!UpdateProxies(r) \/ Reload!UpdateRules(r) \/ Reload!UpdateGeneral(r) \/ Reload!UpdateDNS(r) \/ Reload!UpdateListeners(r)
  PROVE  ReloadInv'
<1>1. /\ req[r].pc \in Exchanging \ {"inner"} /\ req'[r].pc \in Exchanging \ {"proxies"}
      /\ req' \in [Puts \cup Patches ->
                 [pc : {"idle", "saved", "parsing", "parsed", "refused", "got", "made", "done"} \cup Applying,
                  old : Puts \cup Patches \cup {0}]]
      /\ \A q \in Puts \cup Patches : q # r => req'[q] = req[q]
      /\ UNCHANGED <<status, mux, applied, begun, conn>>
  BY SMT DEF ReloadInv, ReloadTyped, Reload!UpdateProxies, Reload!UpdateRules,
     Reload!UpdateGeneral, Reload!UpdateDNS, Reload!UpdateListeners, Reload!Update,
     Reload!Go, Applying, Exchanging
<1>2. r = mux /\ r # Reload!Nobody
  BY ReloadAssumption, <1>1 DEF ReloadInv, Turns, Reload!Numbered, Applying
<1>3. /\ part' \in [Reload!Parts -> Puts \cup {0}]
      /\ general' \in Puts \cup Patches \cup {0} /\ ports' \in Puts \cup Patches \cup {0}
  BY SMT DEF ReloadInv, ReloadTyped, Reload!UpdateProxies, Reload!UpdateRules,
     Reload!UpdateGeneral, Reload!UpdateDNS, Reload!UpdateListeners, Reload!Update, Reload!Parts
<1>4. \A p \in Exchanged(r)' : part'[p] = r
  <2>1. \A p \in Exchanged(r) : part[p] = r
    BY <1>2 DEF ReloadInv, OneConfigInForce
  <2>2. CASE Reload!UpdateProxies(r)
    BY <2>1, <2>2, SMT DEF ReloadInv, ReloadTyped, Reload!UpdateProxies, Reload!Update, Reload!Go,
       Exchanged, Reload!Parts
  <2>3. CASE Reload!UpdateRules(r)
    BY <2>1, <2>3, SMT DEF ReloadInv, ReloadTyped, Reload!UpdateRules, Reload!Update, Reload!Go,
       Exchanged, Reload!Parts
  <2>4. CASE Reload!UpdateGeneral(r)
    BY <2>1, <2>4, SMT DEF ReloadInv, ReloadTyped, Reload!UpdateGeneral, Reload!Go, Exchanged,
       Reload!Parts
  <2>5. CASE Reload!UpdateDNS(r)
    BY <2>1, <2>5, SMT DEF ReloadInv, ReloadTyped, Reload!UpdateDNS, Reload!Update, Reload!Go,
       Exchanged, Reload!Parts
  <2>6. CASE Reload!UpdateListeners(r)
    BY <2>1, <2>6, SMT DEF ReloadInv, ReloadTyped, Reload!UpdateListeners,
       Reload!Go, Exchanged, Reload!Parts
  <2> QED
    BY <2>2, <2>3, <2>4, <2>5, <2>6
<1>5. ReloadTyped' /\ Turns'
  BY <1>1, <1>2, <1>3 DEF ReloadInv, ReloadTyped, Turns, Applying
<1>6. status = "suspend" /\ ~Settled
  BY <1>1, <1>2, SMT DEF ReloadInv, ReloadTyped, Gate, Settled, Exchanging
<1>7. Gate' /\ OneConfigInForce'
  BY <1>1, <1>2, <1>4, <1>6 DEF Gate, OneConfigInForce, Reload!ConfigIsWhole
<1>8. Undisturbed'
  BY <1>1, <1>6 DEF ReloadInv, Undisturbed
<1> QED
  BY <1>5, <1>7, <1>8 DEF ReloadInv

(* The gate opens for the program's own connections.                        *)
LEMMA InnerLoadingStep ==
  ASSUME ReloadInv, NEW r \in Puts, Reload!OnInnerLoading(r)
  PROVE  ReloadInv'
<1>1. /\ req[r].pc = "inner" /\ req'[r].pc = "providers" /\ status' = "inner"
      /\ \A q \in Puts \cup Patches : q # r => req'[q] = req[q]
      /\ UNCHANGED <<mux, part, ports, general, applied, begun, conn>>
  BY DEF ReloadInv, ReloadTyped, Reload!OnInnerLoading, Reload!Go
<1>2. r = mux /\ r # Reload!Nobody
  BY ReloadAssumption, <1>1 DEF ReloadInv, Turns, Reload!Numbered, Applying, Exchanging
<1>3. ReloadTyped'
  BY <1>1 DEF ReloadInv, ReloadTyped, Reload!OnInnerLoading, Reload!Go, Applying
<1>4. Turns'
  BY <1>1, <1>2 DEF ReloadInv, Turns, Applying
<1>5. Gate' /\ OneConfigInForce'
  BY <1>1, <1>2, SMT DEF ReloadInv, Gate, OneConfigInForce, Reload!ConfigIsWhole, Exchanged
<1>6. Undisturbed'
  BY <1>1, <1>2, SMT DEF ReloadInv, Undisturbed, Settled
<1> QED
  BY <1>3, <1>4, <1>5, <1>6 DEF ReloadInv

LEMMA RunningStep ==
  ASSUME ReloadInv, NEW r \in Puts, Reload!OnRunning(r)
  PROVE  ReloadInv'
<1>1. /\ req[r].pc = "providers" /\ req'[r].pc = "done" /\ status' = "running"
      /\ mux' = Reload!Nobody /\ applied' = r
      /\ \A q \in Puts \cup Patches : q # r => req'[q] = req[q]
      /\ UNCHANGED <<part, ports, general, begun, conn>>
  BY DEF ReloadInv, ReloadTyped, Reload!OnRunning, Reload!Go
<1>2. r = mux /\ r # Reload!Nobody
  BY ReloadAssumption, <1>1 DEF ReloadInv, Turns, Reload!Numbered, Applying
<1>3. ReloadTyped'
  BY <1>1 DEF ReloadInv, ReloadTyped, Reload!OnRunning, Reload!Go, Reload!Nobody
<1>4. Turns'
  BY ReloadAssumption, <1>1, <1>2, SMT DEF ReloadInv, Turns, Reload!Numbered, Applying, Exchanging
<1>5. Gate' /\ OneConfigInForce'
  BY <1>1, <1>2, SMT DEF ReloadInv, Gate, OneConfigInForce, Reload!ConfigIsWhole, Exchanged
<1>6. Undisturbed'
  BY <1>1, <1>2, SMT DEF ReloadInv, Undisturbed, Settled
<1> QED
  BY <1>3, <1>4, <1>5, <1>6 DEF ReloadInv

LEMMA PatchStep ==
  ASSUME ReloadInv, NEW r \in Patches, Reload!PatchConfigs(r)
  PROVE  ReloadInv'
<1>1. /\ req[r].pc \notin Applying /\ req'[r].pc \notin Applying
      /\ req' \in [Puts \cup Patches ->
                 [pc : {"idle", "saved", "parsing", "parsed", "refused", "got", "made", "done"} \cup Applying,
                  old : Puts \cup Patches \cup {0}]]
      /\ \A q \in Puts \cup Patches : q # r => req'[q] = req[q]
      /\ general' \in Puts \cup Patches \cup {0} /\ ports' \in Puts \cup Patches \cup {0}
      /\ UNCHANGED <<status, mux, part, applied, begun, conn>>
  BY SMT DEF ReloadInv, ReloadTyped, Reload!PatchConfigs, Reload!GetPorts, Reload!ReCreatePorts,
     Reload!PatchGeneral, Reload!Go, Applying, Exchanging
<1>2. r # mux
  BY <1>1 DEF ReloadInv, Turns
<1>3. mux # Reload!Nobody => mux \in Puts /\ req'[mux] = req[mux]
  BY <1>1, <1>2 DEF ReloadInv, ReloadTyped
<1>4. ReloadTyped' /\ Turns'
  BY <1>1, <1>2 DEF ReloadInv, ReloadTyped, Turns
<1>5. Gate' /\ OneConfigInForce' /\ Undisturbed'
  BY <1>1, <1>3 DEF ReloadInv, Gate, OneConfigInForce, Reload!ConfigIsWhole, Exchanged,
     Undisturbed, Settled
<1> QED
  BY <1>4, <1>5 DEF ReloadInv

(* A connection is let in, looks up its host, and is decided.               *)
LEMMA DecideStep ==
  ASSUME ReloadInv, NEW c \in Conns \cup InnerConns,
         Reload!Accept(c) \/ Reload!PreHandleMetadata(c) \/ Reload!ResolveMetadata(c)
  PROVE  ReloadInv'
<1>1. /\ UNCHANGED <<status, mux, part, ports, general, applied, begun, req>>
      /\ \A d \in Conns \cup InnerConns : d # c => conn'[d] = conn[d]
  BY DEF ReloadInv, ReloadTyped, Reload!Accept, Reload!PreHandleMetadata, Reload!ResolveMetadata
<1>2. "dns" \in Reload!Parts /\ "rules" \in Reload!Parts /\ "proxies" \in Reload!Parts
  BY DEF Reload!Parts
<1>3. ReloadTyped'
  BY <1>1, <1>2, SMT DEF ReloadInv, ReloadTyped, Reload!Accept, Reload!PreHandleMetadata,
     Reload!ResolveMetadata
<1>4. /\ conn'[c].begun <= begun
      /\ conn'[c].pc \in {"accepted", "handled", "decided"} /\ conn'[c].begun = begun =>
           /\ Settled
           /\ conn'[c].pc = "handled" => conn'[c].host = part["dns"]
           /\ conn'[c].pc = "decided" => conn'[c].by = {part["dns"]}
  <2>1. CASE Reload!Accept(c)
    <3>1. /\ conn'[c].begun = begun /\ conn'[c].pc \in {"accepted", "closed"}
          /\ conn'[c].pc = "accepted" => Reload!IsHandle(c)
      BY <2>1, SMT DEF ReloadInv, ReloadTyped, Reload!Accept
    <3>2. Reload!IsHandle(c) => Settled
      BY DEF ReloadInv, Gate, Reload!IsHandle, Settled
    <3> QED
      BY <3>1, <3>2, SMT DEF ReloadInv, ReloadTyped
  <2>2. CASE Reload!PreHandleMetadata(c)
    BY <2>2, SMT DEF ReloadInv, ReloadTyped, Undisturbed, Reload!PreHandleMetadata
  <2>3. CASE Reload!ResolveMetadata(c)
    <3>1. /\ conn[c].pc = "handled" /\ conn'[c].begun = conn[c].begun /\ conn'[c].pc = "decided"
          /\ conn'[c].by = {conn[c].host, part["rules"], part["proxies"]}
      BY <2>3 DEF ReloadInv, ReloadTyped, Reload!ResolveMetadata
    <3>2. conn[c].begun = begun => Settled /\ conn[c].host = part["dns"]
      BY <3>1 DEF ReloadInv, Undisturbed
    <3>3. Settled => part["rules"] = part["dns"] /\ part["proxies"] = part["dns"]
      BY SettledIsWhole, <1>2
    <3>4. conn[c].begun <= begun
      BY DEF ReloadInv, Undisturbed
    <3> QED
      BY <3>1, <3>2, <3>3, <3>4
  <2> QED
    BY <2>1, <2>2, <2>3
<1>5. Undisturbed'
  BY <1>1, <1>4 DEF ReloadInv, Undisturbed, Settled
<1>6. Turns' /\ Gate' /\ OneConfigInForce'
  BY <1>1 DEF ReloadInv, Turns, Gate, OneConfigInForce, Reload!ConfigIsWhole, Exchanged
<1> QED
  BY <1>3, <1>5, <1>6 DEF ReloadInv

LEMMA ReloadStep == ReloadInv /\ [TrafficNext]_allVars => ReloadInv'
<1> SUFFICES ASSUME ReloadInv, [TrafficNext]_allVars PROVE ReloadInv'
  OBVIOUS
<1>1. Reload!Next \/ UNCHANGED reloadVars
  BY DEF TrafficNext, allVars, reloadVars, T, U, M, Q, R, Reload!Next
<1>2. CASE UNCHANGED reloadVars
  BY <1>2 DEF reloadVars, ReloadInv, ReloadTyped, Turns, Gate, OneConfigInForce,
     Reload!ConfigIsWhole, Exchanged,
     Undisturbed, Settled
<1>3. CASE Reload!Next
  BY <1>3, ParseStep, LockAndSuspendStep, ExchangeStep, InnerLoadingStep, RunningStep, PatchStep,
     DecideStep
     DEF Reload!Next, Reload!ApplyConfig
<1> QED
  BY <1>1, <1>2, <1>3

(* Between two applications the proxies, the rules, the DNS and the listed  *)
(* inbounds are of one configuration, though not the ports; and no          *)
(* connection is decided by parts of two, unless a reload began after it    *)
(* had been accepted (ApplyConfig, OnSuspend, isHandle): the safety of      *)
(* ReloadIsSound, for any number of requests, patches and connections.      *)
THEOREM OneConfig == TrafficSpec => [](Reload!ConfigIsWhole /\ Reload!DecidedByOneConfig)
<1>1. ReloadInv => Reload!ConfigIsWhole /\ Reload!DecidedByOneConfig
  <2>1. \A x : Reload!Cardinality({x}) = 1
    BY FS_Singleton, CardinalityHere
  <2>2. SUFFICES ASSUME ReloadInv PROVE Reload!ConfigIsWhole /\ Reload!DecidedByOneConfig
    OBVIOUS
  <2>3. Reload!ConfigIsWhole
    BY <2>2 DEF ReloadInv, OneConfigInForce
  <2>4. ASSUME NEW c \in DOMAIN conn, conn[c].pc = "decided", conn[c].begun = begun
        PROVE  Reload!Cardinality(conn[c].by) = 1
    <3>1. \E x : conn[c].by = {x}
      BY <2>2, <2>4 DEF ReloadInv, ReloadTyped, Undisturbed
    <3> QED
      BY <2>1, <3>1
  <2> QED
    BY <2>3, <2>4 DEF Reload!DecidedByOneConfig
<1>2. TrafficInit => ReloadInv
  BY ReloadInit DEF TrafficInit
<1>3. ReloadInv /\ [TrafficNext]_allVars => ReloadInv'
  BY ReloadStep
<1> QED
  BY <1>1, <1>2, <1>3, PTL DEF TrafficSpec

-----------------------------------------------------------------------------
(* ---- QuicSniff: the pieces of a hello. ---------------------------------*)
LEMMA LeastOf ==
  ASSUME NEW S \in SUBSET Nat, S # {}
  PROVE  \E x \in S : \A y \in S : x <= y
<1>1. PICK x \in S : \A y \in S : ~ (<<y, x>> \in OpToRel(<, Nat))
  BY NatLessThanWellFounded, WFMin, Zenon
<1>2. \A y \in S : x <= y
  <2> TAKE y \in S
  <2>1. x \in Nat /\ y \in Nat
    OBVIOUS
  <2>2. ~(y < x)
    <3> SUFFICES ASSUME y < x PROVE FALSE
      OBVIOUS
    <3>1. <<y, x>> \in Nat \X Nat /\ <<y, x>>[1] < <<y, x>>[2]
      BY <2>1
    <3> QED
      BY <1>1, <3>1, Zenon DEF OpToRel
  <2> QED
    BY <2>1, <2>2
<1> QED
  BY <1>2

(* The longest runs of a set of offsets.                                    *)
Runs(V) ==
    {r \in V \X V : /\ r[1] <= r[2] /\ r[1] .. r[2] \subseteq V
                    /\ r[1] - 1 \notin V /\ r[2] + 1 \notin V}

LEMMA MergeIs == \A rs : Quic!Merge(rs) = Runs(Quic!Filled(rs))
BY DEF Quic!Merge, Runs

(* Every offset is in a run.                                                *)
LEMMA RunAround ==
  ASSUME NEW n \in Nat, NEW V \in SUBSET (0 .. n), NEW i \in V
  PROVE  \E r \in Runs(V) : i \in r[1] .. r[2]
<1> DEFINE A == {a \in 0 .. i : a .. i \subseteq V}
           B == {m \in 0 .. n : n - m >= i /\ i .. n - m \subseteq V}
<1>1. A \in SUBSET Nat /\ i \in A
  OBVIOUS
<1>2. B \in SUBSET Nat /\ n - i \in B
  OBVIOUS
<1>3. PICK a \in A : \A y \in A : a <= y
  <2> HIDE DEF A
  <2> QED
    BY <1>1, LeastOf
<1>4. PICK m \in B : \A y \in B : m <= y
  <2> HIDE DEF B
  <2> QED
    BY <1>2, LeastOf
<1>5. a \in 0 .. i /\ a .. i \subseteq V /\ a - 1 \notin V
  <2>1. ASSUME a - 1 \in V PROVE FALSE
    <3>1. a - 1 \in 0 .. i /\ a - 1 .. i \subseteq V
      BY <2>1, <1>3
    <3> QED
      BY <1>3, <3>1
  <2> QED
    BY <2>1, <1>3
<1>6. m \in 0 .. n /\ n - m >= i /\ i .. n - m \subseteq V /\ n - m + 1 \notin V
  <2>1. ASSUME n - m + 1 \in V PROVE FALSE
    <3>1. m - 1 \in 0 .. n /\ n - (m - 1) >= i
      BY <2>1, <1>4
    <3>2. i .. n - (m - 1) \subseteq V
      BY <2>1, <1>4
    <3> QED
      BY <1>4, <3>1, <3>2
  <2> QED
    BY <2>1, <1>4
<1>7. a .. n - m \subseteq V /\ a \in V /\ n - m \in V /\ a <= n - m /\ i \in a .. n - m
  BY <1>5, <1>6
<1>8. <<a, n - m>> \in Runs(V)
  BY <1>5, <1>6, <1>7 DEF Runs
<1> QED
  BY <1>7, <1>8

(* Merging changes the ranges, not what they fill.                          *)
LEMMA FilledMerge ==
  ASSUME NEW n \in Nat, NEW rs, Quic!Filled(rs) \subseteq 0 .. n
  PROVE  Quic!Filled(Quic!Merge(rs)) = Quic!Filled(rs)
<1> DEFINE V == Quic!Filled(rs)
<1>1. \A i \in V : \E r \in Runs(V) : i \in r[1] .. r[2]
  BY RunAround
<1>2. \A r \in Runs(V) : r[1] .. r[2] \subseteq V
  BY DEF Runs
<1>3. Quic!Filled(Runs(V)) = V
  <2> HIDE DEF V
  <2> QED
    BY <1>1, <1>2 DEF Quic!Filled
<1> QED
  BY <1>3, MergeIs

(* When every offset is filled there is one range.                          *)
LEMMA AllFilled ==
  ASSUME NEW n \in Nat
  PROVE  Runs(0 .. n) = {<<0, n>>}
<1>1. <<0, n>> \in Runs(0 .. n)
  BY DEF Runs
<1>2. ASSUME NEW r \in Runs(0 .. n) PROVE r = <<0, n>>
  <2>1. r \in (0 .. n) \X (0 .. n) /\ r[1] - 1 \notin 0 .. n /\ r[2] + 1 \notin 0 .. n
    BY DEF Runs
  <2>2. r = <<r[1], r[2]>> /\ r[1] \in 0 .. n /\ r[2] \in 0 .. n
    BY <2>1
  <2>3. r[1] = 0 /\ r[2] = n
    BY <2>1, <2>2
  <2> QED
    BY <2>2, <2>3
<1> QED
  BY <1>1, <1>2

(* What has come is filled to its end, by ranges that have been merged.     *)
PiecesInv ==
    /\ have \subseteq Quic!Offsets /\ len \in 0 .. Hello
    /\ Quic!Filled(ranges) \subseteq 0 .. len
    /\ ranges = Quic!Merge(ranges)
    /\ \A i \in have : i \in Quic!Filled(ranges) /\ i + 1 \in Quic!Filled(ranges)
    /\ closed => have = {}

(* Who may still change the name once somebody waits for it no more.        *)
WaitInv ==
    /\ sender = "idle" => have # Quic!Offsets
    /\ closed /\ waiter = "waiting" => sender = "idle"
    /\ host # Quic!Nil => host = result /\ closed /\ sender = "idle" /\ waiter = "done"

QuicInv == PiecesInv /\ WaitInv

LEMMA NothingFilled == Quic!Filled({}) = {} /\ Quic!Merge({}) = {}
BY DEF Quic!Filled, Quic!Merge

LEMMA HelloIs == Hello \in Nat /\ Hello > 4 /\ Quic!Offsets # {} /\ Quic!Offsets = 0 .. Hello - 1
BY HelloAssumption DEF Quic!Whole, Quic!HeaderLen, Quic!Offsets

LEMMA PiecesClosed ==
  ASSUME Quic!CloseLocked
  PROVE  PiecesInv' /\ have' # Quic!Offsets
BY NothingFilled, HelloIs DEF Quic!CloseLocked, PiecesInv

(* Once all of it is there nothing keeps the assembly from its end.         *)
LEMMA AllIsThere ==
  ASSUME PiecesInv, have = Quic!Offsets
  PROVE  Quic!Complete /\ Quic!TooShort = {FALSE}
<1>1. 0 .. Hello - 1 \subseteq Quic!Filled(ranges) /\ Hello \in Quic!Filled(ranges)
  <2>1. Hello - 1 \in have /\ Hello - 1 + 1 = Hello
    BY HelloIs
  <2> QED
    BY <2>1, HelloIs DEF PiecesInv
<1>2. len = Hello
  BY <1>1, HelloIs DEF PiecesInv
<1>3. Quic!Filled(ranges) = 0 .. Hello
  <2>1. \A i \in 0 .. Hello : i \in 0 .. Hello - 1 \/ i = Hello
    BY HelloIs
  <2>2. Quic!Filled(ranges) \subseteq 0 .. Hello
    BY <1>2 DEF PiecesInv
  <2> QED
    BY <1>1, <2>1, <2>2
<1>4. ranges = {<<0, len>>}
  BY <1>2, <1>3, MergeIs, AllFilled, HelloIs DEF PiecesInv
<1>5. {2, 3} \subseteq have
  BY HelloIs
<1>6. (len <= Quic!HeaderLen \/ len # Hello) = FALSE
  BY <1>2, HelloIs DEF Quic!HeaderLen
<1>7. Quic!TooShort = {FALSE}
  BY <1>5, <1>6 DEF Quic!TooShort
<1> QED
  BY <1>4, <1>7 DEF Quic!Complete

LEMMA CryptoStep ==
  ASSUME QuicInv, NEW offset \in 0 .. Hello, NEW end \in 0 .. Hello, offset < end,
         Quic!Crypto(offset, end)
  PROVE  QuicInv'
<1> DEFINE rs == ranges \cup {<<offset, end>>}
<1>1. /\ ranges' = Quic!Merge(rs) /\ have' = have \cup (offset .. end - 1)
      /\ len' = (IF end > len THEN end ELSE len)
      /\ closed' = closed /\ ~closed
  BY DEF Quic!Crypto
<1>2. Quic!Filled(rs) = Quic!Filled(ranges) \cup (offset .. end)
  <2>1. \A S, x : x \in Quic!Filled(S) <=> \E q \in S : x \in q[1] .. q[2]
    BY DEF Quic!Filled
  <2>2. \A q : q \in rs <=> q \in ranges \/ q = <<offset, end>>
    OBVIOUS
  <2>3. ASSUME NEW x PROVE x \in Quic!Filled(rs) <=> x \in Quic!Filled(ranges) \/ x \in offset .. end
    <3>1. <<offset, end>>[1] = offset /\ <<offset, end>>[2] = end
      OBVIOUS
    <3>2. x \in Quic!Filled(rs) <=> \E q \in rs : x \in q[1] .. q[2]
      BY <2>1
    <3>3. x \in Quic!Filled(ranges) <=> \E q \in ranges : x \in q[1] .. q[2]
      BY <2>1
    <3> HIDE DEF rs
    <3>4. (\E q \in rs : x \in q[1] .. q[2])
            <=> (\E q \in ranges : x \in q[1] .. q[2]) \/ x \in <<offset, end>>[1] .. <<offset, end>>[2]
      BY <2>2
    <3> QED
      BY <3>1, <3>2, <3>3, <3>4
  <2> HIDE DEF rs
  <2> QED
    BY <2>3
<1>3. have' \subseteq Quic!Offsets /\ len' \in 0 .. Hello
  BY <1>1, HelloIs DEF QuicInv, PiecesInv
<1>4. Quic!Filled(rs) \subseteq 0 .. len'
  <2>1. Quic!Filled(ranges) \subseteq 0 .. len /\ len \in 0 .. Hello
    BY DEF QuicInv, PiecesInv
  <2>2. len \in Int /\ end \in Int /\ offset \in Nat /\ len' \in Int /\ len <= len' /\ end <= len'
    BY <1>1, <2>1, HelloIs
  <2>3. 0 .. len \subseteq 0 .. len' /\ offset .. end \subseteq 0 .. len'
    BY <2>2
  <2> HIDE DEF rs
  <2> QED
    BY <1>2, <2>1, <2>3
<1>5. Quic!Filled(ranges') = Quic!Filled(rs)
  <2> HIDE DEF rs
  <2> QED
    BY <1>1, <1>3, <1>4, FilledMerge, HelloIs
<1>6. ranges' = Quic!Merge(ranges')
  <2> HIDE DEF rs
  <2> QED
    BY <1>1, <1>5, MergeIs
<1>7. \A i \in have' : i \in Quic!Filled(rs) /\ i + 1 \in Quic!Filled(rs)
  <2>1. \A i \in offset .. end - 1 : i \in offset .. end /\ i + 1 \in offset .. end
    OBVIOUS
  <2>2. \A i \in have : i \in Quic!Filled(ranges) /\ i + 1 \in Quic!Filled(ranges)
    BY DEF QuicInv, PiecesInv
  <2> HIDE DEF rs
  <2> QED
    BY <1>1, <1>2, <2>1, <2>2
<1>8. PiecesInv'
  <2> HIDE DEF rs
  <2> QED
    BY <1>1, <1>3, <1>4, <1>5, <1>6, <1>7 DEF PiecesInv, Quic!Offsets, Quic!Filled, Quic!Merge
<1>9. WaitInv'
  BY DEF Quic!Crypto, QuicInv, WaitInv
<1> QED
  BY <1>8, <1>9 DEF QuicInv

LEMMA QuicStep == QuicInv /\ [TrafficNext]_allVars => QuicInv'
<1> SUFFICES ASSUME QuicInv, [TrafficNext]_allVars PROVE QuicInv'
  OBVIOUS
<1>1. CASE UNCHANGED quicVars
  BY <1>1 DEF quicVars, QuicInv, PiecesInv, WaitInv
<1>2. CASE Quic!Send
  BY <1>2 DEF Quic!Send, QuicInv, PiecesInv, WaitInv
<1>3. CASE Quic!Refuse
  BY <1>3, PiecesClosed DEF Quic!Refuse, Quic!CloseLocked, QuicInv, WaitInv
<1>4. CASE Quic!Abandon
  BY <1>4, HelloIs DEF Quic!Abandon, QuicInv, PiecesInv, WaitInv
<1>5. CASE Quic!TryAssemble
  <2>1. CASE (closed \/ ~Quic!Complete \/ TRUE \in Quic!TooShort)
             /\ sender' = "idle" /\ UNCHANGED <<ranges, len, have, result, closed>>
    <3>1. have # Quic!Offsets
      BY <2>1, AllIsThere, HelloIs DEF QuicInv, PiecesInv
    <3> QED
      BY <1>5, <2>1, <3>1 DEF Quic!TryAssemble, QuicInv, PiecesInv, WaitInv
  <2>2. CASE sender' = "idle" /\ Quic!CloseLocked /\ UNCHANGED result
    BY <1>5, <2>2, PiecesClosed DEF Quic!TryAssemble, Quic!CloseLocked, QuicInv, WaitInv
  <2>3. CASE sender' \in Quic!ReadClientHello /\ ~closed
             /\ UNCHANGED <<ranges, len, have, result, closed>>
    BY <1>5, <2>3 DEF Quic!TryAssemble, Quic!ReadClientHello, QuicInv, PiecesInv, WaitInv
  <2> QED
    BY <1>5, <2>1, <2>2, <2>3 DEF Quic!TryAssemble
<1>6. CASE Quic!Assembled
  BY <1>6, PiecesClosed DEF Quic!Assembled, Quic!CloseLocked, QuicInv, WaitInv
<1>7. ASSUME NEW offset \in 0 .. Hello, NEW end \in 0 .. Hello, offset < end,
             Quic!Crypto(offset, end)
      PROVE  QuicInv'
  BY <1>7, CryptoStep
<1>8. CASE Quic!DoSniff
  BY <1>8 DEF Quic!DoSniff, QuicInv, PiecesInv, WaitInv
<1>9. CASE Quic!Expire
  BY <1>9, PiecesClosed DEF Quic!Expire, Quic!CloseLocked, QuicInv, WaitInv
<1>10. CASE Quic!Close
  BY <1>10, PiecesClosed DEF Quic!Close, Quic!CloseLocked, QuicInv, WaitInv
<1> QED
  BY <1>1, <1>2, <1>3, <1>4, <1>5, <1>6, <1>7, <1>8, <1>9, <1>10
     DEF TrafficNext, allVars, T, U, M, Q, R

(* However a client cuts its ClientHello into frames, in whatever order and *)
(* however often they come: once all of it is there and the packet has been *)
(* read the wait is over, and only what was read gets into the metadata     *)
(* (readQuicData, Merge, tryAssemble); for a hello of any length.           *)
THEOREM FragmentsCount == TrafficSpec => []EveryFragmentCounts
<1>1. TrafficInit => QuicInv
  BY NothingFilled, HelloIs
     DEF TrafficInit, Quic!Init, QuicInv, PiecesInv, WaitInv
<1>2. QuicInv /\ [TrafficNext]_allVars => QuicInv'
  BY QuicStep
<1>3. QuicInv => EveryFragmentCounts
  BY DEF QuicInv, WaitInv, EveryFragmentCounts, Quic!EveryFragmentCounts
<1> QED
  BY <1>1, <1>2, <1>3, PTL DEF TrafficSpec
=============================================================================
