------------------------------ MODULE MCTraffic ------------------------------
(***************************************************************************)
(* What carries the traffic and must go on: a TCP connection, the UDP      *)
(* relay, the sniffer it waits for, the map that holds its tables, and the *)
(* reloads and patches that exchange what connections are decided by.      *)
(* Each behaviour is about one part, the subject; the others stay as they  *)
(* are.                                                                    *)
(***************************************************************************)
EXTENDS TcpConn, FiniteSets

CONSTANTS
    Origin, Address, Targets, MaxSessions, QueueCapacity, SenderCapacity,
    Threads, Keys, Values, Absent, MinLen, Entries, ShrinkFraction, Functions, MaxCalls,
    Hello, MaxFrames,
    Puts, Patches, Conns, InnerConns

(* Three packets of one source to two destinations, the second a domain. *)
MCOrigin == <<1, 2, 1>>
MCAddress == <<3, 0>>

(* UdpNat writes 0 for an address that is not known.                        *)
ASSUME NatAssumption ==
    /\ MaxSessions \in Nat
    /\ Origin \in Seq(Nat \ {0})
    /\ \A p \in 1 .. Len(Origin) : Address[Origin[p]] \in Nat
    /\ Targets \subseteq Nat \ {0}

VARIABLES
    subject,
    arrived, queue, worker, made, nat, sess, dropped, written,
    tables, cur, resizing, th, abs, held, calls,
    ranges, len, have, result, closed, sender, read, waiter, host,
    status, mux, part, ports, general, applied, begun, req, conn
natVars == <<arrived, queue, worker, made, nat, sess, dropped, written>>
mapVars == <<tables, cur, resizing, th, abs, held, calls>>
quicVars == <<ranges, len, have, result, closed, sender, read, waiter, host>>
reloadVars == <<status, mux, part, ports, general, applied, begun, req, conn>>
allVars == <<subject, vars, natVars, mapVars, quicVars, reloadVars>>

Nat0 == INSTANCE UdpNat
XMap == INSTANCE ConcurrentMap
Quic == INSTANCE QuicSniff
Reload == INSTANCE ConfigReload

ASSUME ReloadAssumption == Reload!Numbered
ASSUME HelloAssumption == Quic!Whole
ASSUME MergeAssumption == Quic!ListsAgree

TrafficInit ==
    /\ subject \in {"udp", "map", "quic", "reload", "tcp"}
    /\ Init /\ (subject # "tcp" => sent = 0 /\ peeker = "over")
    /\ Nat0!Init /\ XMap!Init /\ Quic!Init /\ Reload!Init

U(A) == subject = "udp" /\ A /\ UNCHANGED <<subject, vars, mapVars, quicVars, reloadVars>>
M(A) == subject = "map" /\ A /\ UNCHANGED <<subject, vars, natVars, quicVars, reloadVars>>
Q(A) == subject = "quic" /\ A /\ UNCHANGED <<subject, vars, natVars, mapVars, reloadVars>>
T(A) == subject = "tcp" /\ A /\ UNCHANGED <<subject, natVars, mapVars, quicVars, reloadVars>>
R(A) == subject = "reload" /\ A /\ UNCHANGED <<subject, vars, natVars, mapVars, quicVars>>

TrafficNext ==
    \/ T(Next)
    \/ U(Nat0!HandleUDPPacket) \/ U(Nat0!Worker)
    \/ \E s \in 1 .. MaxSessions : U(Nat0!Sender(s)) \/ U(Nat0!RelayEnds(s))
    \/ \E t \in Threads :
         \/ \E fn \in Functions, k \in Keys, v \in Values : M(XMap!Call(t, fn, k, v))
         \/ M(XMap!Step(t))
    \/ Q(Quic!Send) \/ Q(Quic!Refuse) \/ Q(Quic!Abandon) \/ Q(Quic!TryAssemble) \/ Q(Quic!Assembled)
    \/ \E offset, end \in 0 .. Hello : offset < end /\ Q(Quic!Crypto(offset, end))
    \/ Q(Quic!DoSniff) \/ Q(Quic!Expire) \/ Q(Quic!Close)
    \/ \E r \in Puts : R(Reload!Parse(r)) \/ R(Reload!ApplyConfig(r))
    \/ \E r \in Patches : R(Reload!PatchConfigs(r))
    \/ \E c \in Conns \cup InnerConns :
         R(Reload!Accept(c)) \/ R(Reload!PreHandleMetadata(c)) \/ R(Reload!ResolveMetadata(c))

(* The fairness of each part, for its own subject: goroutines run, dials    *)
(* end within their timeout and time passes; nobody has to send or hang up. *)
TrafficSpec ==
    /\ TrafficInit /\ [][TrafficNext]_allVars
    /\ WF_allVars(T(DeadlinePasses)) /\ WF_allVars(T(PeekerNext)) /\ WF_allVars(T(HandlerNext))
    /\ WF_allVars(U(Nat0!Worker))
    /\ \A s \in 1 .. MaxSessions : WF_allVars(U(Nat0!Sender(s))) /\ WF_allVars(U(Nat0!RelayEnds(s)))
    /\ \A t \in Threads :
         WF_allVars(M(XMap!Step(t))) /\ SF_allVars(M(XMap!Lock(t))) /\ SF_allVars(M(XMap!CopyBucket(t)))
    /\ \A r \in Puts : WF_allVars(R(Reload!ApplyConfig(r)))

(* A source has one socket at a time, and every packet of it goes out in    *)
(* its turn or is given back, but for one put into the emptied channel of a *)
(* session that has just ended.                                             *)
PacketsInOrder == Nat0!PacketsInOrder

(* What goes to one origin goes to one target, whose answers keep coming    *)
(* from one address; only when nothing but domains had been sent there do   *)
(* they take that of the first origin that has one.                         *)
AnswersKeepOrigin == Nat0!AnswersKeepOrigin

(* A source that falls silent leaves the table, however its session ended.  *)
SourceForgotten == Nat0!SourceForgotten

(* A ClientHello that has arrived in pieces, whatever the pieces and their  *)
(* order, ends the wait of the sniffer; nothing else gets into the metadata.*)
EveryFragmentCounts == Quic!EveryFragmentCounts

(* Every call of the map returns: retries end, and nobody waits for a resize*)
(* that is over.                                                            *)
CallsReturn == XMap!CallsReturn

(* A connection that has been accepted is relayed or given up, also when    *)
(* its client waits for the server to speak first.                          *)
Connects == subject = "tcp" => ServerMaySpeakFirst

(* A connection is decided by parts of one configuration, unless a reload   *)
(* began after it had been accepted; and a reload never leaves the tunnel   *)
(* suspended, also when providers fail.                                     *)
ReloadIsSound == []Reload!DecidedByOneConfig /\ Reload!RunsAgain
=============================================================================
