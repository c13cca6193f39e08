--------------------------------- MODULE UdpNat ---------------------------------
(***************************************************************************)
(* tunnel: the packets of one UDP source.  They queue for the worker of    *)
(* their key, the first one makes a session (packetSender) in the NAT      *)
(* table, a goroutine dials for it and then sends its packets one by one,  *)
(* another relays the answers until the source has been silent too long.   *)
(* Every packet holds a buffer that Drop() gives back.  The answers        *)
(* themselves, sniffing and the choice of the proxy are left out.          *)
(***************************************************************************)
EXTENDS Integers, Sequences

CONSTANTS
    Origin,           \* per packet, in order of arrival: where it is sent to
    Address,          \* per origin: its DstIP, None when it is a domain
    Targets,          \* addresses an origin may be resolved to
    MaxSessions,      \* bound: sessions made for the source
    QueueCapacity,    \* queueCapacity
    SenderCapacity    \* senderCapacity

Packets == 1 .. Len(Origin)
Origins == {Origin[p] : p \in Packets}
Sessions == 1 .. MaxSessions
None == 0

VARIABLES
    arrived,  \* packets that have arrived
    queue,    \* udpQueues[queueNo]
    worker,   \* processUDP: progress, its packet and the sender it found
    made,     \* sessions made so far
    nat,      \* natTable: the session of the key
    sess,     \* per session: the channel, both goroutines, the NAT mapping
    dropped,  \* packets whose buffer is given back
    written   \* what went out: packet, session, target

vars == <<arrived, queue, worker, made, nat, sess, dropped, written>>

(* proc: the goroutine that dials and sends; relay: the one that receives.  *)
NewPacketSender ==
    [done |-> FALSE, ch |-> <<>>, open |-> FALSE, proc |-> "dial", packet |-> None,
     relay |-> "none", target |-> None,
     originToTarget |-> [o \in Origins |-> None],
     targetToOrigin |-> [t \in Targets |-> None]]

Init ==
    /\ arrived = 0
    /\ queue = <<>>
    /\ worker = [pc |-> "wait", packet |-> None, s |-> None]
    /\ made = 0
    /\ nat = None
    /\ sess = [s \in Sessions |-> NewPacketSender]
    /\ dropped = {}
    /\ written = <<>>

Drop(p) == dropped' = dropped \cup {p}
Keep == UNCHANGED dropped

(* Metadata that is not valid, a fake address nobody gave out, a tunnel     *)
(* that is not running: the worker drops the packet at once.                *)
HandleUDPPacket ==
    /\ arrived < Len(Origin)
    /\ arrived' = arrived + 1
    /\ IF Len(queue) < QueueCapacity
       THEN queue' = Append(queue, arrived + 1) /\ Keep
       ELSE Drop(arrived + 1) /\ UNCHANGED queue
    /\ UNCHANGED <<worker, made, nat, sess, written>>

ProcessUDP ==
    /\ worker.pc = "wait" /\ queue # <<>>
    /\ queue' = Tail(queue)
    /\ \/ worker' = [worker EXCEPT !.pc = "lookup", !.packet = Head(queue)] /\ Keep
       \/ Drop(Head(queue)) /\ UNCHANGED worker
    /\ UNCHANGED <<arrived, made, nat, sess, written>>

GetOrCreate ==
    /\ worker.pc = "lookup"
    /\ IF nat # None THEN worker' = [worker EXCEPT !.pc = "send", !.s = nat]
                       /\ UNCHANGED <<made, nat, sess>>
       ELSE /\ made < MaxSessions
            /\ made' = made + 1
            /\ nat' = made + 1
            /\ worker' = [worker EXCEPT !.pc = "send", !.s = made + 1]
            /\ sess' = [sess EXCEPT ![made + 1].packet = worker.packet]
    /\ UNCHANGED <<arrived, queue, dropped, written>>

(* Send looks at the context, then selects.                                 *)
Send ==
    /\ worker.pc = "send"
    /\ IF sess[worker.s].done
       THEN Drop(worker.packet) /\ worker' = [worker EXCEPT !.pc = "wait"]
       ELSE worker' = [worker EXCEPT !.pc = "put"] /\ Keep
    /\ UNCHANGED <<arrived, queue, made, nat, sess, written>>

Put ==
    /\ worker.pc = "put"
    /\ worker' = [worker EXCEPT !.pc = "wait"]
    /\ LET s == worker.s IN
       \/ /\ Len(sess[s].ch) < SenderCapacity
          /\ sess' = [sess EXCEPT ![s].ch = Append(@, worker.packet)]
          /\ Keep
       \/ /\ sess[s].done \/ Len(sess[s].ch) = SenderCapacity
          /\ Drop(worker.packet)
          /\ UNCHANGED sess
    /\ UNCHANGED <<arrived, queue, made, nat, written>>

-----------------------------------------------------------------------------
(* Mutant: a later origin with the same target takes over its answers. *)
AddMappingLast(e, o, t) ==
    [e EXCEPT !.originToTarget[o] = IF @ = None THEN t ELSE @, !.targetToOrigin[t] = Address[o]]

(* A record is written over only if it is not valid; that of an origin that *)
(* is a domain is not.                                                      *)
AddMapping(e, o, t) ==
    [e EXCEPT !.originToTarget[o] = IF @ = None THEN t ELSE @,
              !.targetToOrigin[t] = IF @ = None THEN Address[o] ELSE @]

(* The address that the answers of a target are given.                      *)
RestoreReadFrom(s, t) ==
    IF sess[s].targetToOrigin[t] # None THEN sess[s].targetToOrigin[t] ELSE t

(* The goroutine of the sender.  It dials, with retries, until the context  *)
(* of the dial ends; the mapping of the first packet is then known.         *)

Dial(s) ==
    /\ s <= made /\ sess[s].proc = "dial"
    /\ \E t \in Targets \cup {None} :
         LET e == [sess[s] EXCEPT !.proc = "select", !.relay = "read", !.open = TRUE] IN
         sess' = [sess EXCEPT ![s] = IF t = None THEN e ELSE AddMapping(e, Origin[e.packet], t)]
    /\ UNCHANGED <<arrived, queue, worker, made, nat, dropped, written>>

(* Close: the context, then the channel until it is found empty.  Send may  *)
(* have seen the context before and still put its packet afterwards.        *)
Cancel(s) == [sess EXCEPT ![s].done = TRUE]
DialFails(s) ==
    /\ s <= made /\ sess[s].proc = "dial"
    /\ sess' = [Cancel(s) EXCEPT ![s].proc = "drain"]
    /\ UNCHANGED <<arrived, queue, worker, made, nat, dropped, written>>

DropAll(s) ==
    /\ "drain" \in {sess[s].proc, sess[s].relay}
    /\ IF sess[s].ch # <<>>
       THEN sess' = [sess EXCEPT ![s].ch = Tail(@)] /\ Drop(Head(sess[s].ch))
       ELSE /\ sess' = IF sess[s].proc = "drain" THEN [sess EXCEPT ![s].proc = "delete"]
                       ELSE [sess EXCEPT ![s].relay = "delete", ![s].open = FALSE]
            /\ Keep
    /\ UNCHANGED <<arrived, queue, worker, made, nat, written>>

(* Mutant: a dial that failed leaves its entry in the table. *)
DeleteUnlessDialFailed(s) ==
    /\ "delete" \in {sess[s].proc, sess[s].relay}
    /\ nat' = IF sess[s].proc = "delete" THEN nat ELSE None
    /\ sess' = IF sess[s].proc = "delete" THEN [sess EXCEPT ![s].proc = "end"]
               ELSE [sess EXCEPT ![s].relay = "end"]
    /\ UNCHANGED <<arrived, queue, worker, made, dropped, written>>

(* The entry of the key is deleted, whichever session it is.                *)
Delete(s) ==
    /\ "delete" \in {sess[s].proc, sess[s].relay}
    /\ nat' = None
    /\ sess' = IF sess[s].proc = "delete" THEN [sess EXCEPT ![s].proc = "end"]
               ELSE [sess EXCEPT ![s].relay = "end"]
    /\ UNCHANGED <<arrived, queue, worker, made, dropped, written>>

-----------------------------------------------------------------------------

(* Process: the select takes either of two channels that are ready.         *)
ProcessDone(s) ==
    /\ sess[s].proc = "select" /\ sess[s].done
    /\ sess' = [sess EXCEPT ![s].proc = "end"]
    /\ UNCHANGED <<arrived, queue, worker, made, nat, dropped, written>>

(* Mutant: the newest packet first. *)
ProcessTakesLast(s) ==
    /\ sess[s].proc = "select" /\ sess[s].ch # <<>>
    /\ sess' = [sess EXCEPT ![s].proc = "packet", ![s].packet = sess[s].ch[Len(sess[s].ch)],
                            ![s].ch = SubSeq(@, 1, Len(@) - 1)]
    /\ UNCHANGED <<arrived, queue, worker, made, nat, dropped, written>>

ProcessTakes(s) ==
    /\ sess[s].proc = "select" /\ sess[s].ch # <<>>
    /\ sess' = [sess EXCEPT ![s].proc = "packet", ![s].packet = Head(sess[s].ch), ![s].ch = Tail(@)]
    /\ UNCHANGED <<arrived, queue, worker, made, nat, dropped, written>>

(* processPacket: an origin without a target is resolved, which may take    *)
(* long or fail; the context ends it too.                                   *)
Resolve(s) ==
    /\ sess[s].proc = "packet"
    /\ LET o == Origin[sess[s].packet]
           known == sess[s].originToTarget[o] IN
       IF known # None
       THEN sess' = [sess EXCEPT ![s].proc = "write", ![s].target = known] /\ Keep
       ELSE \/ /\ \E t \in Targets :
                    sess' = [sess EXCEPT ![s] = [AddMapping(@, o, t) EXCEPT
                                                   !.proc = "write", !.target = t]]
               /\ Keep
            \/ sess' = [sess EXCEPT ![s].proc = "select"] /\ Drop(sess[s].packet)
    /\ UNCHANGED <<arrived, queue, worker, made, nat, written>>

(* handleUDPToRemote and the deferred Drop.  A write may fail.              *)
Write(s) ==
    /\ sess[s].proc = "write"
    /\ sess' = [sess EXCEPT ![s].proc = "select"]
    /\ Drop(sess[s].packet)
    /\ \/ UNCHANGED written
       \/ /\ sess[s].open
          /\ written' = Append(written, [packet |-> sess[s].packet, s |-> s, target |-> sess[s].target])
    /\ UNCHANGED <<arrived, queue, worker, made, nat>>

(* handleUDPToLocal: no answer within udpTimeout, or writing one back fails.*)
RelayEnds(s) ==
    /\ sess[s].relay = "read"
    /\ sess' = [Cancel(s) EXCEPT ![s].relay = "drain"]
    /\ UNCHANGED <<arrived, queue, worker, made, nat, dropped, written>>

Sender(s) ==
    \/ Dial(s) \/ DialFails(s) \/ DropAll(s) \/ Delete(s)
    \/ ProcessDone(s) \/ ProcessTakes(s) \/ Resolve(s) \/ Write(s)

Worker == ProcessUDP \/ GetOrCreate \/ Send \/ Put

Next == HandleUDPPacket \/ Worker \/ \E s \in Sessions : Sender(s) \/ RelayEnds(s)

(* The dial has a timeout and the remote falls silent in the end.           *)
Fairness ==
    /\ WF_vars(Worker)
    /\ \A s \in Sessions : WF_vars(Sender(s)) /\ WF_vars(RelayEnds(s))

Spec == Init /\ [][Next]_vars /\ Fairness

-----------------------------------------------------------------------------
Ended(s) == sess[s].done /\ sess[s].proc = "end" /\ sess[s].relay \in {"none", "end"}

(* A session that dials or relays is the one in the table: the Delete(key)  *)
(* of one session never removes the next, so that a source never has two    *)
(* sockets.                                                                 *)
OneSocketPerSource ==
    \A s \in Sessions :
        s <= made /\ (sess[s].proc = "dial" \/ sess[s].relay = "read") => nat = s

(* No buffer is kept or given back early: a packet that has not been dropped*)
(* waits in a queue or is in the hands of one of the goroutines.            *)
BufferAccounted ==
    \A p \in 1 .. arrived :
        p \in dropped <=>
            ~ \/ \E i \in DOMAIN queue : queue[i] = p
              \/ worker.pc # "wait" /\ worker.packet = p
              \/ \E s \in Sessions :
                   \/ \E i \in DOMAIN sess[s].ch : sess[s].ch[i] = p
                   \/ sess[s].proc \in {"packet", "write"} /\ sess[s].packet = p

(* The exception: what Send's second select puts after Close has emptied the*)
(* channel (connection.go:137-141) nobody sends or gives back, unless       *)
(* Process still happens to take it.  A session loses one packet so at most,*)
(* that of a Send which had seen the context before it ended.               *)
Drained(s) ==
    \/ sess[s].relay \in {"delete", "end"}
    \/ sess[s].relay = "none" /\ sess[s].proc \in {"delete", "end"}
Putting(s) == worker.pc = "put" /\ worker.s = s
OneIsLost ==
    \A s \in Sessions :
        Drained(s) => Len(sess[s].ch) <= 1 /\ (Putting(s) => sess[s].ch = <<>>)

(* connection.go:28 "packets can be sent sequentially": they leave in the   *)
(* order in which they came, also across two sessions of the source.        *)
SentInOrder ==
    \A i, j \in DOMAIN written : i < j => written[i].packet < written[j].packet

(* A source has one socket at a time, and every packet of it goes out in    *)
(* its turn or is given back, but for one that a Send puts into the emptied *)
(* channel of a session that has just ended.                                *)
PacketsInOrder == OneSocketPerSource /\ BufferAccounted /\ OneIsLost /\ SentInOrder

(* What went to the target so far were domains.                             *)
OnlyDomains(s, t) ==
    \A o \in Origins : sess[s].originToTarget[o] = t => Address[o] = None

(* While a session lasts, what goes to one origin goes to one target, also  *)
(* when resolving it again would say something else, and that target's      *)
(* answers come back from an origin that is mapped to it, or from the target*)
(* itself while only domains are.                                           *)
FlowKeepsTarget ==
    /\ \A i, j \in DOMAIN written :
         written[i].s = written[j].s /\ Origin[written[i].packet] = Origin[written[j].packet]
            => written[i].target = written[j].target
    /\ \A i \in DOMAIN written :
         LET s == written[i].s
             t == written[i].target IN
         \/ \E o \in Origins : /\ sess[s].originToTarget[o] = t
                               /\ Address[o] # None /\ RestoreReadFrom(s, t) = Address[o]
         \/ OnlyDomains(s, t) /\ RestoreReadFrom(s, t) = t

(* The answers of a target never change the address they seem to come from, *)
(* with one exception: those of a target to which only domains were sent,   *)
(* when an origin with an address turns out to be there too (line 51 writes *)
(* over the record of a domain, which is not valid).                        *)
AnswersKeepOrigin ==
    []FlowKeepsTarget /\ [][\A s \in Sessions, t \in Targets :
         RestoreReadFrom(s, t)' # RestoreReadFrom(s, t) => OnlyDomains(s, t)]_vars

(* A source that falls silent leaves the table, however its session ended.  *)
SourceForgotten == []<>(nat = None)
=============================================================================
