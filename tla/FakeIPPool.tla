------------------------------ MODULE FakeIPPool ------------------------------
(***************************************************************************)
(* component/fakeip: pool.go over the in-memory store memory.go.  The pool *)
(* gives every host name an address of a ring and finds the host of an     *)
(* address again, with two bounded caches that must mirror each other.     *)
(*                                                                         *)
(* Lookup and LookBack hold the mutex of the pool and are a sequence of    *)
(* steps on the caches.  FlushFakeIP (the REST API) and CloneFrom (a       *)
(* reload of the configuration) do NOT take that mutex.  With Overlap they *)
(* run between the steps of a call; without, they wait for it to return.   *)
(* One flush or one reload at a time.                                      *)
(***************************************************************************)
EXTENDS LruCache

CONSTANTS
    Hosts, NoHost,  \* names, and none
    first, last,    \* the ring is first .. last - 1
    Size,           \* entries in a cache (1000)
    Overlap         \* do flush and clone overlap with calls?

ASSUME HostsAssumption == NoHost \notin Hosts
ASSUME RingAssumption == first \in Nat /\ last \in Nat /\ first < last /\ first >= 2
ASSUME SizeAssumption == Size \in Nat \ {0} /\ Overlap \in BOOLEAN

VARIABLES
    cacheIP,    \* host -> address
    cacheHost,  \* address -> host
    offset,     \* the address given last
    cycle,      \* the ring was used up once
    op,         \* the call that holds the mutex, and how far it is
    flush,      \* how far FlushFakeIP is
    clone,      \* the caches of the new pool, as far as they are cloned
    answer      \* what the last call returned

vars == <<cacheIP, cacheHost, offset, cycle, op, flush, clone, answer>>
fields == <<offset, cycle>>
others == <<flush, clone>>

Addresses == first - 1 .. last - 1      \* with the offset of an empty pool
NoAddress == 0

NoOp == [at |-> "none", host |-> NoHost, old |-> NoHost, ip |-> NoAddress]
NoClone == [at |-> "none", ips |-> <<>>, hosts |-> <<>>]
NoAnswer == [call |-> "none"]

IPEntry == [key : Hosts, value : Addresses]
HostEntry == [key : Addresses, value : Hosts]
IPCache == Seq(IPEntry)
HostCache == Seq(HostEntry)
Steps == {"none", "hit", "next", "delete", "deleteHost", "deleteIP", "putIP", "putHost", "back"}

(* Type invariant: in particular no cache outgrows its size and the offset   *)
(* never leaves the ring.                                                   *)
TypeOK ==
    /\ cacheIP \in IPCache /\ Len(cacheIP) <= Size
    /\ cacheHost \in HostCache /\ Len(cacheHost) <= Size
    /\ offset \in Addresses
    /\ cycle \in BOOLEAN
    /\ op \in [at : Steps, host : Hosts \cup {NoHost}, old : Hosts \cup {NoHost},
               ip : Addresses \cup {NoAddress}]
    /\ flush \in {"none", "hosts", "fields"}
    /\ clone \in [at : {"none", "hosts", "switch"}, ips : IPCache, hosts : HostCache]
    /\ Len(clone.ips) <= Size /\ Len(clone.hosts) <= Size

Init ==
    /\ cacheIP = <<>> /\ cacheHost = <<>>
    /\ offset = first - 1 /\ cycle = FALSE
    /\ op = NoOp
    /\ flush = "none" /\ clone = NoClone
    /\ answer = NoAnswer

(* A call takes the mutex of the pool. *)
Calm == flush = "none" /\ clone = NoClone
Enter == op = NoOp /\ (Overlap \/ Calm)

Return(call, h, a) ==
    /\ op' = NoOp
    /\ answer' = [call |-> call, host |-> h, ip |-> a]

-----------------------------------------------------------------------------
(* Lookup: GetByHost, and when the host has no address, get and PutByHost   *)

Lookup(h) ==
    /\ Enter
    /\ cacheIP' = Get(cacheIP, h)
    /\ op' = IF h \in Keys(cacheIP)
               THEN [NoOp EXCEPT !.at = "hit", !.host = h, !.ip = Value(cacheIP, h)]
               ELSE [NoOp EXCEPT !.at = "next", !.host = h]
    /\ UNCHANGED <<cacheHost, fields, others, answer>>

Hit ==
    /\ op.at = "hit"
    /\ cacheHost' = Get(cacheHost, op.ip)
    /\ Return("Lookup", op.host, op.ip)
    /\ UNCHANGED <<cacheIP, fields, others>>

NextOffset ==
    /\ op.at = "next"
    /\ offset' = IF offset + 1 < last THEN offset + 1 ELSE first
    /\ cycle' = (cycle \/ offset + 1 >= last)
    /\ op' = [op EXCEPT !.at = IF cycle' \/ offset' \in Keys(cacheHost)
                                 THEN "delete" ELSE "putIP"]
    /\ UNCHANGED <<cacheIP, cacheHost, others, answer>>

(* DelByIP, in three steps. *)
DelByIP ==
    /\ op.at = "delete"
    /\ cacheHost' = Get(cacheHost, offset)
    /\ op' = IF offset \in Keys(cacheHost)
               THEN [op EXCEPT !.at = "deleteHost", !.ip = offset,
                               !.old = Value(cacheHost, offset)]
               ELSE [op EXCEPT !.at = "deleteIP", !.ip = offset]
    /\ UNCHANGED <<cacheIP, fields, others, answer>>

(* Mutant: the name that had the address keeps it. *)
KeepOldHost ==
    /\ op.at = "deleteHost"
    /\ op' = [op EXCEPT !.at = "deleteIP", !.old = NoHost]
    /\ UNCHANGED <<cacheIP, cacheHost, fields, others, answer>>

DeleteHost ==
    /\ op.at = "deleteHost"
    /\ cacheIP' = Delete(cacheIP, op.old)
    /\ op' = [op EXCEPT !.at = "deleteIP", !.old = NoHost]
    /\ UNCHANGED <<cacheHost, fields, others, answer>>

DeleteIP ==
    /\ op.at = "deleteIP"
    /\ cacheHost' = Delete(cacheHost, op.ip)
    /\ op' = [op EXCEPT !.at = "putIP", !.ip = NoAddress]
    /\ UNCHANGED <<cacheIP, fields, others, answer>>

(* The offset is read once more here. *)
PutByIP ==
    /\ op.at = "putIP"
    /\ cacheHost' = Set(cacheHost, offset, op.host, Size)
    /\ op' = [op EXCEPT !.at = "putHost", !.ip = offset]
    /\ UNCHANGED <<cacheIP, fields, others, answer>>

PutByHost ==
    /\ op.at = "putHost"
    /\ cacheIP' = Set(cacheIP, op.host, op.ip, Size)
    /\ Return("Lookup", op.host, op.ip)
    /\ UNCHANGED <<cacheHost, fields, others>>

-----------------------------------------------------------------------------
(* LookBack: GetByIP *)

LookBack(a) ==
    /\ Enter
    /\ cacheHost' = Get(cacheHost, a)
    /\ IF a \in Keys(cacheHost)
         THEN /\ op' = [NoOp EXCEPT !.at = "back", !.host = Value(cacheHost, a), !.ip = a]
              /\ UNCHANGED answer
         ELSE Return("LookBack", NoHost, a)
    /\ UNCHANGED <<cacheIP, fields, others>>

(* Mutant: the name is not refreshed together with its address. *)
BackOnly ==
    /\ op.at = "back"
    /\ Return("LookBack", op.host, op.ip)
    /\ UNCHANGED <<cacheIP, cacheHost, fields, others>>

Back ==
    /\ op.at = "back"
    /\ cacheIP' = Get(cacheIP, op.host)
    /\ Return("LookBack", op.host, op.ip)
    /\ UNCHANGED <<cacheHost, fields, others>>

-----------------------------------------------------------------------------
(* FlushFakeIP *)

MayOverlap == Overlap \/ op = NoOp

FlushIP ==
    /\ Calm /\ MayOverlap
    /\ cacheIP' = <<>>
    /\ flush' = "hosts"
    /\ UNCHANGED <<cacheHost, fields, op, clone, answer>>

FlushHost ==
    /\ flush = "hosts"
    /\ cacheHost' = <<>>
    /\ flush' = "fields"
    /\ UNCHANGED <<cacheIP, fields, op, clone, answer>>

FlushFields ==
    /\ flush = "fields"
    /\ offset' = first - 1 /\ cycle' = FALSE
    /\ flush' = "none"
    /\ UNCHANGED <<cacheIP, cacheHost, op, clone, answer>>

-----------------------------------------------------------------------------
(* A reload: PatchFrom clones the caches into a new, empty pool, and then   *)
(* DefaultHostMapper is replaced.  A call still inside the old pool no      *)
(* longer matters.                                                          *)

CloneIP ==
    /\ Calm /\ MayOverlap
    /\ clone' = [clone EXCEPT !.at = "hosts", !.ips = cacheIP]
    /\ UNCHANGED <<cacheIP, cacheHost, fields, op, flush, answer>>

CloneHost ==
    /\ clone.at = "hosts"
    /\ clone' = [clone EXCEPT !.at = "switch", !.hosts = cacheHost]
    /\ UNCHANGED <<cacheIP, cacheHost, fields, op, flush, answer>>

Switch ==
    /\ clone.at = "switch"
    /\ cacheIP' = clone.ips /\ cacheHost' = clone.hosts
    /\ offset' = first - 1 /\ cycle' = FALSE
    /\ op' = NoOp
    /\ clone' = NoClone
    /\ UNCHANGED <<flush, answer>>

-----------------------------------------------------------------------------
Next ==
    \/ \E h \in Hosts : Lookup(h)
    \/ \E a \in Addresses : LookBack(a)
    \/ Hit \/ NextOffset
    \/ DelByIP \/ DeleteHost \/ DeleteIP
    \/ PutByIP \/ PutByHost
    \/ Back
    \/ FlushIP \/ FlushHost \/ FlushFields
    \/ CloneIP \/ CloneHost \/ Switch

Spec == Init /\ [][Next]_vars

-----------------------------------------------------------------------------
(* Properties *)

(* The two caches forget the same pairs although each evicts alone.        *)
CachesMirror == op = NoOp /\ flush = "none" => Mirror(cacheIP, cacheHost)

(* The pool keeps the promise of HostMap: the pairs are those of cacheIP.   *)
PairsOf(c) == {<<c[i].key, c[i].value>> : i \in 1 .. Len(c)}
Pairs == PairsOf(cacheIP)
HM == INSTANCE HostMap WITH map <- Pairs
Promise == HM!Spec

(* "LookBack return host with the fake ip" (pool.go:58): the host that has  *)
(* an address is found again from that address, when no call is under way.  *)
LookBackFinds ==
    op = NoOp /\ flush = "none" =>
      \A i \in 1 .. Len(cacheIP) :
        /\ cacheIP[i].value \in Keys(cacheHost)
        /\ Value(cacheHost, cacheIP[i].value) = cacheIP[i].key
=============================================================================
