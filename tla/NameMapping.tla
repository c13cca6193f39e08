----------------------------- MODULE NameMapping -----------------------------
(***************************************************************************)
(* From a question to the connection that follows it: the handlers of the  *)
(* DNS service answer with a fake address or a real one and remember what  *)
(* they answered; when an application connects to the address, the tunnel  *)
(* finds the name again.  Between the two, entries are evicted or expire,  *)
(* the pools are flushed, and a reload makes another enhancer of the old:  *)
(* it clones what the old one has, and later puts the new one in force.    *)
(*                                                                         *)
(* A query keeps the handler it was asked of, and with it the enhancer: one *)
(* that waits for the resolver records its answer with an enhancer that may *)
(* have been cloned, or replaced, since.  A handler that has served may     *)
(* have such queries for every name at every later time.                   *)
(*                                                                         *)
(* The pools do what HostMap promises; FakeIPPool has their steps.         *)
(***************************************************************************)
EXTENDS Integers, FiniteSets

CONSTANTS
    Names, NoName,
    Skipped,       \* names of the fake-ip filter
    Shared,        \* real addresses, shared by the names
    Ranges,        \* IPv4 ranges of fake addresses that configurations use
    Width,         \* addresses of a range
    MaxReloads     \* bound

Fake4 == {"fake4"} \X Ranges \X (1 .. Width)
Fake6 == {"fake6"} \X {0} \X (1 .. Width)
Reals == {"real"} \X {0} \X (1 .. Shared)
AllAddresses == Fake4 \cup Fake6 \cup Reals
NoRange == 0    \* there is no IPv4 pool

VARIABLES
    enhancer,   \* in force: mode, range of the IPv4 pool, whether there is an IPv6 pool
    record,     \* its address -> name: both pools and the mapping
    pending,    \* the enhancer a reload has made and cloned into, or NoEnhancer
    clone,      \* its address -> name
    earlier,    \* enhancers that have been replaced
    reloads,
    answered,   \* history: address -> the name it was last answered for
    lost,       \* history: addresses whose record went away since
    late,       \* history: addresses answered since the clone
    unseen      \* history: addresses whose last answer the enhancer in force never had

histories == <<answered, lost, late, unseen>>
vars == <<enhancer, record, pending, clone, earlier, reloads, histories>>

(* parseDNS: a fake-ip configuration has at least one pool.  "off" is a DNS *)
(* that is not enabled: there is no enhancer.                               *)
Configurations ==
    {[mode |-> m, range |-> NoRange, six |-> FALSE] : m \in {"off", "normal", "mapping"}}
    \cup {c \in [mode : {"fake"}, range : Ranges \cup {NoRange}, six : BOOLEAN] : c.range # NoRange \/ c.six}

NoEnhancer == [mode |-> "none", range |-> NoRange, six |-> FALSE]
NoNames == [a \in AllAddresses |-> NoName]

Pool4 == enhancer.range # NoRange
Pool6 == enhancer.six
Mapping == enhancer.mode \in {"mapping", "fake"}

Init ==
    /\ enhancer \in Configurations /\ pending = NoEnhancer
    /\ record = NoNames /\ clone = NoNames
    /\ earlier = {}
    /\ reloads = 0
    /\ answered = NoNames
    /\ lost = {} /\ late = {} /\ unseen = {}

-----------------------------------------------------------------------------
InRange == {a \in Fake4 : a[2] = enhancer.range}
Held(pool, n) == {a \in pool : record[a] = n}

(* Lookup of a pool: the address the name has, of an older range perhaps, or*)
(* the next one of the ring, whoever had it.                                *)
Give(n, a) ==
    /\ record' = [record EXCEPT ![a] = n]
    /\ answered' = [answered EXCEPT ![a] = n]
    /\ lost' = lost \ {a}
    /\ late' = IF pending = NoEnhancer THEN late ELSE late \cup {a}
    /\ unseen' = unseen \ {a}
    /\ UNCHANGED <<enhancer, pending, clone, earlier, reloads>>

Lookup(n, pool, ring) ==
    \E a \in IF Held(pool, n) # {} THEN Held(pool, n) ELSE ring : Give(n, a)

(* withFakeIP: a pool that is missing makes the answer empty.               *)
FakeIP(n) ==
    /\ enhancer.mode = "fake" /\ n \notin Skipped
    /\ \/ Pool4 /\ Lookup(n, Fake4, InRange)
       \/ Pool6 /\ Lookup(n, Fake6, Fake6)

(* withMapping: what the resolver answers; without the handler nothing is   *)
(* remembered.                                                              *)
Resolve(n) ==
    /\ enhancer.mode = "mapping" \/ (enhancer.mode = "fake" /\ n \in Skipped)
    /\ \E a \in Reals : Give(n, a)

ResolveUnmapped(n) ==
    /\ enhancer.mode \in {"off", "normal"}
    /\ \E a \in Reals :
          /\ answered' = [answered EXCEPT ![a] = n]
          /\ lost' = lost \cup {a}
    /\ UNCHANGED <<enhancer, record, pending, clone, earlier, reloads, late, unseen>>

(* An answer of an enhancer that has been replaced, to a query asked of it  *)
(* before: it is recorded where nobody looks any more.                      *)
AnswersOf(old, n) ==
    IF old.mode = "fake" /\ n \notin Skipped
    THEN (IF old.range # NoRange THEN Fake4 ELSE {}) \cup (IF old.six THEN Fake6 ELSE {})
    ELSE Reals

AnswerOfEarlier(n) ==
    /\ \E old \in earlier : \E a \in AnswersOf(old, n) :
          /\ answered' = [answered EXCEPT ![a] = n]
          /\ unseen' = unseen \cup {a}
    /\ UNCHANGED <<enhancer, record, pending, clone, earlier, reloads, lost, late>>

(* An entry of a cache expires or makes room.                               *)
Forget(a) ==
    /\ record[a] # NoName
    /\ record' = [record EXCEPT ![a] = NoName]
    /\ lost' = lost \cup {a}
    /\ UNCHANGED <<enhancer, pending, clone, earlier, reloads, answered, late, unseen>>

(* FlushFakeIP: the IPv6 pool only when there is no IPv4 pool.              *)
Flushed == IF Pool4 THEN Fake4 ELSE IF Pool6 THEN Fake6 ELSE {}

FlushFakeIP ==
    /\ Flushed # {}
    /\ record' = [a \in AllAddresses |-> IF a \in Flushed THEN NoName ELSE record[a]]
    /\ lost' = lost \cup Flushed
    /\ UNCHANGED <<enhancer, pending, clone, earlier, reloads, answered, late, unseen>>

(* Mutant: only the pool that FlushFakeIP looks at is cloned. *)
KeptOfOne(new) ==
    {a \in Reals : Mapping /\ new.mode \in {"mapping", "fake"}}
    \cup {a \in Fake4 : Pool4 /\ new.range # NoRange} \cup {a \in Fake6 : Pool6 /\ new.six /\ ~Pool4}

(* What both enhancers have is cloned, whatever the ranges.                 *)
Kept(new) ==
    {a \in Reals : Mapping /\ new.mode \in {"mapping", "fake"}}
    \cup {a \in Fake4 : Pool4 /\ new.range # NoRange} \cup {a \in Fake6 : Pool6 /\ new.six}

(* What a reload of the configuration may lose.                             *)
MayLose(new) ==
    {a \in Reals : new.mode \notin {"mapping", "fake"}}
    \cup {a \in Fake4 : new.range = NoRange} \cup {a \in Fake6 : ~new.six}

(* updateDNS makes the enhancer of the configuration.  PatchFrom clones the *)
(* mapping and the pools one after the other; every other step works on one *)
(* of them.  (That the two caches of a pool are cloned one after the other  *)
(* is FakeIPPool's.)  A DNS that is not enabled has nothing to clone into.  *)
PatchFrom(new) ==
    /\ pending = NoEnhancer /\ reloads < MaxReloads
    /\ pending' = new
    /\ clone' = [a \in AllAddresses |-> IF a \in Kept(new) THEN record[a] ELSE NoName]
    /\ reloads' = reloads + 1
    /\ UNCHANGED <<enhancer, record, earlier, histories>>

(* DefaultHostMapper, then DefaultService and the server's service: until   *)
(* the last is set the old handler is still asked.                          *)
UpdateDNS ==
    /\ pending # NoEnhancer
    /\ enhancer' = pending /\ pending' = NoEnhancer
    /\ record' = clone /\ clone' = NoNames
    /\ earlier' = earlier \cup {enhancer}
    /\ lost' = {a \in lost \cup MayLose(pending) : clone[a] = NoName}
    /\ unseen' = unseen \cup {a \in late : clone[a] # answered[a]}
    /\ late' = {}
    /\ UNCHANGED <<reloads, answered>>

Next ==
    \/ \E n \in Names : FakeIP(n) \/ Resolve(n) \/ ResolveUnmapped(n) \/ AnswerOfEarlier(n)
    \/ \E a \in AllAddresses : Forget(a)
    \/ FlushFakeIP
    \/ \E new \in Configurations : PatchFrom(new)
    \/ UpdateDNS

Spec == Init /\ [][Next]_vars

-----------------------------------------------------------------------------
(* preHandleMetadata, for a connection to an address: the name it is given, *)
(* a refusal, or the address as it is.  Of two pools IsFakeIP asks the IPv4 *)
(* one only.                                                                *)
IsFakeIP(a) ==
    /\ enhancer.mode = "fake"
    /\ a \in IF Pool4 THEN InRange ELSE Fake6

PreHandleMetadata(a) ==
    IF Mapping /\ record[a] # NoName THEN record[a]
    ELSE IF Mapping /\ IsFakeIP(a) THEN "refused" ELSE "as it is"

(* The type invariant. *)
TypeOK ==
    /\ enhancer \in Configurations /\ pending \in Configurations \cup {NoEnhancer}
    /\ record \in [AllAddresses -> Names \cup {NoName}] /\ clone \in [AllAddresses -> Names \cup {NoName}]
    /\ answered \in [AllAddresses -> Names \cup {NoName}]
    /\ earlier \subseteq Configurations
    /\ lost \subseteq AllAddresses /\ late \subseteq AllAddresses /\ unseen \subseteq AllAddresses
    /\ reloads \in 0 .. MaxReloads

(* A connection to an address that was answered goes to the name that asked *)
(* for it last.  Only if the record was lost is a fake address refused, and *)
(* only if moreover its range is no longer in force, or it is an IPv6 one   *)
(* beside an IPv4 pool, is it dialled as if it were real.                   *)
(* Excepted are the answers a reload passes by: what an enhancer answers    *)
(* between its clone and the switch, unless the clone has the same, and     *)
(* what it answers to its last queries after the switch.  Of these the      *)
(* enhancer in force knows nothing, or an older name.                       *)
InForce(a) == enhancer.mode = "fake" /\ (a \in InRange \/ (a \in Fake6 /\ Pool6 /\ ~Pool4))
NameRestored ==
    \A a \in AllAddresses \ unseen :
        answered[a] # NoName =>
            CASE PreHandleMetadata(a) = "refused" -> a \in lost /\ InForce(a)
              [] PreHandleMetadata(a) = "as it is" -> a \in lost /\ ~InForce(a)
              [] OTHER -> PreHandleMetadata(a) = answered[a]
=============================================================================
