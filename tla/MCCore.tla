-------------------------------- MODULE MCCore --------------------------------
(***************************************************************************)
(* Parts of the core that share no state: the dialer, the pool of anytls   *)
(* sessions, the concurrent map, the listeners, a proxy group, the resolver*)
(* and the handlers that remember what was answered.  Each behaviour is    *)
(* about one of them, the subject; the others stay as they are or are off. *)
(***************************************************************************)
EXTENDS Dialer, Sequences, FiniteSets, TLC

CONSTANTS
    Users, MaxSessions, MaxStreams, MinIdle,
    Threads, Keys, Values, Absent, MinLen, Entries, ShrinkFraction, Functions, MaxCalls,
    Confs, Changes, Requests, Ports, MaxToggles,
    Dialers, Speed, Fixable, Tolerance, MaxFailedTimes, MaxFlips,
    Callers, Main, Fallback, Policy, MaxAsks,
    Names, NoName, Skipped, Shared, Ranges, Width, MaxReloads

(* preHandleMetadata's outcomes are no names, and 0 stands for no range.    *)
ASSUME NameAssumption ==
    /\ Names \cap {"refused", "as it is"} = {}
    /\ 0 \notin Ranges
    /\ MaxReloads \in Nat
ASSUME AsksAssumption == MaxAsks \in Nat
ASSUME SessionsAssumption == MaxSessions \in Nat

(* 0 stands for no dialer.                                                  *)
ASSUME DialersAssumption == 0 \notin Dialers

MCSpeed == <<1, 2>>
(* The users, the callers and the dialers are the same two model values, and *)
(* so are two of the names: no behaviour has two of these, and exchanging   *)
(* the values in all of them at once is a symmetry of each.                 *)
Symmetry == Permutations(Users)

(* Configurations that exchange, move and drop ports. *)
AllKinds == {"http", "socks", "redir", "tproxy", "mixed", "ss", "vmess", "tuic"}
None == [k \in AllKinds |-> 0]
MCConfs == {
    [ports |-> ("mixed" :> 1) @@ ("tproxy" :> 2) @@ None, inbound |-> ("a" :> 3), tunnels |-> {}, tun |-> 1],
    [ports |-> ("socks" :> 1) @@ ("redir" :> 3) @@ None, inbound |-> ("b" :> 2),
     tunnels |-> {<<"udp", 1, "s">>, <<"udp", 1, "t">>}, tun |-> 2],
    [ports |-> ("http" :> 2) @@ ("ss" :> 3) @@ ("tuic" :> 1) @@ None, inbound |-> ("a" :> 2) @@ ("b" :> 1),
     tunnels |-> {}, tun |-> 0]}
MCChanges == {<<>>, ("mixed" :> 2) @@ ("vmess" :> 3)}

VARIABLES
    subject,
    done, toClose, closer, idle, session, user, recv,
    tables, cur, resizing, th, abs, held, calls,
    net, toggles, mux, req,
    kind, up, flips, alive, delay, selected, fastNode, call, result, old, at, of, choice,
    failedTimes, mutex, failedTesting, touched, test, recent, met, stale,
    route, cache, flight, waiters, dups, actor, ch, asked,
    enhancer, record, pending, clone, earlier, reloads, answered, lost, late, unseen
anytlsVars == <<done, toClose, closer, idle, session, user, recv>>
mapVars == <<tables, cur, resizing, th, abs, held, calls>>
listenerVars == <<net, toggles, mux, req>>
groupVars == <<kind, up, flips, alive, delay, selected, fastNode, call, result, old, at, of,
               choice, failedTimes, mutex, failedTesting, touched, test, recent, met, stale>>
resolverVars == <<route, cache, flight, waiters, dups, actor, ch, asked>>
mappingVars == <<enhancer, record, pending, clone, earlier, reloads, answered, lost, late, unseen>>
allVars == <<subject, vars, anytlsVars, mapVars, listenerVars, groupVars, resolverVars, mappingVars>>

Anytls == INSTANCE AnytlsClient
XMap == INSTANCE ConcurrentMap
Listen == INSTANCE Listeners
Group == INSTANCE UrlTest
Dns == INSTANCE DnsResolver
Mapper == INSTANCE NameMapping

ASSUME MapAssumption == XMap!Sane
ASSUME ListenersAssumption == Listen!Sane

Off(v) == v = "off"
MapOff == Off(tables) /\ Off(cur) /\ Off(resizing) /\ Off(th) /\ Off(abs) /\ Off(held) /\ Off(calls)

CoreInit ==
    /\ subject \in {"dialer", "anytls", "map", "listeners", "group", "resolver", "mapping"}
    /\ Init /\ (subject # "dialer" => ips = Addresses /\ concurrent /\ ~dual)
    /\ Anytls!Init /\ Listen!Init
    /\ Group!Init /\ (subject # "group" => kind = "url-test")
    /\ Dns!Init /\ (subject # "resolver" => route = "main")
    /\ Mapper!Init /\ (subject # "mapping" => enhancer.mode = "off")
    /\ IF subject = "map" THEN XMap!Init ELSE MapOff

D(Act) == /\ subject = "dialer" /\ Act
          /\ UNCHANGED <<subject, anytlsVars, mapVars, listenerVars, groupVars, resolverVars, mappingVars>>
A(Act) == /\ subject = "anytls" /\ Act
          /\ UNCHANGED <<subject, vars, mapVars, listenerVars, groupVars, resolverVars, mappingVars>>
M(Act) == /\ subject = "map" /\ Act
          /\ UNCHANGED <<subject, vars, anytlsVars, listenerVars, groupVars, resolverVars, mappingVars>>
L(Act) == /\ subject = "listeners" /\ Act
          /\ UNCHANGED <<subject, vars, anytlsVars, mapVars, groupVars, resolverVars, mappingVars>>
G(Act) == /\ subject = "group" /\ Act
          /\ UNCHANGED <<subject, vars, anytlsVars, mapVars, listenerVars, resolverVars, mappingVars>>
R(Act) == /\ subject = "resolver" /\ Act
          /\ UNCHANGED <<subject, vars, anytlsVars, mapVars, listenerVars, groupVars, mappingVars>>
N(Act) == /\ subject = "mapping" /\ Act
          /\ UNCHANGED <<subject, vars, anytlsVars, mapVars, listenerVars, groupVars, resolverVars>>

CoreNext ==
    \/ D(Next) \/ A(Anytls!Next)
    \/ \E t \in Threads :
         \/ \E fn \in Functions, k \in Keys, v \in Values : M(XMap!Call(t, fn, k, v))
         \/ M(XMap!Step(t))
    \/ \E r \in Requests :
         \/ L(Listen!ApplyConfig(r)) \/ L(Listen!PatchConfigs(r)) \/ L(Listen!Walk(r))
         \/ L(Listen!Step(r)) \/ L(Listen!Done(r))
    \/ \E x \in Listen!Protos, p \in Ports : L(Listen!Toggle(x, p))
    \/ G(Group!Next)
    \/ \E c \in Callers : R(Dns!ExchangeContext(c))
    \/ \E a \in Dns!Actors : R(Dns!ExchangeWithoutCache(a)) \/ R(Dns!Receive(a)) \/ R(Dns!ContextDone(a))
    \/ \E s \in Main \cup Fallback \cup Policy : R(Dns!Answer(s))
    \/ R(Dns!AskFallback) \/ R(Dns!DoCall) \/ R(Dns!Expire) \/ R(Dns!ClearCache)
    \/ \E n \in Names : N(Mapper!FakeIP(n)) \/ N(Mapper!Resolve(n)) \/ N(Mapper!ResolveUnmapped(n)) \/ N(Mapper!AnswerOfEarlier(n))
    \/ \E a \in Mapper!AllAddresses : N(Mapper!Forget(a))
    \/ N(Mapper!FlushFakeIP)
    \/ \E new \in Mapper!Configurations : N(Mapper!PatchFrom(new))
    \/ N(Mapper!UpdateDNS)

CoreSpec == CoreInit /\ [][CoreNext]_allVars

(* Whatever ends a stream, no session is shared, and none is forgotten.     *)
SessionsAreSound == Anytls!SessionsAreSound

(* For its callers the concurrent map is one map: no update is lost, a load *)
(* finds what was there, the size is exact.                                 *)
IsOneMap == subject = "map" => XMap!IsOneMap

(* Requests leave open the ports that they say, and no port leaks.          *)
RequestsAreObeyed == Listen!RequestsAreObeyed

(* No caller of a proxy group gets a choice that is older than the health   *)
(* check, or the user's choice, that preceded its call.                     *)
NothingStale == Group!NothingStale

(* No call of the resolver is forgotten by the exchange it shares, and none *)
(* gets an answer of the main servers that the fallback filter rejects.     *)
QueriesAreAnswered == Dns!QueriesAreAnswered

(* A connection to an answered address goes to the name that asked for it,  *)
(* unless the record was lost; then a fake one is refused while its range is*)
(* in force.                                                                *)
NameRestored == Mapper!NameRestored
=============================================================================
