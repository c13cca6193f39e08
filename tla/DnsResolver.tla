------------------------------ MODULE DnsResolver ------------------------------
(***************************************************************************)
(* The resolver of the core, for one question: calls of ExchangeContext    *)
(* look into the cache, and those that miss it share one exchange (a       *)
(* singleflight group), which asks all servers of a list at once and takes *)
(* the first answer (a picker), and may have to ask the fallback servers   *)
(* after the main ones.  A call whose context ends leaves a monitor behind *)
(* and a fetch in the background; a stale answer is given away while it is *)
(* fetched again.  Servers that answer with a fixed code are left out.     *)
(***************************************************************************)
EXTENDS Integers, FiniteSets

CONSTANTS
    Callers,      \* goroutines that ask
    Main,         \* main servers
    Fallback,     \* fallback servers
    Policy,       \* servers of the first policy that knows the domain
    MaxAsks       \* bound: calls

(* Every call has a background fetch that it may start. *)
Actors == Callers \X {"ask", "fetch"}
Routes == {"policy", "fallback", "main", "main, then fallback"}
None == "none"

VARIABLES
    route,     \* what matchPolicy and shouldOnlyQueryFallback say of the question
    cache,     \* its entry: age and answer
    flight,    \* the call in the group: stage, servers at work, answer, failure
    waiters,   \* its channels
    dups,      \* somebody has joined it
    actor,     \* progress of the actors
    ch,        \* what their channel holds: answer and whether it is shared
    asked      \* calls made so far

vars == <<route, cache, flight, waiters, dups, actor, ch, asked>>

Quality == {"clean", "filtered", "empty"}    \* of an answer: no address the filter rejects, one, no address
Answers == {"policy", "main", "fallback"} \X Quality
NoAnswer == <<"none", "none">>
Error == <<"error", "error">>
Idle == [stage |-> None, pending |-> {}, answer |-> NoAnswer]
Empty == [answer |-> NoAnswer, shared |-> FALSE]
NoEntry == [age |-> None, answer |-> NoAnswer]

Init ==
    /\ route \in Routes
    /\ cache = NoEntry
    /\ flight = Idle /\ waiters = {} /\ dups = FALSE
    /\ actor = [a \in Actors |-> "idle"]
    /\ ch = [a \in Actors |-> Empty]
    /\ asked = 0

-----------------------------------------------------------------------------
Servers(stage) == CASE stage = "policy" -> Policy [] stage = "main" -> Main [] stage = "fallback" -> Fallback
BatchExchange(stage) == flight' = [stage |-> stage, pending |-> Servers(stage), answer |-> NoAnswer]

IpExchange == BatchExchange(IF route \in {"policy", "fallback"} THEN route ELSE "main")

(* DoChan: the first one starts the exchange, the others join it.  A retry  *)
(* drops its channel.                                                       *)
DoChan(channel) ==
    IF flight.stage = None
    THEN IpExchange /\ dups' = FALSE /\ waiters' = channel
    ELSE UNCHANGED flight /\ dups' = TRUE /\ waiters' = waiters \cup channel

(* ExchangeContext of a goroutine.  A stale answer is given away and        *)
(* fetched again.                                                           *)
ExchangeContext(c) ==
    /\ actor[<<c, "ask">>] = "idle" /\ actor[<<c, "fetch">>] = "idle"
    /\ asked < MaxAsks
    /\ asked' = asked + 1
    /\ \/ /\ cache.age = None
          /\ actor' = [actor EXCEPT ![<<c, "ask">>] = "exchange", ![<<c, "fetch">>] = "idle"]
       \/ /\ cache.age # None
          /\ actor' = [actor EXCEPT ![<<c, "ask">>] = "idle",
                                    ![<<c, "fetch">>] = IF cache.age = "stale" THEN "exchange" ELSE "idle"]
    /\ UNCHANGED <<route, cache, flight, waiters, dups, ch>>

ExchangeWithoutCache(a) ==
    /\ actor[a] = "exchange"
    /\ actor' = [actor EXCEPT ![a] = "wait"]
    /\ DoChan({a})
    /\ UNCHANGED <<route, cache, ch, asked>>

(* An exchange that failed for this call alone is started once more in the  *)
(* background, with nobody to hear of it; one that timed out is fetched as  *)
(* well.                                                                    *)
Receive(a) ==
    /\ actor[a] \in {"wait", "monitor"} /\ ch[a] # Empty
    /\ \/ actor' = [actor EXCEPT ![a] = "idle"]
       \/ /\ ch[a].answer = Error /\ actor[a] = "wait" /\ a[2] = "ask"
          /\ actor' = [actor EXCEPT ![a] = "idle", ![<<a[1], "fetch">>] = "exchange"]
    /\ ch' = [ch EXCEPT ![a] = Empty]
    /\ IF ch[a].answer = Error /\ ~ch[a].shared THEN DoChan({}) ELSE UNCHANGED <<flight, waiters, dups>>
    /\ UNCHANGED <<route, cache, asked>>

(* The context ends before there is a result: a monitor goes on waiting, and*)
(* what a goroutine asked is fetched in the background.                     *)
ContextDone(a) ==
    /\ actor[a] = "wait" /\ ch[a] = Empty
    /\ actor' = [b \in Actors |->
           IF b = a THEN "monitor"
           ELSE IF a[2] = "ask" /\ b = <<a[1], "fetch">> THEN "exchange" ELSE actor[b]]
    /\ UNCHANGED <<route, cache, flight, waiters, dups, ch, asked>>

-----------------------------------------------------------------------------
(* The picker keeps the first answer and cancels the others; Wait waits for *)
(* all of them.  A server failure and a refusal are errors.                 *)
Answer(s) ==
    /\ s \in flight.pending
    /\ \E q \in Quality \cup {None} :
          flight' = [flight EXCEPT !.pending = @ \ {s},
                                   !.answer = IF @ = NoAnswer /\ q # None THEN <<flight.stage, q>> ELSE @]
    /\ UNCHANGED <<route, cache, waiters, dups, actor, ch, asked>>

(* Mutant: the first address decides whether the filter rejects an answer.  *)
AcceptedAtOnce(answer) == answer # NoAnswer /\ (route # "main, then fallback" \/ flight.stage = "fallback" \/ answer[2] # "empty")

(* The main servers have the last word only without fallback, or with       *)
(* addresses of which the filter rejects none.                              *)
Accepted(answer) == route # "main, then fallback" \/ flight.stage = "fallback" \/ (answer # NoAnswer /\ answer[2] = "clean")

AskFallback ==
    /\ flight.stage # None /\ flight.pending = {} /\ ~Accepted(flight.answer)
    /\ BatchExchange("fallback")
    /\ UNCHANGED <<route, cache, waiters, dups, actor, ch, asked>>

Deliver(answer) ==
    ch' = [a \in Actors |-> IF a \in waiters THEN [answer |-> answer, shared |-> dups] ELSE ch[a]]

(* putMsgToCache: an answer without records that live is not kept.          *)
DoCall ==
    /\ flight.stage # None /\ flight.pending = {} /\ Accepted(flight.answer)
    /\ Deliver(IF flight.answer = NoAnswer THEN Error ELSE flight.answer)
    /\ \/ flight.answer # NoAnswer /\ cache' = [age |-> "fresh", answer |-> flight.answer]
       \/ (flight.answer = NoAnswer \/ flight.answer[2] = "empty") /\ UNCHANGED cache
    /\ flight' = Idle /\ waiters' = {} /\ dups' = FALSE
    /\ UNCHANGED <<route, actor, asked>>

Expire ==
    /\ cache.age = "fresh"
    /\ cache' = [cache EXCEPT !.age = "stale"]
    /\ UNCHANGED <<route, flight, waiters, dups, actor, ch, asked>>

(* ClearCache, or the entry is evicted.                                     *)
ClearCache ==
    /\ cache.age # None
    /\ cache' = NoEntry
    /\ UNCHANGED <<route, flight, waiters, dups, actor, ch, asked>>

Next ==
    \/ \E c \in Callers : ExchangeContext(c)
    \/ \E a \in Actors : ExchangeWithoutCache(a) \/ Receive(a) \/ ContextDone(a)
    \/ \E s \in Main \cup Fallback \cup Policy : Answer(s)
    \/ AskFallback \/ DoCall \/ Expire \/ ClearCache

Spec == Init /\ [][Next]_vars

-----------------------------------------------------------------------------
(* The type invariant. *)
TypeOK ==
    /\ route \in Routes
    /\ cache \in [age : {None, "fresh", "stale"}, answer : Answers \cup {NoAnswer}]
    /\ flight \in [stage : {None, "policy", "main", "fallback"},
                   pending : SUBSET (Main \cup Fallback \cup Policy), answer : Answers \cup {NoAnswer}]
    /\ waiters \subseteq Actors /\ dups \in BOOLEAN
    /\ actor \in [Actors -> {"idle", "exchange", "wait", "monitor"}]
    /\ ch \in [Actors -> [answer : Answers \cup {Error, NoAnswer}, shared : BOOLEAN]]
    /\ asked \in 0 .. MaxAsks

(* No call waits for an exchange that is over: its channel holds the result *)
(* or is among those that will get it.                                      *)
NobodyIsForgotten ==
    \A a \in Actors :
        actor[a] \in {"wait", "monitor"} =>
            ch[a] # Empty \/ (flight.stage # None /\ a \in waiters)

(* With fallback servers, no call gets and no cache keeps an answer of the  *)
(* main servers that is empty or that the filter rejects, however many calls*)
(* and background fetches are under way.                                    *)
Rejected == {"main"} \X {"filtered", "empty"}
NothingFiltered ==
    route = "main, then fallback" =>
        /\ cache.answer \notin Rejected
        /\ \A a \in Actors : ch[a].answer \notin Rejected

QueriesAreAnswered == NobodyIsForgotten /\ NothingFiltered
=============================================================================
