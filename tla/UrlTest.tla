------------------------------- MODULE UrlTest -------------------------------
(***************************************************************************)
(* A proxy group that chooses by health: url-test, which shares one choice *)
(* among its callers for a while (fastSingle), or fallback, which chooses  *)
(* for each.  Connections dial what was chosen; failures start a health    *)
(* check of the provider, which also checks by itself while it is in use.  *)
(*                                                                         *)
(* A dialer is one connection at a time with the goroutine its failure     *)
(* starts.  Delays are those of CONSTANT Speed; NoDelay is the 0xffff of   *)
(* a proxy that is dead or was never tested.                               *)
(***************************************************************************)
EXTENDS Integers, FiniteSetsExt

CONSTANTS
    Dialers,
    Speed,          \* delay of each proxy of the group, in its order
    Tolerance,
    MaxFailedTimes,
    Fixable,        \* the proxies the user may fix in a url-test group
    MaxFlips        \* bound: how often a proxy goes up or down

Proxies == DOMAIN Speed
NoDelay == 2^16 - 1
None == 0

VARIABLES
    kind,           \* "url-test" or "fallback"
    up,             \* the proxies that work
    flips,
    alive, delay,   \* what the last tests stored
    selected,       \* the proxy the user fixed, or None
    fastNode,
    call,           \* fastSingle: dialer that computes, or None
    result,         \* fastSingle: its fresh result, or None
    old,            \* computations, and the result (None), older than the last Reset
    at, of, choice, \* each dialer: how far, whose computation, which proxy
    failedTimes, mutex, failedTesting,
    touched,        \* the provider was used since the last tick
    test,           \* the check of the provider: how far each proxy is
    recent,         \* a check has ended within the last second
    met,            \* the computations that another one ran beside
    stale           \* a choice was used that is older than the Reset before its call

groupVars == <<selected, fastNode>>
singleVars == <<call, result, old, met>>
dialVars == <<at, of, choice>>
failVars == <<failedTimes, mutex, failedTesting>>
checkVars == <<touched, test, recent>>
proxyVars == <<up, flips, alive, delay>>
vars == <<kind, proxyVars, groupVars, singleVars, dialVars, failVars, checkVars, stale>>

Checking == \E p \in Proxies : test[p] # "done"

Init ==
    /\ kind \in {"url-test", "fallback"}
    /\ up = Proxies /\ flips = 0
    /\ alive = [p \in Proxies |-> TRUE] /\ delay = [p \in Proxies |-> NoDelay]
    /\ selected \in IF kind = "fallback" THEN {None} \cup Proxies ELSE {None}
    /\ fastNode = None
    /\ call = None /\ result = None /\ old = {} /\ met = {}
    /\ at = [d \in Dialers |-> "idle"]
    /\ of = [d \in Dialers |-> None] /\ choice = [d \in Dialers |-> None]
    /\ failedTimes = 0 /\ mutex = None /\ failedTesting = FALSE
    /\ touched = FALSE /\ recent = FALSE
    /\ test = [p \in Proxies |-> "done"]
    /\ stale = FALSE

Goto(d, l) == at' = [at EXCEPT ![d] = l]

Computing == {d \in Dialers : at[d] \in {"compute", "fix", "judge", "replace", "read"}}

-----------------------------------------------------------------------------
(* The choice *)

LastDelay(p) == IF alive[p] THEN delay[p] ELSE NoDelay

(* The first of the least delay, where only the first proxy may be dead. *)
Fast ==
    LET candidates == {1} \cup {p \in Proxies : alive[p]}
        least == Min({LastDelay(p) : p \in candidates})
    IN Min({p \in candidates : LastDelay(p) = least})

FindAliveProxy ==
    LET those == IF selected # None THEN {p \in {selected} : alive[p]} \cup
                                         {p \in Proxies : alive[p] /\ p > selected}
                                    ELSE {p \in Proxies : alive[p]}
    IN IF those = {} THEN 1 ELSE Min(those)

(* A connection of a fallback group; a fixed proxy that is dead is forgotten*)
(* on the way.                                                              *)
DialFallback(d) ==
    /\ kind = "fallback" /\ at[d] = "idle"
    /\ choice' = [choice EXCEPT ![d] = FindAliveProxy]
    /\ selected' = IF selected # None /\ alive[selected] THEN selected ELSE None
    /\ touched' = TRUE
    /\ Goto(d, "dial")
    /\ UNCHANGED <<kind, proxyVars, fastNode, singleVars, of, failVars, test, recent, stale>>

(* Do: a fresh result, a computation under way, or one of its own.  Sharing *)
(* touches the provider too.                                                *)
DialUrlTest(d) ==
    /\ kind = "url-test" /\ at[d] = "idle"
    /\ touched' = TRUE
    /\ \/ /\ result # None
          /\ choice' = [choice EXCEPT ![d] = result]
          /\ stale' = (stale \/ None \in old)
          /\ Goto(d, "dial")
          /\ UNCHANGED <<call, old, met, of>>
       \/ /\ result = None /\ call # None
          /\ stale' = (stale \/ call \in old)
          /\ IF at[call] = "finish"
               THEN choice' = [choice EXCEPT ![d] = choice[call]] /\ Goto(d, "dial") /\ UNCHANGED of
               ELSE of' = [of EXCEPT ![d] = call] /\ Goto(d, "wait") /\ UNCHANGED choice
          /\ UNCHANGED <<call, old, met>>
       \/ /\ result = None /\ call = None
          /\ call' = d
          /\ old' = old \ {d}
          /\ met' = IF Computing = {} THEN met ELSE met \cup Computing \cup {d}
          /\ Goto(d, "compute")
          /\ UNCHANGED <<of, choice, stale>>
    /\ UNCHANGED <<kind, proxyVars, groupVars, result, failVars, test, recent>>

(* fn() reads and writes fastNode without a lock, and computations that a   *)
(* Reset has forgotten go on beside a new one.  The loop over the proxies   *)
(* is one step.  It looks for fastNode from the second proxy on: the first  *)
(* one has no tolerance.                                                    *)
Scan(d) ==
    /\ at[d] = "compute"
    /\ IF selected # None /\ alive[selected]
         THEN /\ choice' = [choice EXCEPT ![d] = selected]
              /\ Goto(d, "fix")
         ELSE /\ choice' = [choice EXCEPT ![d] = Fast]
              /\ Goto(d, IF fastNode \in {None, 1} THEN "replace" ELSE "judge")
    /\ UNCHANGED <<kind, proxyVars, groupVars, singleVars, of, failVars, checkVars, stale>>

TooSlow(p, fast) == ~alive[p] \/ LastDelay(p) > (LastDelay(fast) + Tolerance) % 2^16

Judge(d) ==
    /\ at[d] = "judge"
    /\ IF TooSlow(fastNode, choice[d])
         THEN Goto(d, "replace") /\ UNCHANGED choice
         ELSE Goto(d, "read") /\ choice' = [choice EXCEPT ![d] = fastNode]
    /\ UNCHANGED <<kind, proxyVars, groupVars, singleVars, of, failVars, checkVars, stale>>

Replace(d) ==
    /\ at[d] = "replace"
    /\ fastNode' = choice[d]
    /\ Goto(d, "read")
    /\ UNCHANGED <<kind, proxyVars, selected, singleVars, of, choice, failVars, checkVars, stale>>

(* The end of fn() and wg.Done(): the waiting callers get the value. *)
Return(d, p) ==
    LET waiting == {e \in Dialers : at[e] = "wait" /\ of[e] = d} IN
      /\ choice' = [e \in Dialers |-> IF e \in waiting \cup {d} THEN p ELSE choice[e]]
      /\ at' = [e \in Dialers |-> IF e \in waiting THEN "dial"
                                  ELSE IF e = d THEN "finish" ELSE at[e]]
      /\ of' = [e \in Dialers |-> IF e \in waiting THEN None ELSE of[e]]
      /\ met' = met \ {d}

(* The proxy the user fixed is returned as it was found, ... *)
ReturnFixed(d) ==
    /\ at[d] = "fix"
    /\ fastNode' = choice[d]
    /\ Return(d, choice[d])
    /\ UNCHANGED <<kind, proxyVars, selected, call, result, old, failVars, checkVars, stale>>

(* ... the fastest is read from fastNode again.                             *)
ReturnFastNode(d) ==
    /\ at[d] = "read"
    /\ Return(d, fastNode)
    /\ stale' = (stale \/ (fastNode # choice[d] /\ d \notin met))
    /\ UNCHANGED <<kind, proxyVars, groupVars, call, result, old, failVars, checkVars>>

(* Mutant: the result is kept although a Reset came in between. *)
KeepAnyway(d) ==
    /\ at[d] = "finish"
    /\ Goto(d, "dial")
    /\ call' = None
    /\ result' = choice[d]
    /\ old' = IF d \in old THEN (old \ {d}) \cup {None} ELSE old \ {None}
    /\ UNCHANGED <<kind, proxyVars, groupVars, met, of, choice, failVars, checkVars, stale>>

Keep(d) ==
    /\ at[d] = "finish"
    /\ Goto(d, "dial")
    /\ IF call = d
         THEN /\ call' = None
              /\ result' = choice[d]
              /\ old' = IF d \in old THEN (old \ {d}) \cup {None} ELSE old \ {None}
         ELSE /\ old' = old \ {d}
              /\ UNCHANGED <<call, result>>
    /\ UNCHANGED <<kind, proxyVars, groupVars, met, of, choice, failVars, checkVars, stale>>

(* The result is good for some seconds. *)
ResultExpires ==
    /\ result # None
    /\ result' = None
    /\ UNCHANGED <<kind, proxyVars, groupVars, call, old, met, dialVars, failVars, checkVars, stale>>

Reset ==
    /\ call' = None /\ result' = None
    /\ old' = Computing \cup {d \in Dialers : at[d] = "finish"}
    /\ UNCHANGED met

(* The user fixes a proxy of a url-test group. *)
ForceSet(p) ==
    /\ kind = "url-test"
    /\ selected = None                 \* bound: once
    /\ selected' = p
    /\ Reset
    /\ UNCHANGED <<kind, proxyVars, fastNode, dialVars, failVars, checkVars, stale>>

-----------------------------------------------------------------------------
(* Connections and their failures *)

(* onDialSuccess is called for connections with a handshake.  A connection  *)
(* that is refused asks for a check at once, another failure is counted.    *)
Dial(d) ==
    /\ at[d] = "dial"
    /\ IF choice[d] \in up
         THEN /\ failedTimes' \in {failedTimes, IF failedTesting THEN failedTimes ELSE 0}
              /\ Goto(d, "idle")
         ELSE /\ \E l \in {"reset", "count"} : Goto(d, l)
              /\ UNCHANGED failedTimes
    /\ choice' = [choice EXCEPT ![d] = None]
    /\ UNCHANGED <<kind, proxyVars, groupVars, singleVars, of, mutex, failedTesting,
                   checkVars, stale>>

(* The window of the first failure is open or over; the mutex is held       *)
(* during the check.                                                        *)
Count(d) ==
    /\ at[d] = "count" /\ mutex = None
    /\ \/ /\ failedTimes = 0 \/ failedTimes + 1 < MaxFailedTimes
          /\ failedTimes' = failedTimes + 1
          /\ Goto(d, "idle") /\ UNCHANGED mutex
       \/ /\ failedTimes > 0
          /\ failedTimes' = 0
          /\ Goto(d, "idle") /\ UNCHANGED mutex
       \/ /\ failedTimes > 0 /\ failedTimes + 1 >= MaxFailedTimes
          /\ failedTimes' = MaxFailedTimes
          /\ mutex' = d
          /\ Goto(d, "reset")
    /\ UNCHANGED <<kind, proxyVars, groupVars, singleVars, of, choice, failedTesting,
                   checkVars, stale>>

ResetFirst(d) ==
    /\ at[d] = "reset"
    /\ IF kind = "url-test" THEN Reset ELSE UNCHANGED singleVars
    /\ Goto(d, IF failedTesting THEN "last" ELSE "testing")
    /\ UNCHANGED <<kind, proxyVars, groupVars, of, choice, failVars, checkVars, stale>>

StartCheck ==
    test' = IF recent \/ Checking THEN test ELSE [p \in Proxies |-> "start"]

HealthCheck(d) ==
    /\ at[d] = "testing"
    /\ failedTesting' = TRUE
    /\ StartCheck
    /\ Goto(d, IF recent THEN "tested" ELSE "joined")
    /\ UNCHANGED <<kind, proxyVars, groupVars, singleVars, of, choice, failedTimes, mutex,
                   touched, recent, stale>>

Tested(d) ==
    /\ at[d] = "tested"
    /\ failedTesting' = FALSE /\ failedTimes' = 0
    /\ Goto(d, "last")
    /\ UNCHANGED <<kind, proxyVars, groupVars, singleVars, of, choice, mutex, checkVars, stale>>

ResetLast(d) ==
    /\ at[d] = "last"
    /\ IF kind = "url-test" THEN Reset ELSE UNCHANGED singleVars
    /\ mutex' = IF mutex = d THEN None ELSE mutex
    /\ Goto(d, "idle")
    /\ UNCHANGED <<kind, proxyVars, groupVars, of, choice, failedTimes, failedTesting,
                   checkVars, stale>>

-----------------------------------------------------------------------------
(* The check of the provider *)

(* Lazy: skipped unless the provider was used since the last tick. *)
Tick ==
    /\ touched /\ ~Checking
    /\ touched' = FALSE
    /\ StartCheck
    /\ UNCHANGED <<kind, proxyVars, groupVars, singleVars, dialVars, failVars, recent, stale>>

Observe(p) ==
    /\ test[p] = "start"
    /\ test' = [test EXCEPT ![p] = IF p \in up THEN "answered" ELSE "failed"]
    /\ UNCHANGED <<kind, proxyVars, groupVars, singleVars, dialVars, failVars, touched,
                   recent, stale>>

Ends(tests) == \A p \in Proxies : tests[p] = "done"

(* Mutant: a test that fails leaves no record. *)
RecordAnswer(p) ==
    /\ test[p] \in {"answered", "failed"}
    /\ delay' = IF test[p] = "failed" THEN delay ELSE [delay EXCEPT ![p] = Speed[p]]
    /\ test' = [test EXCEPT ![p] = "done"]
    /\ recent' = (recent \/ Ends(test'))
    /\ at' = [d \in Dialers |-> IF at[d] = "joined" /\ Ends(test') THEN "tested" ELSE at[d]]
    /\ UNCHANGED <<kind, up, flips, alive, groupVars, singleVars, of, choice, failVars, touched,
                   stale>>

(* The state for the url and its history, which are one step here.  With    *)
(* the last record the check ends, for all who joined it.                   *)
Record(p) ==
    /\ test[p] \in {"answered", "failed"}
    /\ alive' = [alive EXCEPT ![p] = (test[p] = "answered")]
    /\ delay' = [delay EXCEPT ![p] = IF test[p] = "answered" THEN Speed[p] ELSE NoDelay]
    /\ test' = [test EXCEPT ![p] = "done"]
    /\ recent' = (recent \/ Ends(test'))
    /\ at' = [d \in Dialers |-> IF at[d] = "joined" /\ Ends(test') THEN "tested" ELSE at[d]]
    /\ UNCHANGED <<kind, up, flips, groupVars, singleVars, of, choice, failVars, touched, stale>>

RecentExpires ==
    /\ recent
    /\ recent' = FALSE
    /\ UNCHANGED <<kind, proxyVars, groupVars, singleVars, dialVars, failVars, touched, test,
                   stale>>

(* A proxy goes down or comes back. *)
Flip(p) ==
    /\ flips < MaxFlips
    /\ flips' = flips + 1
    /\ up' = IF p \in up THEN up \ {p} ELSE up \cup {p}
    /\ UNCHANGED <<kind, alive, delay, groupVars, singleVars, dialVars, failVars, checkVars, stale>>

-----------------------------------------------------------------------------
Connection(d) ==
    \/ DialFallback(d) \/ DialUrlTest(d) \/ Scan(d) \/ Judge(d) \/ Replace(d)
    \/ ReturnFixed(d) \/ ReturnFastNode(d) \/ Keep(d) \/ Dial(d)
    \/ Count(d) \/ ResetFirst(d) \/ HealthCheck(d) \/ Tested(d) \/ ResetLast(d)
Test(p) == Observe(p) \/ Record(p)

Next ==
    \/ \E d \in Dialers : Connection(d)
    \/ \E p \in Proxies : Test(p) \/ Flip(p)
    \/ \E p \in Fixable : ForceSet(p)
    \/ ResultExpires \/ RecentExpires \/ Tick

(* Connections keep coming, tests end, time passes. *)
Fairness ==
    /\ \A d \in Dialers : WF_vars(Connection(d))
    /\ \A p \in Proxies : WF_vars(Test(p))
    /\ WF_vars(ResultExpires) /\ WF_vars(RecentExpires) /\ WF_vars(Tick)

-----------------------------------------------------------------------------
(* A caller never uses a choice that was computed before the Reset that     *)
(* preceded its call: the one after a health check, or after the user's.    *)
(* The exception is a computation that runs beside one a Reset has          *)
(* forgotten: the forgotten one may write fastNode between the other's last *)
(* write and its return, and its choice is then returned and shared.        *)
NothingStale == ~stale

(* While some proxy works, connections end up on one that does, whatever    *)
(* was shared, remembered or fixed before it failed.                        *)
GroupRecovers ==
    <>[](up # {} => \A d \in Dialers : at[d] = "dial" => choice[d] \in up)
=============================================================================
