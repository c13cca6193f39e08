-------------------------------- MODULE Dialer --------------------------------
(***************************************************************************)
(* One DialContext of the core's dialer: the addresses of a host are tried *)
(* one after the other or all at once (tcp-concurrent), and the two        *)
(* families race each other when the network leaves them open.  A group is *)
(* the addresses one inner dial tries; racers hand over their results      *)
(* through unbuffered channels, until their reader has returned.           *)
(***************************************************************************)
EXTENDS Integers

CONSTANTS
    Addresses,      \* of the host, in the order of the resolver
    IPv6            \* those of the second family

ASSUME AddressesAssumption == Addresses \subseteq Nat \ {0}

Pending == 0
Failed == -1

VARIABLES
    ips,            \* what the resolver returned
    concurrent,     \* tcp-concurrent
    prefer,         \* 4, 6 or 0
    dual,           \* dualStackDialContext, or one inner dial alone
    racer,          \* each address: still to be dialled or under way, its
                    \* result waiting, heard, or dropped
    conn,           \* each address: its connection
    inner,          \* each group: what its dial returned
    told,           \* the groups that handed over their result, or dropped it
    fallback,       \* connection of the family that is not preferred
    outcome         \* what the caller got

vars == <<ips, concurrent, prefer, dual, racer, conn, inner, told, fallback, outcome>>
howVars == <<ips, concurrent, prefer, dual>>
dualVars == <<told, fallback, outcome>>

(* The groups are named 4 and 6; a dial for all families is group 0. *)
GroupOf(a) == IF ~dual THEN 0 ELSE IF a \in IPv6 THEN 6 ELSE 4
Groups == {GroupOf(a) : a \in ips}
Members(g) == {a \in ips : GroupOf(a) = g}
Primary(g) == prefer = 0 \/ g = prefer

TypeOK ==
    /\ ips \subseteq Addresses
    /\ concurrent \in BOOLEAN /\ prefer \in {0, 4, 6} /\ dual \in BOOLEAN
    /\ racer \in [Addresses -> {"dialling", "holds", "heard", "dropped"}]
    /\ conn \in [Addresses -> {"none", "open", "closed"}]
    /\ inner \in [{0, 4, 6} -> Addresses \cup {Pending, Failed}]
    /\ told \subseteq {0, 4, 6}
    /\ fallback \in Addresses \cup {Pending}
    /\ outcome \in Addresses \cup {Pending, Failed}

(* A network with one family, or tcp-concurrent without a preference, needs *)
(* no race of the families.                                                 *)
Init ==
    /\ ips \in SUBSET Addresses \ {{}}
    /\ concurrent \in BOOLEAN /\ prefer \in {0, 4, 6} /\ dual \in BOOLEAN
    /\ ~dual => prefer = 0
    /\ dual /\ concurrent => prefer # 0
    /\ racer = [a \in Addresses |-> "dialling"]
    /\ conn = [a \in Addresses |-> "none"]
    /\ inner = [g \in {0, 4, 6} |-> Pending]
    /\ told = {} /\ fallback = Pending /\ outcome = Pending

Opened(a) == conn[a] = "open"

-----------------------------------------------------------------------------
(* parallelDialContext, serialDialContext *)

(* The loop of the serial dial goes on after a failure only. *)
Turn(a) ==
    \/ concurrent
    \/ /\ inner[GroupOf(a)] = Pending
       /\ \A b \in Members(GroupOf(a)) : b < a => racer[b] = "heard"

Dialled(a, end) ==
    /\ a \in ips /\ racer[a] = "dialling" /\ Turn(a)
    /\ racer' = [racer EXCEPT ![a] = "holds"]
    /\ conn' = [conn EXCEPT ![a] = end]
    /\ UNCHANGED <<howVars, inner, dualVars>>

Hear(a) ==
    /\ racer[a] = "holds" /\ inner[GroupOf(a)] = Pending
    /\ racer' = [racer EXCEPT ![a] = "heard"]
    /\ inner' = [inner EXCEPT ![GroupOf(a)] =
         IF Opened(a) THEN a
         ELSE IF \A b \in Members(GroupOf(a)) \ {a} : racer[b] = "heard" THEN Failed
         ELSE Pending]
    /\ UNCHANGED <<howVars, conn, dualVars>>

Closed(c, a) == [c EXCEPT ![a] = IF @ = "open" THEN "closed" ELSE @]

(* The reader has returned: the racer takes the channel that was closed. *)
Drop(a) ==
    /\ racer[a] = "holds" /\ inner[GroupOf(a)] # Pending
    /\ racer' = [racer EXCEPT ![a] = "dropped"]
    /\ conn' = Closed(conn, a)
    /\ UNCHANGED <<howVars, inner, dualVars>>

-----------------------------------------------------------------------------
(* dualStackDialContext *)

Waiting(g) == g \in Groups \ told /\ inner[g] # Pending

(* Mutant: a family that comes too late keeps its connection. *)
LateFamilyForgets(g) ==
    /\ dual /\ Waiting(g) /\ outcome # Pending
    /\ told' = told \cup {g}
    /\ UNCHANGED <<howVars, racer, conn, inner, fallback, outcome>>

LateFamily(g) ==
    /\ dual /\ Waiting(g) /\ outcome # Pending
    /\ told' = told \cup {g}
    /\ conn' = IF inner[g] = Failed THEN conn ELSE Closed(conn, inner[g])
    /\ UNCHANGED <<howVars, racer, inner, fallback, outcome>>

HearFamily(g) ==
    /\ dual /\ Waiting(g) /\ outcome = Pending
    /\ told' = told \cup {g}
    /\ \/ inner[g] = Failed /\ UNCHANGED <<fallback, outcome>>
       \/ /\ inner[g] # Failed /\ Primary(g)
          /\ outcome' = inner[g] /\ UNCHANGED fallback
       \/ /\ inner[g] # Failed /\ ~Primary(g)
          /\ fallback' = inner[g] /\ UNCHANGED outcome
    /\ UNCHANGED <<howVars, racer, conn, inner>>

(* The ticker, which is not reset when the fallback arrives. *)
Tick ==
    /\ outcome = Pending /\ fallback # Pending
    /\ outcome' = fallback
    /\ UNCHANGED <<howVars, racer, conn, inner, told, fallback>>

(* The channel of the results is closed when both families have been heard. *)
AllHeard ==
    /\ dual /\ outcome = Pending /\ told = Groups
    /\ outcome' = IF fallback # Pending THEN fallback ELSE Failed
    /\ UNCHANGED <<howVars, racer, conn, inner, told, fallback>>

(* One inner dial alone returns to the caller itself. *)
Return ==
    /\ ~dual /\ Waiting(0)
    /\ outcome' = inner[0] /\ told' = told \cup {0}
    /\ UNCHANGED <<howVars, racer, conn, inner, fallback>>

Next ==
    \/ \E a \in Addresses :
         \/ Dialled(a, "open") \/ Dialled(a, "none")
         \/ Hear(a) \/ Drop(a)
    \/ \E g \in {4, 6} : LateFamily(g) \/ HearFamily(g)
    \/ Tick \/ AllHeard \/ Return

Spec == Init /\ [][Next]_vars

-----------------------------------------------------------------------------
(* Somebody will still use or close the connection: its racer, the family   *)
(* whose result it is, or the caller.  The one exception is a fallback that *)
(* a primary result overtakes: it stays open.                               *)
Held(a) ==
    \/ racer[a] = "holds"
    \/ inner[GroupOf(a)] = a /\ GroupOf(a) \notin told
    \/ a \in {fallback, outcome}

(* However the attempts overlap, no connection is forgotten, the caller gets*)
(* one that nobody closes, of the preferred family unless that one failed or*)
(* was too late, and an error only after every address was tried in vain.   *)
DialIsSound ==
    /\ \A a \in ips : Opened(a) => Held(a)
    /\ outcome \in Addresses => Opened(outcome)
    /\ fallback # Pending => Opened(fallback) /\ ~Primary(GroupOf(fallback))
    /\ outcome = Failed => \A a \in ips : racer[a] = "heard" /\ conn[a] = "none"
=============================================================================
