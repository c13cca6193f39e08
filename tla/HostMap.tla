------------------------------- MODULE HostMap -------------------------------
(***************************************************************************)
(* What a pool of fake addresses promises: "Lookup return a fake ip with   *)
(* host", "LookBack return host with the fake ip" (component/fakeip/       *)
(* pool.go).  Hosts and addresses are paired one to one, a host keeps its  *)
(* address until the pair is forgotten, and every answer is a pair.        *)
(***************************************************************************)
CONSTANTS Hosts, Addresses, NoHost

VARIABLES
    map,        \* the pairs <<host, address>>
    answer      \* the last call that returned, and what it returned

OneToOne(m) == \A p, q \in m : p[1] = q[1] <=> p[2] = q[2]

NoAnswer == [call |-> "none"]
Init == map = {} /\ answer = NoAnswer

(* Any pair can be forgotten, at any time. *)
Forget == map' \subseteq map /\ UNCHANGED answer

Lookup(h, a) ==
    /\ \A p \in map : p[1] = h => p[2] = a
    /\ <<h, a>> \in map' /\ map' \subseteq map \cup {<<h, a>>}
    /\ OneToOne(map')
    /\ answer' = [call |-> "Lookup", host |-> h, ip |-> a]

LookBack(h, a) ==
    /\ IF h = NoHost THEN \A p \in map : p[2] # a ELSE <<h, a>> \in map
    /\ UNCHANGED map
    /\ answer' = [call |-> "LookBack", host |-> h, ip |-> a]

Next ==
    \/ Forget
    \/ \E h \in Hosts, a \in Addresses : Lookup(h, a)
    \/ \E h \in Hosts \cup {NoHost}, a \in Addresses : LookBack(h, a)

Spec == Init /\ [][Next]_<<map, answer>>
=============================================================================
