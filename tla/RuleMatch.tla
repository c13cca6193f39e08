-------------------------------- MODULE RuleMatch --------------------------------
(***************************************************************************)
(* The rules of a configuration, read and verified by config and walked by *)
(* tunnel.match for every connection: a rule names a proxy, or a list of   *)
(* sub-rules, which may name further lists.  A condition is a fact about   *)
(* the connection; logic rules, that only combine conditions, are left out.*)
(***************************************************************************)
EXTENDS Integers, Sequences, FiniteSets, SequencesExt

CONSTANTS
    Facts,      \* conditions; "match" always holds
    Outbounds,    \* proxies of the configuration
    Pass,       \* those among them that stand for, or have selected, PASS
    NoUDP,      \* those that do not support UDP
    Lists,      \* names of sub-rules
    MaxRules,   \* bound: per list, the length of a list of rules
    Unknown     \* a name nothing has

Plain == [cond : Facts \cup {"match"}, sub : {FALSE}, target : Outbounds]
Sub == [cond : Facts \cup {"match"}, sub : {TRUE}, target : Lists]
Wrong == [cond : {"match"}, sub : {FALSE}, target : {Unknown}]
            \cup [cond : {"match"}, sub : {TRUE}, target : Outbounds]
RuleLists(n) == UNION {[1 .. k -> Plain \cup Sub \cup Wrong] : k \in 0 .. n}
Main == "main"

VARIABLES rules,     \* per list, the sub-rules and the main list
          holds, udp, \* the connection
          pc, at, result

vars == <<rules, holds, udp, pc, at, result>>

Init ==
    /\ rules \in [Lists \cup {Main} -> RuleLists(2)]
    /\ \A l \in DOMAIN rules : Len(rules[l]) <= MaxRules[l]
    /\ holds = {} /\ udp = FALSE
    /\ pc = "parse" /\ at = 1 /\ result = "none"

-----------------------------------------------------------------------------
(* parseRules: the target of a sub-rule may also have the name of a proxy.  *)
ParseRules(list) ==
    \A i \in DOMAIN list :
        list[i].target \in Outbounds \/ (list[i].sub /\ list[i].target \in Lists)

(* verifySubRuleCircularReferences: arr holds the lists on the way to n.    *)
Verify[n \in Lists, arr \in SUBSET Lists] ==
    \A i \in DOMAIN rules[n] :
        LET r == rules[n][i] IN
        r.sub => /\ r.target \in Lists
                 /\ r.target \notin arr \cup {n}
                 /\ Verify[r.target, arr \cup {n}]

Parse ==
    /\ pc = "parse"
    /\ pc' = IF /\ \A l \in DOMAIN rules : ParseRules(rules[l])
                /\ \A l \in Lists : Verify[l, {}]
             THEN "running" ELSE "refused"
    /\ UNCHANGED <<rules, holds, udp, at, result>>

(* A connection comes. *)
Connect ==
    /\ pc = "running" /\ pc' = "match"
    /\ holds' \in SUBSET Facts /\ udp' \in BOOLEAN
    /\ UNCHANGED <<rules, at, result>>

Holds(r) == r.cond = "match" \/ r.cond \in holds
NoMatch == "no match"

(* Mutant: the first nested list that is entered decides. *)
RECURSIVE MatchSubRulesEnters(_)
MatchSubRulesEnters(name) ==
    LET list == IF name \in Lists THEN rules[name] ELSE <<>>
        hits == {i \in DOMAIN list : Holds(list[i])}
    IN  IF hits = {} THEN NoMatch
        ELSE LET r == list[CHOOSE i \in hits : \A j \in hits : i <= j] IN
             IF r.sub THEN MatchSubRulesEnters(r.target) ELSE r.target

(* matchSubRules and Logic.Match: a sub-rule matches when its condition     *)
(* holds and something in its list matches, which then is looked up again.  *)
RECURSIVE MatchSubRules(_)
MatchSubRules(name) ==
    LET list == IF name \in Lists THEN rules[name] ELSE <<>>
        Match(r) == Holds(r) /\ (r.sub => MatchSubRules(r.target) # NoMatch)
        hits == {i \in DOMAIN list : Match(list[i])}
    IN  IF hits = {} THEN NoMatch
        ELSE LET r == list[CHOOSE i \in hits : \A j \in hits : i <= j] IN
             IF r.sub THEN MatchSubRules(r.target) ELSE r.target

Adapter(r) == IF ~Holds(r) THEN NoMatch ELSE IF r.sub THEN MatchSubRules(r.target) ELSE r.target

(* tunnel.match: one rule at a time.                                        *)
Usable(ada) == ada \in Outbounds \ Pass /\ ~(udp /\ ada \in NoUDP)

MatchRule ==
    /\ pc = "match" /\ at <= Len(rules[Main])
    /\ LET ada == Adapter(rules[Main][at]) IN
       IF Usable(ada) THEN pc' = "decided" /\ result' = ada /\ UNCHANGED at
       ELSE at' = at + 1 /\ UNCHANGED <<pc, result>>
    /\ UNCHANGED <<rules, holds, udp>>

MatchNone ==
    /\ pc = "match" /\ at > Len(rules[Main])
    /\ pc' = "decided" /\ result' = "DIRECT"
    /\ UNCHANGED <<rules, holds, udp, at>>

Next == Parse \/ Connect \/ MatchRule \/ MatchNone

Spec == Init /\ [][Next]_vars

-----------------------------------------------------------------------------
Refers(a, b) == \E i \in DOMAIN rules[a] : rules[a][i].sub /\ rules[a][i].target = b
Paths(n) == [1 .. n -> Lists]
Circular == \E n \in 2 .. Cardinality(Lists) + 1 : \E p \in Paths(n) :
    p[1] = p[n] /\ \A i \in 1 .. n - 1 : Refers(p[i], p[i + 1])

(* Rules are refused exactly when a target does not exist or lists refer to *)
(* one another in a circle, at any distance: what is accepted can be walked *)
(* without end.                                                             *)
RefusedIffBroken ==
    pc # "parse" =>
        (pc = "refused" <=>
            \/ Circular
            \/ \E l \in DOMAIN rules : \E i \in DOMAIN rules[l] :
                 LET r == rules[l][i] IN
                 r.target \notin (IF r.sub THEN Lists ELSE Outbounds)
                   /\ ~(l = Main /\ r.sub /\ r.target \in Outbounds))

(* The rules written out flat: every way through the lists to a proxy, with *)
(* the conditions on the way, in the order of the file.                     *)
RECURSIVE Flat(_)
Flat(list) ==
    FlattenSeq([i \in DOMAIN list |->
        LET r == list[i] IN
        IF ~r.sub THEN <<[conds |-> {r.cond}, target |-> r.target]>>
        ELSE IF r.target \notin Lists THEN <<>>
        ELSE LET f == Flat(rules[r.target]) IN
             [j \in DOMAIN f |-> [conds |-> f[j].conds \cup {r.cond}, target |-> f[j].target]]])
FirstHit(list) ==
    LET f == Flat(list)
        hits == {j \in DOMAIN f : f[j].conds \subseteq holds \cup {"match"}}
    IN  IF hits = {} THEN NoMatch ELSE f[CHOOSE j \in hits : \A k \in hits : j <= k].target

(* A connection goes to the proxy of the first way through the rules that   *)
(* holds, but a rule whose way ends at PASS, or at a proxy without UDP for a*)
(* packet, is skipped as a whole; without any, it goes DIRECT.              *)
FirstUsableRule ==
    pc = "decided" =>
        LET usable == {i \in DOMAIN rules[Main] : Usable(FirstHit(<<rules[Main][i]>>))} IN
        result = IF usable = {} THEN "DIRECT"
                 ELSE FirstHit(<<rules[Main][CHOOSE i \in usable : \A j \in usable : i <= j]>>)

(* A file of rules is refused when it makes no sense, and otherwise decides *)
(* every connection as it is written.                                       *)
RulesDecide == RefusedIffBroken /\ FirstUsableRule
=============================================================================
