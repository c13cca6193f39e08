------------------------------- MODULE MCNames -------------------------------
(***************************************************************************)
(* What a user writes about names and where they lead: the pool of fake    *)
(* addresses, the trie of domain patterns, the rules and the groups of     *)
(* proxies.  Each behaviour is about one part, the subject; the others     *)
(* stay as they are or are off.                                            *)
(***************************************************************************)
EXTENDS FakeIPPool, TLC

CONSTANTS
    Subjects,
    h1, h2, h3, h4,
    Letters, MaxLabels, MaxPatterns,
    Facts, Outbounds, Pass, NoUDP, Lists,
    GroupNames, Singles, Unknown, MaxGroups, MaxMembers

MCHosts == {h1, h2, h3, h4}
MCPair == {h1, h2}
MaxRules == [l \in Lists \cup {"main"} |-> IF l = "l2" THEN 1 ELSE 2]
Symmetry == Permutations(GroupNames)

VARIABLES
    subject,
    ends,
    rules, holds, udp, rulesAt, at, result,
    file, graph, queue, sorted, made, groupsAt, loop
ruleVars == <<rules, holds, udp, rulesAt, at, result>>
groupVars == <<file, graph, queue, sorted, made, groupsAt, loop>>
allVars == <<subject, vars, ends, ruleVars, groupVars>>

Trie == INSTANCE DomainTrie
Match == INSTANCE RuleMatch WITH pc <- rulesAt
Sort == INSTANCE ProxyGroups WITH pc <- groupsAt, Names <- GroupNames

Off(v) == v = "off"
RulesOff == Off(rules) /\ Off(holds) /\ Off(udp) /\ Off(rulesAt) /\ Off(at) /\ Off(result)
GroupsOff ==
    Off(file) /\ Off(graph) /\ Off(queue) /\ Off(sorted) /\ Off(made) /\ Off(groupsAt) /\ Off(loop)

(* A part that is not the subject starts in one of its initial states.      *)
SuiteInit ==
    /\ subject \in Subjects
    /\ Init /\ Trie!Init
    /\ IF subject = "rules" THEN Match!Init ELSE RulesOff
    /\ IF subject = "groups" THEN Sort!Init ELSE GroupsOff

P(A) == subject = "pool" /\ A /\ UNCHANGED <<subject, ends, ruleVars, groupVars>>
T(A) == subject = "trie" /\ A /\ UNCHANGED <<subject, vars, ruleVars, groupVars>>
R(A) == subject = "rules" /\ A /\ UNCHANGED <<subject, vars, ends, groupVars>>
G(A) == subject = "groups" /\ A /\ UNCHANGED <<subject, vars, ends, ruleVars>>

SuiteNext ==
    \/ P(Next)
    \/ T(Trie!Next)
    \/ R(Match!Parse) \/ R(Match!Connect) \/ R(Match!MatchRule) \/ R(Match!MatchNone)
    \/ G(Sort!Build) \/ G(Sort!StartQueue) \/ G(Sort!Sort) \/ G(Sort!Sorted) \/ G(Sort!Locate)
    \/ G(Sort!Prune) \/ G(Sort!Report) \/ G(Sort!MakeGroup) \/ G(Sort!AllMade)

SuiteSpec == SuiteInit /\ [][SuiteNext]_allVars

(* A file of rules is refused when it makes no sense, and otherwise decides *)
(* every connection as it is written.                                       *)
RulesDecide == subject = "rules" => Match!RulesDecide

(* The trie finds the most specific pattern, and a set made of it has no    *)
(* name that the trie has not.                                              *)
FindsTheBest == subject = "trie" => Trie!FindsTheBest

(* A file of groups is accepted exactly when it makes sense, and the error  *)
(* for a loop names the groups on loops and between them.                   *)
VerdictIsRight == subject = "groups" => Sort!VerdictIsRight
=============================================================================
