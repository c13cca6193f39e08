------------------------------- MODULE ProxyGroups -------------------------------
(***************************************************************************)
(* config: the proxy groups of a file are sorted so that a group comes     *)
(* after the groups it names, and are then made one after the other, each  *)
(* from proxies that exist by then.  proxyGroupsDagSort walks a map of     *)
(* nodes with a queue, and empties the map of all that is on no loop.      *)
(* Providers and the other options of a group are left out.                *)
(***************************************************************************)
EXTENDS Integers, Sequences, FiniteSets, SequencesExt

CONSTANTS
    Names,       \* names a group may have
    Singles,       \* proxies that are no groups
    Unknown,     \* a name nothing has
    MaxGroups,   \* bound: groups in the file
    MaxMembers   \* bound: proxies a group names

Members == UNION {[1 .. n -> Names \cup Singles \cup {Unknown}] : n \in 0 .. MaxMembers}
Files == UNION {[1 .. n -> [name : Names, proxies : Members]] : n \in 1 .. MaxGroups}

VARIABLES
    file,    \* groupsConfig as it was read
    graph,   \* the nodes that are left, with their degrees
    queue,
    sorted,  \* groupsConfig from its end, as far as it has been rewritten
    made,    \* proxies
    pc,      \* build, queue, sort, locate, prune, make, then the outcome
    loop     \* names the error reports

vars == <<file, graph, queue, sorted, made, pc, loop>>

Init ==
    /\ file \in Files
    /\ graph = <<>> /\ queue = <<>> /\ sorted = <<>>
    /\ made = Singles /\ loop = {}
    /\ pc = "build"

Count(p, s) == Cardinality({i \in DOMAIN s : s[i] = p})
GroupsOf(name) == {i \in DOMAIN file : file[i].name = name}
IsGroup(name) == GroupsOf(name) # {}
Proxies(name) == IF IsGroup(name) THEN file[CHOOSE i \in GroupsOf(name) : TRUE].proxies ELSE <<>>
Named == UNION {{file[i].name} \cup ToSet(file[i].proxies) : i \in DOMAIN file}
InDegree(p) == FoldLeft(+, 0, [i \in DOMAIN file |-> Count(p, file[i].proxies)])

Build ==
    /\ pc = "build"
    /\ IF \E i, j \in DOMAIN file : i # j /\ file[i].name = file[j].name
       THEN pc' = "duplicate" /\ UNCHANGED graph
       ELSE /\ graph' = [p \in Named |-> InDegree(p)]
            /\ pc' = "queue"
    /\ UNCHANGED <<file, queue, sorted, made, loop>>

(* The map of nodes is walked in any order.                                 *)
StartQueue ==
    /\ pc = "queue"
    /\ queue' \in SetToSeqs({p \in DOMAIN graph : graph[p] = 0})
    /\ pc' = "sort"
    /\ UNCHANGED <<file, graph, sorted, made, loop>>

(* Degrees fall by one for every mention; what falls to zero joins the      *)
(* queue.                                                                   *)
Lower(mentioned) ==
    LET f == FoldLeft(LAMBDA s, p :
                 LET g == [s.graph EXCEPT ![p] = @ - 1] IN
                 [graph |-> g, queue |-> IF g[p] = 0 THEN Append(s.queue, p) ELSE s.queue],
                 [graph |-> graph, queue |-> Tail(queue)], mentioned)
    IN  /\ graph' = [p \in DOMAIN graph \ {Head(queue)} |-> f.graph[p]]
        /\ queue' = f.queue

(* Mutant: the sorted groups are written from the front. *)
SortFront ==
    /\ pc = "sort" /\ queue # <<>>
    /\ Lower(Proxies(Head(queue)))
    /\ sorted' = IF IsGroup(Head(queue)) THEN Append(sorted, Head(queue)) ELSE sorted
    /\ UNCHANGED <<file, made, pc, loop>>

Sort ==
    /\ pc = "sort" /\ queue # <<>>
    /\ Lower(Proxies(Head(queue)))
    /\ sorted' = IF IsGroup(Head(queue)) THEN <<Head(queue)>> \o sorted ELSE sorted
    /\ UNCHANGED <<file, made, pc, loop>>

Sorted ==
    /\ pc = "sort" /\ queue = <<>>
    /\ pc' = IF DOMAIN graph = {} THEN "make" ELSE "locate"
    /\ UNCHANGED <<file, graph, queue, sorted, made, loop>>

(* What is left is on a loop or behind one; now from the leaves.            *)
Locate ==
    /\ pc = "locate"
    /\ graph' = [p \in DOMAIN graph |-> Len(Proxies(p))]
    /\ queue' \in SetToSeqs({p \in DOMAIN graph : Proxies(p) = <<>>})
    /\ pc' = "prune"
    /\ UNCHANGED <<file, sorted, made, loop>>

(* node.from: the nodes left that name it, as often as they do.             *)
From(p, nodes) ==
    FoldLeft(LAMBDA s, i : IF file[i].name \in nodes
                           THEN s \o [k \in 1 .. Count(p, file[i].proxies) |-> file[i].name] ELSE s,
             <<>>, [i \in DOMAIN file |-> i])

Prune ==
    /\ pc = "prune" /\ queue # <<>>
    /\ Lower(From(Head(queue), DOMAIN graph))
    /\ UNCHANGED <<file, sorted, made, pc, loop>>

Report ==
    /\ pc = "prune" /\ queue = <<>>
    /\ loop' = DOMAIN graph
    /\ pc' = "loop"
    /\ UNCHANGED <<file, graph, queue, sorted, made>>

(* ParseProxyGroup: members must exist, the name must not.                  *)
MakeGroup ==
    /\ pc = "make" /\ sorted # <<>>
    /\ LET name == Head(sorted) IN
       IF Proxies(name) = <<>> \/ ~ToSet(Proxies(name)) \subseteq made \/ name \in made
       THEN pc' = "unusable" /\ UNCHANGED <<made, sorted>>
       ELSE made' = made \cup {name} /\ sorted' = Tail(sorted) /\ UNCHANGED pc
    /\ UNCHANGED <<file, graph, queue, loop>>

AllMade ==
    /\ pc = "make" /\ sorted = <<>>
    /\ pc' = "accepted"
    /\ UNCHANGED <<file, graph, queue, sorted, made, loop>>

Next ==
    \/ Build \/ StartQueue \/ Sort \/ Sorted \/ Locate \/ Prune \/ Report \/ MakeGroup \/ AllMade

Spec == Init /\ [][Next]_vars

-----------------------------------------------------------------------------
Groups == {file[i].name : i \in DOMAIN file}
Names1(a, b) == b \in ToSet(Proxies(a))
RECURSIVE Below(_)
Below(S) ==
    LET T == S \cup {b \in Named : \E a \in S : Names1(a, b)} IN IF T = S THEN S ELSE Below(T)
OnLoop(a) == a \in Below({b \in Named : Names1(a, b)})

(* A file is accepted exactly when it makes sense: its names are different, *)
(* every group names something, all that exists, and no group contains      *)
(* itself through any number of others.                                     *)
AcceptedIffSound ==
    pc \in {"duplicate", "loop", "unusable", "accepted"} =>
        (pc = "accepted" <=>
            /\ Cardinality(Groups) = Len(file) /\ Groups \cap Singles = {}
            /\ \A g \in Groups : Proxies(g) # <<>> /\ ToSet(Proxies(g)) \subseteq Groups \cup Singles
            /\ \A g \in Groups : ~OnLoop(g))

(* The error for a loop names the groups on loops, and with them those that  *)
(* lie on the way from one loop to another: these have nodes left on both    *)
(* sides, so that neither of the two removals takes them away.  The comments *)
(* of the code say of what is left, and reported, that it is the loops only. *)
BetweenLoops(g) ==
    \E a, b \in Groups : OnLoop(a) /\ OnLoop(b) /\ g \in Below({a}) /\ b \in Below({g})
LoopNamed == pc = "loop" => loop = {g \in Groups : OnLoop(g) \/ BetweenLoops(g)}

(* The verdict on a file, and what it says of it, are right.                *)
VerdictIsRight == AcceptedIffSound /\ LoopNamed
=============================================================================
