------------------------------ MODULE DomainTrie ------------------------------
(***************************************************************************)
(* component/trie: the trie of domain patterns that hosts, DNS policies and*)
(* filters search, and the succinct set that rule sets make of it, which is*)
(* walked byte by byte with a stack of wildcards to go back to.            *)
(*                                                                         *)
(* A label is one byte: longer ones only make the walk longer.             *)
(***************************************************************************)
EXTENDS Integers, Sequences, FiniteSets, SequencesExt

CONSTANTS
    Letters,       \* labels of names: bytes greater than the dot
    MaxLabels,     \* bound: labels of a name or pattern
    MaxPatterns    \* bound: patterns inserted

Empty == 0    \* the label of the dot wildcard
Star == 1
Plus == 2
Dot == 3

VARIABLE ends    \* paths from the root to the nodes that hold data

Labels == Letters \cup {Star}
Domains == UNION {[1 .. n -> Letters] : n \in 1 .. MaxLabels}
Plain == UNION {[1 .. n -> Labels] : n \in 1 .. MaxLabels}
Patterns == Plain \cup {<<w>> \o p : w \in {Empty, Plus}, p \in {q \in Plain : Len(q) < MaxLabels}}

-----------------------------------------------------------------------------
(* insert stores the labels from the last to the first; "+." stands for the *)
(* domain itself and for what is below it.                                  *)
Paths(pattern) ==
    IF pattern[1] = Plus
    THEN {Reverse(Tail(pattern)), Reverse(<<Empty>> \o Tail(pattern))}
    ELSE {Reverse(pattern)}

Insert(pattern) ==
    ends' = ends \cup Paths(pattern)

Exists(path) == \E e \in ends : IsPrefix(path, e)
Child(path, label) == IF Exists(Append(path, label)) THEN {Append(path, label)} ELSE {}

(* Mutant: a static label that leads nowhere hides the wildcards. *)
RECURSIVE SearchStaticOnly(_, _)
SearchStaticOnly(path, parts) ==
    IF parts = <<>> THEN {path}
    ELSE LET label == IF Child(path, Last(parts)) # {} THEN Last(parts) ELSE Star
             below == UNION {SearchStaticOnly(c, Front(parts)) : c \in Child(path, label)} \cap ends
         IN  IF below # {} THEN below ELSE Child(path, Empty)

(* search: the static label before the wildcard, and the dot wildcard last. *)
(* The node found, or the empty set.                                        *)
RECURSIVE Search(_, _)
Search(path, parts) ==
    IF parts = <<>> THEN {path}
    ELSE LET Below(label) == UNION {Search(c, Front(parts)) : c \in Child(path, label)} \cap ends
         IN  CASE Below(Last(parts)) # {} -> Below(Last(parts))
               [] Below(Last(parts)) = {} /\ Below(Star) # {} -> Below(Star)
               [] OTHER -> Child(path, Empty)

-----------------------------------------------------------------------------
(* NewDomainSet: the patterns backwards, sorted.  The nodes of their tree   *)
(* breadth first: for each the bytes that lead on, and a one.               *)
Dotted(path) == [i \in 1 .. 2 * Len(path) - 1 |->
                        IF i % 2 = 0 THEN Dot ELSE IF path[(i + 1) \div 2] = Empty THEN Plus ELSE path[(i + 1) \div 2]]
Before(s, t) ==
    \/ Len(s) < Len(t)
    \/ Len(s) = Len(t) /\ \E i \in 1 .. Len(s) : s[i] < t[i] /\ \A j \in 1 .. i - 1 : s[j] = t[j]

NewDomainSet ==
    LET keys == {Dotted(e) : e \in ends}
        prefixes == UNION {{SubSeq(k, 1, n) : n \in 0 .. Len(k)} : k \in keys}
        nodes == [i \in 1 .. Cardinality(prefixes) |->
                    CHOOSE p \in prefixes : Cardinality({q \in prefixes : Before(q, p)}) = i - 1]
        Children(n) == {m \in 2 .. Len(nodes) : Front(nodes[m]) = nodes[n]}
        Row(n) == [i \in 1 .. Cardinality(Children(n)) + 1 |-> IF i > Cardinality(Children(n)) THEN 1 ELSE 0]
    IN  [leaves |-> {n - 1 : n \in {m \in 1 .. Len(nodes) : nodes[m] \in keys}},
         labelBitmap |-> FlattenSeq([n \in 1 .. Len(nodes) |-> Row(n)]),
         labels |-> [n \in 1 .. Len(nodes) - 1 |-> Last(nodes[n + 1])]]

CountZeros(ss, n) == Cardinality({i \in 1 .. n : ss.labelBitmap[i] = 0})
SelectIthOne(ss, n) ==
    CHOOSE i \in 0 .. Len(ss.labelBitmap) - 1 :
        ss.labelBitmap[i + 1] = 1 /\ Cardinality({j \in 1 .. i : ss.labelBitmap[j] = 1}) = n
Begin(ss, node) == SelectIthOne(ss, node - 1) + 1
Label(ss, node, bm) == ss.labels[bm - node + 1]

(* Where the label that byte i belongs to ends.                             *)
NextDot(key, i) ==
    CHOOSE j \in i .. Len(key) :
        /\ j = Len(key) \/ key[j + 1] = Dot
        /\ \A k \in i .. j - 1 : key[k + 1] # Dot

(* The first dot from bit bm on, beyond the node as well.                   *)
DotFrom(ss, node, bm) ==
    {b \in bm .. node + Len(ss.labels) - 1 :
        /\ Label(ss, node, b) = Dot
        /\ \A k \in bm .. b - 1 : Label(ss, node, k) # Dot}

(* Has, from byte i of the key, a node and a bit.                           *)
RECURSIVE Walk(_, _, _, _, _, _)
Walk(ss, key, i, node, bm, stack) ==
    IF i = Len(key) THEN node \in ss.leaves
    ELSE IF ss.labelBitmap[bm + 1] = 1
    THEN stack # <<>> /\
         LET cursor == Last(stack)
             next == CountZeros(ss, cursor.bm + 1)
             j == NextDot(key, cursor.index)
         IN  IF j = Len(key)
             THEN next \in ss.leaves \/ Walk(ss, key, i, node, bm, Front(stack))
             ELSE \E b \in DotFrom(ss, next, Begin(ss, next)) : Walk(ss, key, j, next, b, Front(stack))
    ELSE CASE Label(ss, node, bm) = Plus -> TRUE
           [] Label(ss, node, bm) = Star ->
                Walk(ss, key, i, node, bm + 1, Append(stack, [bm |-> bm, index |-> i]))
           [] Label(ss, node, bm) = key[i + 1] ->
                LET next == CountZeros(ss, bm + 1) IN Walk(ss, key, i + 1, next, Begin(ss, next), stack)
           [] OTHER -> Walk(ss, key, i, node, bm + 1, stack)

Has(ss, name) == Walk(ss, Dotted(Reverse(name)), 0, 0, 0, <<>>)

-----------------------------------------------------------------------------
Init == ends = {}

Next ==
    \E p \in Patterns :
        /\ Cardinality(ends) < MaxPatterns
        /\ Insert(p)

Spec == Init /\ [][Next]_ends

-----------------------------------------------------------------------------
(* What a pattern stands for, and how specific it is: for every label of the*)
(* name, from the last on, what the pattern says of it.                     *)
Covers(path, name) ==
    LET n == Len(path)
        fixed == IF path[n] = Empty THEN n - 1 ELSE n
    IN  /\ IF path[n] = Empty THEN Len(name) >= n ELSE Len(name) = n
        /\ \A i \in 1 .. fixed : path[i] \in {Star, name[Len(name) + 1 - i]}

Rank(label) == CASE label = Empty -> 0 [] label = Star -> 1 [] OTHER -> 2
MoreSpecific(p, q) ==
    \E i \in 1 .. Len(p) :
        /\ i > Len(q) \/ Rank(p[i]) > Rank(q[i])
        /\ \A j \in 1 .. i - 1 : p[j] = q[j]

(* Search finds the most specific pattern that covers a name, and nothing   *)
(* only when none does; and what a set of the same patterns has, they cover.*)
Found(name) == Search(<<>>, name) \cap ends
FindsTheBest ==
    LET ss == NewDomainSet IN
    \A name \in Domains :
        LET best == {e \in ends : Covers(e, name) /\ ~\E f \in ends : Covers(f, name) /\ MoreSpecific(f, e)}
        IN  Found(name) = best /\ (ends # {} /\ Has(ss, name) => best # {})

(* A set has every name that the patterns it was made of cover.             *)
HasWhatIsPresent ==
    LET ss == NewDomainSet IN
    ends # {} => \A name \in Domains : (\E e \in ends : Covers(e, name)) => Has(ss, name)
=============================================================================
