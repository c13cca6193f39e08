------------------------------ MODULE CoreProofs ------------------------------
(***************************************************************************)
(* For any values of the constants: what holds of the dialer, of the       *)
(* resolver, of the handlers that remember answers, of a proxy group, of   *)
(* the sessions of anytls and of the listeners, alone and in the suite     *)
(* where each is the subject of some behaviours.                           *)
(***************************************************************************)
EXTENDS MCCore, FiniteSetTheorems, WellFoundedInduction, TLAPS

(* ---- Dialer. ------------------------------------------------------------*)
(* The invariant follows a result along its way: an open connection is its  *)
(* racer's, then the result of its group, then what the families' race      *)
(* keeps (fallback or outcome).                                             *)
RacerInv ==
    \A a \in Addresses :
        /\ a \notin ips => racer[a] = "dialling"
        /\ racer[a] = "dialling" => conn[a] = "none"
        /\ racer[a] = "holds" => conn[a] # "closed"
        /\ racer[a] = "dropped" => conn[a] # "open"
        /\ racer[a] = "heard" => conn[a] = "none" \/ inner[GroupOf(a)] = a

InnerInv ==
    \A g \in {0, 4, 6} :
        /\ inner[g] \in Addresses =>
             /\ GroupOf(inner[g]) = g /\ racer[inner[g]] = "heard"
             /\ g \notin told => Opened(inner[g])
        /\ inner[g] = Failed =>
             \A a \in ips : GroupOf(a) = g => racer[a] = "heard" /\ conn[a] = "none"

(* What the race of the families has heard of is kept or was closed. *)
ToldInv ==
    \A g \in told :
        /\ inner[g] # Pending
        /\ inner[g] \in Addresses /\ Opened(inner[g]) => inner[g] \in {fallback, outcome}
        /\ inner[g] \in Addresses /\ outcome = Pending => inner[g] = fallback

Kept(c) == c \in ips /\ Opened(c) /\ inner[GroupOf(c)] = c /\ GroupOf(c) \in told

ResultInv ==
    /\ outcome \in Addresses => Kept(outcome)
    /\ fallback # Pending => Kept(fallback) /\ ~Primary(GroupOf(fallback))
    /\ outcome = Failed => \A a \in ips : racer[a] = "heard" /\ conn[a] = "none"

DialInv == TypeOK /\ RacerInv /\ InnerInv /\ ToldInv /\ ResultInv

LEMMA NoAddress == Pending \notin Addresses /\ Failed \notin Addresses
BY AddressesAssumption, SMT DEF Pending, Failed

LEMMA GroupIsOne == \A a : GroupOf(a) \in {0, 4, 6}
BY DEF GroupOf

(* A step that leaves `dual' alone leaves the groups alone. *)
LEMMA GroupsStay ==
    UNCHANGED dual => \A a : GroupOf(a)' = GroupOf(a)
BY DEF GroupOf

LEMMA DialInit == Init => DialInv
<1> SUFFICES ASSUME Init PROVE DialInv
  OBVIOUS
<1>1. TypeOK
  BY NoAddress, SMT DEF Init, TypeOK, Pending, Failed
<1>2. RacerInv
  BY DEF Init, RacerInv
<1>3. InnerInv
  BY NoAddress, GroupIsOne, SMT DEF Init, InnerInv, Pending, Failed
<1>4. ToldInv
  BY DEF Init, ToldInv
<1>5. ResultInv
  BY NoAddress, SMT DEF Init, ResultInv, Pending, Failed
<1> QED
  BY <1>1, <1>2, <1>3, <1>4, <1>5 DEF DialInv

LEMMA DialledStep ==
    ASSUME DialInv, NEW a \in Addresses, NEW end \in {"open", "none"}, Dialled(a, end)
    PROVE  DialInv'
<1> USE NoAddress, GroupIsOne
<1>0. UNCHANGED dual /\ \A b : GroupOf(b)' = GroupOf(b)
  BY GroupsStay DEF Dialled, howVars
<1>1. TypeOK'
  BY SMT DEF DialInv, TypeOK, Dialled, howVars, dualVars
<1>2. RacerInv'
  BY <1>0, SMT DEF DialInv, TypeOK, RacerInv, Dialled, howVars, dualVars
<1>3. InnerInv'
  BY <1>0, SMT DEF DialInv, TypeOK, InnerInv, Opened, Dialled, howVars, dualVars
<1>4. ToldInv'
  <2>1. \A g \in told : inner[g] \in Addresses => racer[inner[g]] = "heard"
    BY SMT DEF DialInv, TypeOK, InnerInv
  <2> QED
    BY <1>0, <2>1, SMT DEF DialInv, TypeOK, ToldInv, Opened, Dialled, howVars, dualVars
<1>5. ResultInv'
  <2>1. \A c \in Addresses : Kept(c) => racer[c] = "heard"
    BY SMT DEF DialInv, TypeOK, InnerInv, Kept
  <2>2. \A c \in Addresses : Kept(c) => Kept(c)'
    BY <1>0, <2>1, SMT DEF DialInv, TypeOK, Kept, Opened, Dialled, howVars, dualVars
  <2>3. UNCHANGED <<outcome, fallback, ips, prefer>>
    BY DEF Dialled, howVars, dualVars
  <2>4. \A b \in Addresses : racer[b] = "heard" => racer'[b] = "heard" /\ conn'[b] = conn[b]
    BY SMT DEF DialInv, TypeOK, Dialled
  <2> QED
    BY <1>0, <2>2, <2>3, <2>4, SMT DEF DialInv, TypeOK, ResultInv, Primary
<1> QED
  BY <1>1, <1>2, <1>3, <1>4, <1>5 DEF DialInv

LEMMA HearStep ==
    ASSUME DialInv, NEW a \in Addresses, Hear(a)
    PROVE  DialInv'
<1> USE NoAddress, GroupIsOne
<1>0. UNCHANGED dual /\ \A b : GroupOf(b)' = GroupOf(b)
  BY GroupsStay DEF Hear, howVars
<1> DEFINE g == GroupOf(a)
<1>a. a \in ips /\ g \in {0, 4, 6} /\ g \notin told /\ inner[g] = Pending
  BY SMT DEF DialInv, RacerInv, ToldInv, Hear
<1>b. /\ racer' = [racer EXCEPT ![a] = "heard"]
      /\ inner'[g] \in {a, Pending, Failed}
      /\ inner'[g] = a <=> Opened(a)
      /\ inner'[g] = Failed =>
           \A b \in ips : b # a /\ GroupOf(b) = g => racer[b] = "heard"
      /\ \A h \in {0, 4, 6} : h # g => inner'[h] = inner[h]
      /\ UNCHANGED <<ips, prefer, conn, told, fallback, outcome>>
  BY <1>a, SMT DEF DialInv, TypeOK, Hear, Members, howVars, dualVars, Pending, Failed
<1>c. conn[a] # "open" => conn[a] = "none" \/ conn[a] = "closed"
  BY DEF DialInv, TypeOK
<1>d. \A c \in Addresses : Kept(c) => Kept(c)'
  <2> SUFFICES ASSUME NEW c \in Addresses, Kept(c) PROVE Kept(c)'
    OBVIOUS
  <2>1. GroupOf(c) # g
    BY <1>a DEF Kept
  <2> QED
    BY <1>0, <1>b, <2>1 DEF Kept, Opened
<1>e. conn[a] # "closed"
  BY SMT DEF DialInv, TypeOK, RacerInv, Hear
<1> HIDE DEF g
<1>1. TypeOK'
  BY SMT DEF DialInv, TypeOK, Hear, howVars, dualVars, Pending, Failed
<1>2. RacerInv'
  BY <1>0, <1>a, <1>b, <1>c, <1>e, SMT DEF DialInv, TypeOK, RacerInv, Opened, g
<1>3. InnerInv'
  BY <1>0, <1>a, <1>b, <1>c, <1>e, SMT DEF DialInv, TypeOK, RacerInv, InnerInv, Opened, g
<1>4. ToldInv'
  BY <1>a, <1>b, SMT DEF DialInv, TypeOK, ToldInv, Opened
<1>5. ResultInv'
  BY <1>0, <1>b, <1>d, SMT DEF DialInv, TypeOK, ResultInv, Primary
<1> QED
  BY <1>1, <1>2, <1>3, <1>4, <1>5 DEF DialInv

(* Closing the connection of an address that is neither kept nor the result *)
(* of a family still waiting disturbs nothing else.                         *)
LEMMA DropStep ==
    ASSUME DialInv, NEW a \in Addresses, Drop(a)
    PROVE  DialInv'
<1> USE NoAddress, GroupIsOne
<1>0. UNCHANGED dual /\ \A b : GroupOf(b)' = GroupOf(b)
  BY GroupsStay DEF Drop, howVars
<1>a. /\ racer[a] = "holds" /\ conn'[a] # "open"
      /\ \A b \in Addresses : b # a => conn'[b] = conn[b] /\ racer'[b] = racer[b]
      /\ racer'[a] = "dropped"
      /\ UNCHANGED <<ips, prefer, inner, told, fallback, outcome>>
  BY SMT DEF DialInv, TypeOK, Drop, Closed, howVars, dualVars
<1>b. \A c \in Addresses : Kept(c) => Kept(c)'
  <2> SUFFICES ASSUME NEW c \in Addresses, Kept(c) PROVE Kept(c)'
    OBVIOUS
  <2>1. racer[c] = "heard"
    BY SMT DEF DialInv, InnerInv, Kept
  <2>2. c # a
    BY <1>a, <2>1
  <2> QED
    BY <1>0, <1>a, <2>2 DEF Kept, Opened
<1>1. TypeOK'
  BY SMT DEF DialInv, TypeOK, Drop, Closed, howVars, dualVars
<1>2. RacerInv'
  BY <1>0, <1>a, SMT DEF DialInv, TypeOK, RacerInv
<1>3. InnerInv'
  BY <1>0, <1>a, SMT DEF DialInv, TypeOK, InnerInv, Opened
<1>4. ToldInv'
  BY <1>a, SMT DEF DialInv, TypeOK, ToldInv, Opened
<1>5. ResultInv'
  <2>1. \A b \in Addresses : racer[b] = "heard" => b # a
    BY <1>a
  <2> QED
    BY <1>0, <1>a, <1>b, <2>1, SMT DEF DialInv, TypeOK, ResultInv, Primary
<1> QED
  BY <1>1, <1>2, <1>3, <1>4, <1>5 DEF DialInv

LEMMA LateFamilyStep ==
    ASSUME DialInv, NEW g \in {4, 6}, LateFamily(g)
    PROVE  DialInv'
<1> USE NoAddress, GroupIsOne
<1>0. UNCHANGED dual /\ \A b : GroupOf(b)' = GroupOf(b)
  BY GroupsStay DEF LateFamily, howVars
<1>a. /\ g \notin told /\ inner[g] # Pending /\ outcome # Pending
      /\ told' = told \cup {g}
      /\ inner[g] \in Addresses => conn'[inner[g]] # "open"
      /\ \A b \in Addresses : b # inner[g] => conn'[b] = conn[b]
      /\ conn' \in [Addresses -> {"none", "open", "closed"}]
      /\ \A b \in Addresses : conn[b] # "open" => conn'[b] = conn[b]
      /\ UNCHANGED <<ips, prefer, racer, inner, fallback, outcome>>
  BY SMT DEF DialInv, TypeOK, LateFamily, Waiting, Closed, howVars, dualVars, Failed, Pending
<1>b. \A c \in Addresses : Kept(c) => Kept(c)'
  <2> SUFFICES ASSUME NEW c \in Addresses, Kept(c) PROVE Kept(c)'
    OBVIOUS
  <2>1. c # inner[g]
    BY <1>a, SMT DEF DialInv, InnerInv, Kept
  <2> QED
    BY <1>0, <1>a, <2>1 DEF Kept, Opened
<1>1. TypeOK'
  BY <1>a, SMT DEF DialInv, TypeOK, LateFamily, howVars
<1>2. RacerInv'
  <2>1. \A b \in Addresses : b = inner[g] => racer[b] = "heard" /\ inner[GroupOf(b)] = b
    BY SMT DEF DialInv, InnerInv
  <2> QED
    BY <1>0, <1>a, <2>1, SMT DEF DialInv, TypeOK, RacerInv
<1>3. InnerInv'
  <2> SUFFICES ASSUME NEW h \in {0, 4, 6}
               PROVE  /\ inner[h] \in Addresses =>
                           /\ GroupOf(inner[h]) = h /\ racer[inner[h]] = "heard"
                           /\ h \notin told' => conn'[inner[h]] = "open"
                      /\ inner[h] = Failed =>
                           \A a \in ips : GroupOf(a) = h => racer[a] = "heard" /\ conn'[a] = "none"
    BY <1>0, <1>a DEF InnerInv, Opened
  <2>1. inner[h] \in Addresses /\ h # g => inner[h] # inner[g]
    BY SMT DEF DialInv, InnerInv
  <2>2. inner[h] \in Addresses /\ h \notin told' => conn'[inner[h]] = "open"
    BY <1>a, <2>1, SMT DEF DialInv, InnerInv, Opened
  <2>3. inner[h] = Failed =>
           \A a \in ips : GroupOf(a) = h => racer[a] = "heard" /\ conn'[a] = "none"
    BY <1>a, SMT DEF DialInv, TypeOK, InnerInv
  <2> QED
    BY <2>2, <2>3, SMT DEF DialInv, InnerInv
<1>4. ToldInv'
  BY <1>a, SMT DEF DialInv, TypeOK, ToldInv, Opened
<1>5. ResultInv'
  BY <1>0, <1>a, <1>b, SMT DEF DialInv, TypeOK, ResultInv, Primary
<1> QED
  BY <1>1, <1>2, <1>3, <1>4, <1>5 DEF DialInv

(* What the steps of the race have in common: they only move results.      *)
LEMMA DialMoveStep ==
    ASSUME DialInv, UNCHANGED <<howVars, racer, conn, inner>>, TypeOK', told \subseteq told',
           ToldInv', ResultInv'
    PROVE  DialInv'
<1>0. UNCHANGED dual /\ \A b : GroupOf(b)' = GroupOf(b)
  BY GroupsStay DEF howVars
<1>1. RacerInv'
  BY <1>0, SMT DEF DialInv, RacerInv, howVars
<1>2. InnerInv'
  BY <1>0, SMT DEF DialInv, InnerInv, Opened, howVars
<1> QED
  BY <1>1, <1>2 DEF DialInv

LEMMA HearFamilyStep ==
    ASSUME DialInv, NEW g \in {4, 6}, HearFamily(g)
    PROVE  DialInv'
<1> USE NoAddress, GroupIsOne
<1>0. UNCHANGED dual /\ \A b : GroupOf(b)' = GroupOf(b)
  BY GroupsStay DEF HearFamily, howVars
<1>a. /\ g \notin told /\ inner[g] # Pending /\ outcome = Pending
      /\ told' = told \cup {g}
      /\ UNCHANGED <<howVars, racer, conn, inner>>
      /\ UNCHANGED <<ips, prefer>>
  BY DEF HearFamily, Waiting, howVars
<1>b. \A c \in Addresses : Kept(c) => Kept(c)'
  BY <1>0, <1>a, SMT DEF Kept, Opened
<1>c. inner[g] # Failed => inner[g] \in Addresses /\ Kept(inner[g])'
  BY <1>0, <1>a, SMT DEF DialInv, TypeOK, RacerInv, InnerInv, Kept, Opened
<1>1. TypeOK'
  BY <1>a, SMT DEF DialInv, TypeOK, HearFamily, howVars
<1>2. ToldInv' /\ ResultInv'
  <2>1. CASE inner[g] = Failed /\ UNCHANGED <<fallback, outcome>>
    BY <1>0, <1>a, <1>b, <2>1, SMT DEF DialInv, TypeOK, ToldInv, ResultInv, Opened, Primary, Pending, Failed
  <2>2. CASE inner[g] # Failed /\ Primary(g) /\ outcome' = inner[g] /\ UNCHANGED fallback
    BY <1>0, <1>a, <1>b, <1>c, <2>2, SMT DEF DialInv, TypeOK, ToldInv, ResultInv, Opened, Primary, Pending, Failed
  <2>3. CASE inner[g] # Failed /\ ~Primary(g) /\ fallback' = inner[g] /\ UNCHANGED outcome
    <3>1. GroupOf(inner[g]) = g
      BY <1>c, <2>3, SMT DEF DialInv, InnerInv
    <3>2. fallback = Pending
      <4>1. fallback # Pending => GroupOf(fallback) = g
        <5>1. dual /\ prefer \in {0, 4, 6}
          BY DEF HearFamily, DialInv, TypeOK
        <5>2. \A c : GroupOf(c) \in {4, 6}
          BY <5>1 DEF GroupOf
        <5>3. fallback # Pending => ~Primary(GroupOf(fallback))
          BY DEF DialInv, ResultInv
        <5> QED
          BY <2>3, <5>1, <5>2, <5>3, SMT DEF Primary
      <4> QED
        BY <4>1, <1>a DEF DialInv, ResultInv, Kept
    <3> QED
      BY <1>0, <1>a, <1>b, <1>c, <2>3, <3>1, <3>2, SMT DEF DialInv, TypeOK, ToldInv, ResultInv, Opened, Primary, Pending, Failed
  <2> QED
    BY <2>1, <2>2, <2>3 DEF HearFamily
<1> QED
  BY <1>a, <1>1, <1>2, DialMoveStep

LEMMA DialTickStep ==
    ASSUME DialInv, Tick
    PROVE  DialInv'
<1> USE NoAddress, GroupIsOne
<1>0. UNCHANGED dual /\ \A b : GroupOf(b)' = GroupOf(b)
  BY GroupsStay DEF Tick, howVars
<1>a. UNCHANGED <<howVars, racer, conn, inner>> /\ UNCHANGED <<ips, prefer, told, fallback>>
  BY DEF Tick, howVars
<1>b. \A c \in Addresses : Kept(c) => Kept(c)'
  BY <1>0, <1>a, SMT DEF Kept, Opened
<1>1. TypeOK'
  BY <1>a, SMT DEF DialInv, TypeOK, Tick, howVars
<1>2. ToldInv'
  BY <1>a, SMT DEF DialInv, TypeOK, ToldInv, Opened, Tick
<1>3. ResultInv'
  BY <1>0, <1>a, <1>b, SMT DEF DialInv, TypeOK, ResultInv, Primary, Tick, Pending, Failed
<1> QED
  BY <1>a, <1>1, <1>2, <1>3, DialMoveStep

LEMMA AllHeardStep ==
    ASSUME DialInv, AllHeard
    PROVE  DialInv'
<1> USE NoAddress, GroupIsOne
<1>0. UNCHANGED dual /\ \A b : GroupOf(b)' = GroupOf(b)
  BY GroupsStay DEF AllHeard, howVars
<1>a. UNCHANGED <<howVars, racer, conn, inner>> /\ UNCHANGED <<ips, prefer, told, fallback>>
  BY DEF AllHeard, howVars
<1>b. \A c \in Addresses : Kept(c) => Kept(c)'
  BY <1>0, <1>a, SMT DEF Kept, Opened
<1>c. CASE fallback # Pending
  <2>1. TypeOK'
    BY <1>a, <1>c, SMT DEF DialInv, TypeOK, AllHeard, howVars
  <2>2. ToldInv'
    BY <1>a, <1>c, SMT DEF DialInv, TypeOK, ToldInv, Opened, AllHeard
  <2>3. ResultInv'
    BY <1>0, <1>a, <1>b, <1>c, SMT DEF DialInv, TypeOK, ResultInv, Primary, AllHeard, Pending, Failed
  <2> QED
    BY <1>a, <2>1, <2>2, <2>3, DialMoveStep
<1>d. CASE fallback = Pending
  <2>0. outcome = Pending /\ outcome' = Failed /\ told = Groups
    BY <1>d DEF AllHeard
  <2>a. \A a \in ips : racer[a] = "heard" /\ conn[a] = "none"
    <3> SUFFICES ASSUME NEW a \in ips PROVE racer[a] = "heard" /\ conn[a] = "none"
      OBVIOUS
    <3>1. GroupOf(a) \in told
      BY <2>0 DEF Groups
    <3>2. inner[GroupOf(a)] = Failed
      BY <1>d, <2>0, <3>1, SMT DEF DialInv, TypeOK, ToldInv, Pending, Failed
    <3> QED
      BY <3>2, SMT DEF DialInv, InnerInv
  <2>1. TypeOK'
    BY <1>a, <2>0, SMT DEF DialInv, TypeOK, howVars
  <2>2. ToldInv'
    BY <1>a, <1>d, <2>0, SMT DEF DialInv, TypeOK, ToldInv, Opened, Pending, Failed
  <2>3. ResultInv'
    BY <1>a, <1>d, <2>0, <2>a, SMT DEF DialInv, TypeOK, ResultInv, Pending, Failed
  <2> QED
    BY <1>a, <2>1, <2>2, <2>3, DialMoveStep
<1> QED
  BY <1>c, <1>d

LEMMA ReturnStep ==
    ASSUME DialInv, Return
    PROVE  DialInv'
<1> USE NoAddress, GroupIsOne
<1>0. UNCHANGED dual /\ \A b : GroupOf(b)' = GroupOf(b)
  BY GroupsStay DEF Return, howVars
<1>a. /\ 0 \notin told /\ inner[0] # Pending
      /\ outcome' = inner[0] /\ told' = told \cup {0}
      /\ UNCHANGED <<howVars, racer, conn, inner>> /\ UNCHANGED <<ips, prefer, fallback>>
  BY DEF Return, Waiting, howVars
<1>b. \A c \in Addresses : Kept(c) => Kept(c)'
  BY <1>0, <1>a, SMT DEF Kept, Opened
<1>c. inner[0] # Failed => inner[0] \in Addresses /\ Kept(inner[0])'
  BY <1>0, <1>a, SMT DEF DialInv, TypeOK, RacerInv, InnerInv, Kept, Opened
<1>d. \A c : GroupOf(c) = 0
  BY DEF GroupOf, Return
<1>e. outcome \notin Addresses
  BY <1>a, <1>d DEF DialInv, ResultInv, Kept
<1>1. TypeOK'
  BY <1>a, SMT DEF DialInv, TypeOK, howVars
<1>2. ToldInv'
  BY <1>a, <1>c, <1>e, SMT DEF DialInv, TypeOK, ToldInv, Opened, Pending, Failed
<1>3. ResultInv'
  <2>1. inner[0] = Failed => \A a \in ips : racer[a] = "heard" /\ conn[a] = "none"
    BY <1>d, SMT DEF DialInv, InnerInv
  <2> QED
    BY <1>0, <1>a, <1>b, <1>c, <2>1, SMT DEF DialInv, TypeOK, ResultInv, Primary, Pending, Failed
<1> QED
  BY <1>a, <1>1, <1>2, <1>3, DialMoveStep

LEMMA DialNext == DialInv /\ [Next]_vars => DialInv'
<1> SUFFICES ASSUME DialInv, [Next]_vars PROVE DialInv'
  OBVIOUS
<1>1. ASSUME NEW a \in Addresses, Dialled(a, "open") \/ Dialled(a, "none") PROVE DialInv'
  BY <1>1, DialledStep
<1>2. ASSUME NEW a \in Addresses, Hear(a) PROVE DialInv'
  BY <1>2, HearStep
<1>3. ASSUME NEW a \in Addresses, Drop(a) PROVE DialInv'
  BY <1>3, DropStep
<1>4. ASSUME NEW g \in {4, 6}, LateFamily(g) PROVE DialInv'
  BY <1>4, LateFamilyStep
<1>5. ASSUME NEW g \in {4, 6}, HearFamily(g) PROVE DialInv'
  BY <1>5, HearFamilyStep
<1>6. CASE Tick
  BY <1>6, DialTickStep
<1>7. CASE AllHeard
  BY <1>7, AllHeardStep
<1>8. CASE Return
  BY <1>8, ReturnStep
<1>9. CASE UNCHANGED vars
  BY <1>9 DEF vars, DialInv, TypeOK, RacerInv, InnerInv, ToldInv, ResultInv, Kept, Opened, GroupOf, Primary
<1> QED
  BY <1>1, <1>2, <1>3, <1>4, <1>5, <1>6, <1>7, <1>8, <1>9 DEF Next

LEMMA DialInvImplies == DialInv => DialIsSound
<1> SUFFICES ASSUME DialInv PROVE DialIsSound
  OBVIOUS
<1>1. ASSUME NEW a \in ips, Opened(a) PROVE Held(a)
  <2>0. a \in Addresses
    BY DEF DialInv, TypeOK
  <2>1. CASE racer[a] = "heard"
    <3>1. inner[GroupOf(a)] = a
      BY <1>1, <2>0, <2>1, SMT DEF DialInv, RacerInv, Opened
    <3>2. GroupOf(a) \in told => a \in {fallback, outcome}
      BY <1>1, <2>0, <3>1 DEF DialInv, ToldInv
    <3> QED
      BY <3>1, <3>2 DEF Held
  <2> QED
    BY <1>1, <2>0, <2>1, SMT DEF DialInv, TypeOK, RacerInv, Opened, Held
<1> QED
  BY <1>1 DEF DialInv, ResultInv, Kept, DialIsSound

(* In every dial each connection that is open has somebody who will use or  *)
(* close it, the caller's is open, and an error means that all addresses    *)
(* were tried (dualStackDialContext, parallelDialContext).                  *)
THEOREM DialSound == Spec => []DialIsSound
<1>1. Init => DialInv
  BY DialInit
<1>2. DialInv /\ [Next]_vars => DialInv'
  BY DialNext
<1>3. DialInv => DialIsSound
  BY DialInvImplies
<1> QED
  BY <1>1, <1>2, <1>3, PTL DEF Spec

(* ---- NameMapping. ------------------------------------------------------*)
(* What is recorded is what was answered last, what was answered and is not *)
(* recorded was lost, and only what the enhancer keeps is recorded; of the  *)
(* clone the same, but for what was answered since it was made.             *)
Recorded ==
  \A a \in Mapper!AllAddresses \ unseen : record[a] # NoName => record[a] = answered[a]
LostInv ==
  \A a \in Mapper!AllAddresses \ unseen : answered[a] # NoName /\ record[a] = NoName => a \in lost
PoolsInv ==
  \A a \in Mapper!AllAddresses : record[a] # NoName =>
    /\ a \in Mapper!Fake4 => Mapper!Pool4
    /\ a \in Mapper!Fake6 => Mapper!Pool6
    /\ a \in Mapper!Reals => Mapper!Mapping
ClonedInv ==
  pending # Mapper!NoEnhancer => \A a \in Mapper!AllAddresses \ (unseen \cup late) :
    /\ clone[a] # NoName => clone[a] = answered[a]
    /\ answered[a] # NoName /\ clone[a] = NoName => a \in lost \cup Mapper!MayLose(pending)
KeptInv ==
  pending # Mapper!NoEnhancer => \A a \in Mapper!AllAddresses : clone[a] # NoName => a \in Mapper!Kept(pending)
NameInv == Mapper!TypeOK /\ Recorded /\ LostInv /\ PoolsInv /\ ClonedInv /\ KeptInv

LEMMA NameInit == Mapper!Init => NameInv
<1> SUFFICES ASSUME Mapper!Init PROVE NameInv
  OBVIOUS
<1>1. Mapper!TypeOK
  <2>1. MaxReloads \in Nat
    BY NameAssumption
  <2>2. 0 \in 0 .. MaxReloads
    BY <2>1, SMT
  <2>3. Mapper!NoNames \in [Mapper!AllAddresses -> Names \cup {NoName}]
    BY DEF Mapper!NoNames
  <2> QED
    BY <2>2, <2>3 DEF Mapper!Init, Mapper!TypeOK
<1>2. Recorded /\ LostInv /\ PoolsInv
  BY DEF Mapper!Init, Mapper!NoNames, Recorded, LostInv, PoolsInv
<1>3. ClonedInv /\ KeptInv
  BY DEF Mapper!Init, ClonedInv, KeptInv
<1> QED
  BY <1>1, <1>2, <1>3 DEF NameInv

LEMMA NameGive ==
  ASSUME NameInv, NEW n \in Names, NEW a \in Mapper!AllAddresses, Mapper!Give(n, a),
         /\ a \in Mapper!Fake4 => Mapper!Pool4
         /\ a \in Mapper!Fake6 => Mapper!Pool6
         /\ a \in Mapper!Reals => Mapper!Mapping
  PROVE  NameInv'
<1>1. Mapper!TypeOK'
  BY DEF NameInv, Mapper!TypeOK, Mapper!Give
<1>2. /\ record' = [record EXCEPT ![a] = n] /\ answered' = [answered EXCEPT ![a] = n]
      /\ lost' = lost \ {a} /\ unseen' = unseen \ {a}
      /\ pending # Mapper!NoEnhancer => late' = late \cup {a}
      /\ UNCHANGED <<enhancer, pending, clone>>
  BY DEF Mapper!Give
<1>3. /\ \A b \in Mapper!AllAddresses : record'[b] = IF b = a THEN n ELSE record[b]
      /\ \A b \in Mapper!AllAddresses : answered'[b] = IF b = a THEN n ELSE answered[b]
  BY <1>2 DEF NameInv, Mapper!TypeOK
<1>4. Recorded'
  BY <1>2, <1>3 DEF NameInv, Recorded
<1>5. LostInv'
  <2> SUFFICES ASSUME NEW b \in Mapper!AllAddresses, b \notin unseen', answered'[b] # NoName, record'[b] = NoName
               PROVE  b \in lost'
    BY DEF LostInv
  <2>1. CASE b = a
    BY <2>1, <1>3
  <2>2. CASE b # a
    BY <2>2, <1>2, <1>3 DEF NameInv, LostInv
  <2> QED
    BY <2>1, <2>2
<1>6. PoolsInv'
  BY <1>2, <1>3 DEF NameInv, PoolsInv, Mapper!Pool4, Mapper!Pool6, Mapper!Mapping
<1>7. ClonedInv'
  <2> SUFFICES ASSUME pending # Mapper!NoEnhancer, NEW b \in Mapper!AllAddresses, b \notin unseen' \cup late'
               PROVE  /\ clone[b] # NoName => clone[b] = answered'[b]
                      /\ answered'[b] # NoName /\ clone[b] = NoName => b \in lost' \cup Mapper!MayLose(pending)
    BY <1>2 DEF ClonedInv, Mapper!MayLose
  <2>1. b # a /\ b \notin unseen \cup late /\ answered'[b] = answered[b]
    BY <1>2, <1>3
  <2> QED
    BY <2>1, <1>2 DEF NameInv, ClonedInv
<1>8. KeptInv'
  BY <1>2 DEF NameInv, KeptInv, Mapper!Kept, Mapper!Pool4, Mapper!Pool6, Mapper!Mapping
<1> QED
  BY <1>1, <1>4, <1>5, <1>6, <1>7, <1>8 DEF NameInv

(* The three kinds of addresses.                                            *)
LEMMA AddressKinds ==
  /\ Mapper!AllAddresses = Mapper!Fake4 \cup Mapper!Fake6 \cup Mapper!Reals
  /\ Mapper!Fake4 \cap Mapper!Fake6 = {} /\ Mapper!Fake4 \cap Mapper!Reals = {}
  /\ Mapper!Fake6 \cap Mapper!Reals = {}
  /\ Mapper!InRange \subseteq Mapper!Fake4
BY DEF Mapper!AllAddresses, Mapper!Fake4, Mapper!Fake6, Mapper!Reals, Mapper!InRange

LEMMA NameAnswer ==
  ASSUME NameInv, NEW n \in Names, Mapper!FakeIP(n) \/ Mapper!Resolve(n)
  PROVE  NameInv'
<1>1. CASE Mapper!FakeIP(n)
  <2>1. PICK a \in Mapper!Fake4 \cup Mapper!Fake6 :
          Mapper!Give(n, a) /\ (a \in Mapper!Fake4 => Mapper!Pool4) /\ (a \in Mapper!Fake6 => Mapper!Pool6)
    <3>1. CASE Mapper!Pool4 /\ Mapper!Lookup(n, Mapper!Fake4, Mapper!InRange)
      BY <3>1, AddressKinds DEF Mapper!Lookup, Mapper!Held
    <3>2. CASE Mapper!Pool6 /\ Mapper!Lookup(n, Mapper!Fake6, Mapper!Fake6)
      BY <3>2, AddressKinds DEF Mapper!Lookup, Mapper!Held
    <3> QED
      BY <1>1, <3>1, <3>2 DEF Mapper!FakeIP
  <2> QED
    BY <2>1, AddressKinds, NameGive
<1>2. CASE Mapper!Resolve(n)
  <2>1. PICK a \in Mapper!Reals : Mapper!Give(n, a)
    BY <1>2 DEF Mapper!Resolve
  <2>2. Mapper!Mapping
    BY <1>2 DEF Mapper!Resolve, Mapper!Mapping
  <2> QED
    BY <2>1, <2>2, AddressKinds, NameGive
<1> QED
  BY <1>1, <1>2

LEMMA NameUnmapped ==
  ASSUME NameInv, NEW n \in Names, Mapper!ResolveUnmapped(n)
  PROVE  NameInv'
<1>1. ~Mapper!Mapping
  BY DEF Mapper!ResolveUnmapped, Mapper!Mapping
<1>2. PICK a \in Mapper!Reals :
        answered' = [answered EXCEPT ![a] = n] /\ lost' = lost \cup {a}
  BY DEF Mapper!ResolveUnmapped
<1>3. UNCHANGED <<enhancer, record, pending, clone, earlier, reloads, late, unseen>>
  BY DEF Mapper!ResolveUnmapped
<1>4. record[a] = NoName /\ a \in Mapper!AllAddresses
  BY <1>1, <1>2, AddressKinds DEF NameInv, PoolsInv
<1>5. Mapper!TypeOK'
  BY <1>2, <1>3, <1>4 DEF NameInv, Mapper!TypeOK
<1>6. \A b \in Mapper!AllAddresses : answered'[b] = IF b = a THEN n ELSE answered[b]
  BY <1>2 DEF NameInv, Mapper!TypeOK
<1>7. Recorded' /\ LostInv'
  BY <1>2, <1>3, <1>4, <1>6 DEF NameInv, Recorded, LostInv
<1>8. PoolsInv'
  BY <1>3 DEF NameInv, PoolsInv, Mapper!Pool4, Mapper!Pool6, Mapper!Mapping
<1>9. KeptInv'
  BY <1>3 DEF NameInv, KeptInv, Mapper!Kept, Mapper!Pool4, Mapper!Pool6, Mapper!Mapping
<1>10. ClonedInv'
  <2>1. pending # Mapper!NoEnhancer => clone[a] = NoName
    BY <1>1, <1>2, <1>4, AddressKinds DEF NameInv, KeptInv, Mapper!Kept
  <2> SUFFICES ASSUME pending # Mapper!NoEnhancer, NEW b \in Mapper!AllAddresses, b \notin unseen \cup late
               PROVE  /\ clone[b] # NoName => clone[b] = answered'[b]
                      /\ answered'[b] # NoName /\ clone[b] = NoName => b \in lost' \cup Mapper!MayLose(pending)
    BY <1>3 DEF ClonedInv, Mapper!MayLose
  <2>2. CASE b = a
    BY <2>1, <2>2, <1>2
  <2>3. CASE b # a
    BY <2>3, <1>2, <1>6 DEF NameInv, ClonedInv
  <2> QED
    BY <2>2, <2>3
<1> QED
  BY <1>5, <1>7, <1>8, <1>9, <1>10 DEF NameInv

(* What an enhancer that was replaced answers is excepted.                  *)
LEMMA NameEarlier ==
  ASSUME NameInv, NEW n \in Names, Mapper!AnswerOfEarlier(n)
  PROVE  NameInv'
<1>1. PICK a \in Mapper!AllAddresses :
        answered' = [answered EXCEPT ![a] = n] /\ unseen' = unseen \cup {a}
  BY AddressKinds DEF Mapper!AnswerOfEarlier, Mapper!AnswersOf
<1>2. UNCHANGED <<enhancer, record, pending, clone, earlier, reloads, lost, late>>
  BY DEF Mapper!AnswerOfEarlier
<1>3. Mapper!TypeOK'
  BY <1>1, <1>2 DEF NameInv, Mapper!TypeOK
<1>4. \A b \in Mapper!AllAddresses \ unseen' : b \notin unseen /\ answered'[b] = answered[b]
  BY <1>1 DEF NameInv, Mapper!TypeOK
<1>5. Recorded' /\ LostInv'
  BY <1>2, <1>4 DEF NameInv, Recorded, LostInv
<1>6. PoolsInv' /\ KeptInv'
  BY <1>2 DEF NameInv, PoolsInv, KeptInv, Mapper!Kept, Mapper!Pool4, Mapper!Pool6, Mapper!Mapping
<1>7. ClonedInv'
  BY <1>2, <1>4 DEF NameInv, ClonedInv, Mapper!MayLose
<1> QED
  BY <1>3, <1>5, <1>6, <1>7 DEF NameInv

LEMMA NameForget ==
  ASSUME NameInv, NEW gone \in SUBSET Mapper!AllAddresses,
         UNCHANGED <<enhancer, pending, clone, earlier, reloads, answered, late, unseen>>,
         record' = [a \in Mapper!AllAddresses |-> IF a \in gone THEN NoName ELSE record[a]],
         lost' = lost \cup gone
  PROVE  NameInv'
<1>1. Mapper!TypeOK'
  BY DEF NameInv, Mapper!TypeOK
<1>2. Recorded' /\ LostInv'
  BY DEF NameInv, Recorded, LostInv
<1>3. PoolsInv' /\ KeptInv'
  BY DEF NameInv, PoolsInv, KeptInv, Mapper!Kept, Mapper!Pool4, Mapper!Pool6, Mapper!Mapping
<1>4. ClonedInv'
  BY DEF NameInv, ClonedInv, Mapper!MayLose
<1> QED
  BY <1>1, <1>2, <1>3, <1>4 DEF NameInv

(* What is not kept need not have been there, or may be lost.               *)
LEMMA NamePatch ==
  ASSUME NameInv, NEW new \in Mapper!Configurations, Mapper!PatchFrom(new)
  PROVE  NameInv'
<1>1. /\ pending' = new /\ reloads' = reloads + 1 /\ reloads < MaxReloads
      /\ clone' = [a \in Mapper!AllAddresses |-> IF a \in Mapper!Kept(new) THEN record[a] ELSE NoName]
      /\ UNCHANGED <<enhancer, record, earlier, answered, lost, late, unseen>>
  BY DEF Mapper!PatchFrom, Mapper!histories
<1>2. Mapper!TypeOK'
  <2>1. reloads' \in 0 .. MaxReloads
    <3>1. reloads' = reloads + 1 /\ reloads < MaxReloads /\ reloads \in 0 .. MaxReloads
      BY <1>1 DEF NameInv, Mapper!TypeOK
    <3>2. MaxReloads \in Nat
      BY NameAssumption
    <3> QED
      BY <3>1, <3>2, SMT
  <2> QED
    BY <1>1, <2>1 DEF NameInv, Mapper!TypeOK
<1>3. Recorded' /\ LostInv' /\ PoolsInv'
  BY <1>1 DEF NameInv, Recorded, LostInv, PoolsInv, Mapper!Pool4, Mapper!Pool6, Mapper!Mapping
<1>4. KeptInv'
  BY <1>1 DEF KeptInv, Mapper!Kept, Mapper!Pool4, Mapper!Pool6, Mapper!Mapping
<1>5. ClonedInv'
  <2> SUFFICES ASSUME NEW a \in Mapper!AllAddresses, a \notin unseen
               PROVE  /\ clone'[a] # NoName => clone'[a] = answered[a]
                      /\ answered[a] # NoName /\ clone'[a] = NoName => a \in lost \cup Mapper!MayLose(new)
    BY <1>1 DEF ClonedInv, Mapper!MayLose
  <2>1. clone'[a] = IF a \in Mapper!Kept(new) THEN record[a] ELSE NoName
    BY <1>1
  <2>2. CASE record[a] = NoName
    BY <2>1, <2>2 DEF NameInv, LostInv
  <2>3. CASE record[a] # NoName
    <3>1. record[a] = answered[a]
      BY <2>3 DEF NameInv, Recorded
    <3>2. /\ a \in Mapper!Fake4 => Mapper!Pool4
          /\ a \in Mapper!Fake6 => Mapper!Pool6
          /\ a \in Mapper!Reals => Mapper!Mapping
      BY <2>3 DEF NameInv, PoolsInv
    <3>3. a \notin Mapper!Kept(new) => a \in Mapper!MayLose(new)
      BY <3>2, AddressKinds DEF Mapper!Kept, Mapper!MayLose
    <3> QED
      BY <2>1, <2>3, <3>1, <3>3
  <2> QED
    BY <2>2, <2>3
<1> QED
  BY <1>2, <1>3, <1>4, <1>5 DEF NameInv

LEMMA NameSwitch ==
  ASSUME NameInv, Mapper!UpdateDNS
  PROVE  NameInv'
<1>1. /\ pending # Mapper!NoEnhancer /\ enhancer' = pending /\ pending' = Mapper!NoEnhancer
      /\ record' = clone /\ clone' = Mapper!NoNames
      /\ earlier' = earlier \cup {enhancer}
      /\ lost' = {a \in lost \cup Mapper!MayLose(pending) : clone[a] = NoName}
      /\ unseen' = unseen \cup {a \in late : clone[a] # answered[a]}
      /\ late' = {} /\ UNCHANGED <<reloads, answered>>
  BY DEF Mapper!UpdateDNS
<1>2. pending \in Mapper!Configurations
  BY <1>1 DEF NameInv, Mapper!TypeOK
<1>3. Mapper!TypeOK'
  <2>1. Mapper!MayLose(pending) \subseteq Mapper!AllAddresses
    BY AddressKinds DEF Mapper!MayLose
  <2>2. Mapper!NoNames \in [Mapper!AllAddresses -> Names \cup {NoName}]
    BY DEF Mapper!NoNames
  <2> QED
    BY <1>1, <1>2, <2>1, <2>2 DEF NameInv, Mapper!TypeOK
<1>4. ASSUME NEW a \in Mapper!AllAddresses, a \notin unseen'
      PROVE  /\ clone[a] # NoName => clone[a] = answered[a]
             /\ answered[a] # NoName /\ clone[a] = NoName => a \in lost \cup Mapper!MayLose(pending)
  <2>1. CASE a \in late
    BY <2>1, <1>1, <1>4
  <2>2. CASE a \notin late
    BY <2>2, <1>1, <1>4 DEF NameInv, ClonedInv
  <2> QED
    BY <2>1, <2>2
<1>5. Recorded' /\ LostInv'
  BY <1>1, <1>4 DEF Recorded, LostInv
<1>6. PoolsInv'
  <2> SUFFICES ASSUME NEW a \in Mapper!AllAddresses, clone[a] # NoName
               PROVE  /\ a \in Mapper!Fake4 => Mapper!Pool4'
                      /\ a \in Mapper!Fake6 => Mapper!Pool6'
                      /\ a \in Mapper!Reals => Mapper!Mapping'
    BY <1>1 DEF PoolsInv
  <2>1. a \in Mapper!Kept(pending)
    BY <1>1 DEF NameInv, KeptInv
  <2> QED
    BY <1>1, <2>1, AddressKinds DEF Mapper!Kept, Mapper!Pool4, Mapper!Pool6, Mapper!Mapping
<1>7. ClonedInv' /\ KeptInv'
  BY <1>1 DEF ClonedInv, KeptInv
<1> QED
  BY <1>3, <1>5, <1>6, <1>7 DEF NameInv

LEMMA NameStep ==
  ASSUME NameInv, [CoreNext]_allVars
  PROVE  NameInv'
<1>1. CASE UNCHANGED mappingVars
  BY <1>1 DEF mappingVars, NameInv, Mapper!TypeOK, Recorded, LostInv, PoolsInv, ClonedInv, KeptInv,
              Mapper!Pool4, Mapper!Pool6, Mapper!Mapping, Mapper!Kept, Mapper!MayLose
<1>2. ASSUME NEW n \in Names,
             Mapper!FakeIP(n) \/ Mapper!Resolve(n) \/ Mapper!ResolveUnmapped(n) \/ Mapper!AnswerOfEarlier(n)
      PROVE  NameInv'
  BY <1>2, NameAnswer, NameUnmapped, NameEarlier
<1>3. ASSUME NEW a \in Mapper!AllAddresses, Mapper!Forget(a)
      PROVE  NameInv'
  <2>1. record' = [b \in Mapper!AllAddresses |-> IF b \in {a} THEN NoName ELSE record[b]]
    BY <1>3 DEF Mapper!Forget, NameInv, Mapper!TypeOK
  <2> QED
    BY <1>3, <2>1, NameForget DEF Mapper!Forget
<1>4. CASE Mapper!FlushFakeIP
  <2>1. Mapper!Flushed \subseteq Mapper!AllAddresses
    BY AddressKinds DEF Mapper!Flushed
  <2> QED
    BY <1>4, <2>1, NameForget DEF Mapper!FlushFakeIP
<1>5. ASSUME NEW new \in Mapper!Configurations, Mapper!PatchFrom(new)
      PROVE  NameInv'
  BY <1>5, NamePatch
<1>6. CASE Mapper!UpdateDNS
  BY <1>6, NameSwitch
<1> QED
  BY <1>1, <1>2, <1>3, <1>4, <1>5, <1>6 DEF CoreNext, allVars, mappingVars, D, A, M, L, G, R, N

LEMMA NameInvImplies ==
  ASSUME NameInv
  PROVE  NameRestored
<1>1. ASSUME NEW a \in Mapper!AllAddresses \ unseen, answered[a] # NoName
      PROVE  CASE Mapper!PreHandleMetadata(a) = "refused" -> a \in lost /\ Mapper!InForce(a)
               [] Mapper!PreHandleMetadata(a) = "as it is" -> a \in lost /\ ~Mapper!InForce(a)
               [] OTHER -> Mapper!PreHandleMetadata(a) = answered[a]
  <2>1. CASE record[a] # NoName
    <3>1. Mapper!Mapping
      BY <2>1, AddressKinds DEF NameInv, PoolsInv, Mapper!TypeOK, Mapper!Configurations,
         Mapper!Pool4, Mapper!Pool6, Mapper!Mapping
    <3>2. Mapper!PreHandleMetadata(a) = record[a] /\ record[a] = answered[a]
      BY <2>1, <3>1 DEF Mapper!PreHandleMetadata, NameInv, Recorded
    <3>3. record[a] # "refused" /\ record[a] # "as it is"
      BY <2>1, NameAssumption DEF NameInv, Mapper!TypeOK
    <3> QED
      BY <3>2, <3>3
  <2>2. CASE record[a] = NoName
    <3>1. a \in lost
      BY <1>1, <2>2 DEF NameInv, LostInv
    <3>2. Mapper!InForce(a) <=> Mapper!Mapping /\ Mapper!IsFakeIP(a)
      <4>1. enhancer \in Mapper!Configurations
        BY DEF NameInv, Mapper!TypeOK
      <4>2. ~Mapper!Pool4 => Mapper!InRange = {}
        BY NameAssumption DEF Mapper!Pool4, Mapper!InRange, Mapper!Fake4, Mapper!NoRange
      <4>3. enhancer.mode = "fake" => Mapper!Pool4 \/ Mapper!Pool6
        BY <4>1 DEF Mapper!Configurations, Mapper!Pool4, Mapper!Pool6
      <4> QED
        BY <4>2, <4>3, AddressKinds DEF Mapper!InForce, Mapper!IsFakeIP, Mapper!Mapping
    <3>3. Mapper!PreHandleMetadata(a) = IF Mapper!InForce(a) THEN "refused" ELSE "as it is"
      BY <2>2, <3>2 DEF Mapper!PreHandleMetadata
    <3> QED
      BY <3>1, <3>3
  <2> QED
    BY <2>1, <2>2
<1> QED
  BY <1>1 DEF NameRestored, Mapper!NameRestored

(* A connection to an answered address goes to the name that asked for it,  *)
(* unless the record was lost or the answer is one a reload passed by, which *)
(* the clone has not or an enhancer gave that was replaced; for any names,  *)
(* ranges, configurations and number of reloads.                            *)
THEOREM NamesAreRestored == CoreSpec => []NameRestored
<1>1. CoreInit => NameInv
  BY NameInit DEF CoreInit
<1>2. NameInv /\ [CoreNext]_allVars => NameInv'
  BY NameStep
<1>3. NameInv => NameRestored
  BY NameInvImplies
<1> QED
  BY <1>1, <1>2, <1>3, PTL DEF CoreSpec

(* ---- DnsResolver. ------------------------------------------------------*)
(* An exchange has servers at work and an answer only while it is under way,*)
(* and the answer is of the servers that are asked.                         *)
FlightInv ==
  /\ flight.pending # {} => flight.stage # Dns!None
  /\ flight.answer # Dns!NoAnswer => flight.answer \in {flight.stage} \X Dns!Quality
DnsInv == Dns!TypeOK /\ FlightInv /\ Dns!NobodyIsForgotten /\ Dns!NothingFiltered

Stages == {"policy", "main", "fallback"}

LEMMA AnswerFacts ==
  /\ Dns!NoAnswer \notin Dns!Answers /\ Dns!Error \notin Dns!Answers /\ Dns!Error # Dns!NoAnswer
  /\ Dns!Answers = Stages \X Dns!Quality
  /\ Dns!Error \notin Dns!Rejected /\ Dns!NoAnswer \notin Dns!Rejected
  /\ \A x, y : x # Dns!NoAnswer => [answer |-> x, shared |-> y] # Dns!Empty
  /\ Dns!Empty.answer = Dns!NoAnswer
BY DEF Dns!NoAnswer, Dns!Answers, Dns!Error, Dns!Rejected, Dns!Quality, Dns!Empty, Stages

LEMMA DnsInit == Dns!Init => DnsInv
<1> SUFFICES ASSUME Dns!Init PROVE DnsInv
  OBVIOUS
<1>1. 0 \in 0 .. MaxAsks
  BY AsksAssumption, SMT
<1>2. Dns!TypeOK
  BY <1>1 DEF Dns!Init, Dns!TypeOK, Dns!NoEntry, Dns!Idle, Dns!Empty, Dns!None
<1>3. FlightInv
  BY DEF Dns!Init, FlightInv, Dns!Idle
<1>4. Dns!NobodyIsForgotten /\ Dns!NothingFiltered
  BY AnswerFacts DEF Dns!Init, Dns!NobodyIsForgotten, Dns!NothingFiltered, Dns!NoEntry
<1> QED
  BY <1>2, <1>3, <1>4 DEF DnsInv

(* A batch of servers is asked.                                             *)
LEMMA BatchKeeps ==
  ASSUME NEW stage \in Stages, Dns!BatchExchange(stage)
  PROVE  /\ flight' \in [stage : {Dns!None, "policy", "main", "fallback"},
                         pending : SUBSET (Main \cup Fallback \cup Policy),
                         answer : Dns!Answers \cup {Dns!NoAnswer}]
         /\ flight'.stage = stage /\ FlightInv'
<1>1. flight' = [stage |-> stage, pending |-> Dns!Servers(stage), answer |-> Dns!NoAnswer]
  BY DEF Dns!BatchExchange
<1>2. Dns!Servers(stage) \subseteq Main \cup Fallback \cup Policy
  BY DEF Dns!Servers, Stages
<1>3. stage # Dns!None /\ stage \in {Dns!None, "policy", "main", "fallback"}
  BY DEF Stages, Dns!None
<1> QED
  BY <1>1, <1>2, <1>3 DEF FlightInv

(* Joining an exchange or starting one.                                     *)
LEMMA DoChanKeeps ==
  ASSUME DnsInv, NEW channel \in SUBSET Dns!Actors, Dns!DoChan(channel)
  PROVE  /\ flight' \in [stage : {Dns!None, "policy", "main", "fallback"},
                         pending : SUBSET (Main \cup Fallback \cup Policy),
                         answer : Dns!Answers \cup {Dns!NoAnswer}]
         /\ waiters' \subseteq Dns!Actors /\ dups' \in BOOLEAN
         /\ FlightInv'
         /\ flight'.stage # Dns!None /\ channel \subseteq waiters'
         /\ flight.stage # Dns!None => waiters \subseteq waiters'
<1>1. CASE flight.stage = Dns!None
  <2>1. Dns!IpExchange /\ dups' = FALSE /\ waiters' = channel
    BY <1>1 DEF Dns!DoChan
  <2>2. PICK stage \in Stages : Dns!BatchExchange(stage)
    BY <2>1 DEF Dns!IpExchange, Stages
  <2>3. stage # Dns!None
    BY DEF Stages, Dns!None
  <2> QED
    BY <1>1, <2>1, <2>2, <2>3, BatchKeeps
<1>2. CASE flight.stage # Dns!None
  BY <1>2 DEF Dns!DoChan, DnsInv, Dns!TypeOK, FlightInv
<1> QED
  BY <1>1, <1>2

LEMMA ExchangeContextInv ==
  ASSUME DnsInv, NEW c \in Callers, Dns!ExchangeContext(c)
  PROVE  DnsInv'
<1>1. /\ UNCHANGED <<route, cache, flight, waiters, dups, ch>>
      /\ asked' = asked + 1 /\ asked < MaxAsks
      /\ actor' \in [Dns!Actors -> {"idle", "exchange", "wait", "monitor"}]
      /\ \A b \in Dns!Actors : actor'[b] \in {"wait", "monitor"} => actor'[b] = actor[b]
  BY DEF DnsInv, Dns!TypeOK, Dns!ExchangeContext
<1>2. asked' \in 0 .. MaxAsks
  <2>1. asked \in 0 .. MaxAsks
    BY DEF DnsInv, Dns!TypeOK
  <2> QED
    BY <1>1, <2>1, AsksAssumption, SMT
<1>3. Dns!TypeOK' /\ FlightInv'
  BY <1>1, <1>2 DEF DnsInv, Dns!TypeOK, FlightInv
<1>4. Dns!NobodyIsForgotten' /\ Dns!NothingFiltered'
  BY <1>1 DEF DnsInv, Dns!NobodyIsForgotten, Dns!NothingFiltered
<1> QED
  BY <1>3, <1>4 DEF DnsInv

LEMMA ExchangeWithoutCacheInv ==
  ASSUME DnsInv, NEW a \in Dns!Actors, Dns!ExchangeWithoutCache(a)
  PROVE  DnsInv'
<1>1. /\ UNCHANGED <<route, cache, ch, asked>>
      /\ actor' = [actor EXCEPT ![a] = "wait"]
      /\ Dns!DoChan({a})
  BY DEF Dns!ExchangeWithoutCache
<1>2. /\ flight' \in [stage : {Dns!None, "policy", "main", "fallback"},
                      pending : SUBSET (Main \cup Fallback \cup Policy),
                      answer : Dns!Answers \cup {Dns!NoAnswer}]
      /\ waiters' \subseteq Dns!Actors /\ dups' \in BOOLEAN
      /\ FlightInv'
      /\ flight'.stage # Dns!None /\ a \in waiters'
      /\ flight.stage # Dns!None => waiters \subseteq waiters'
  BY <1>1, DoChanKeeps
<1>3. Dns!TypeOK'
  BY <1>1, <1>2 DEF DnsInv, Dns!TypeOK
<1>4. Dns!NobodyIsForgotten'
  BY <1>1, <1>2 DEF DnsInv, Dns!TypeOK, Dns!NobodyIsForgotten
<1>5. Dns!NothingFiltered'
  BY <1>1 DEF DnsInv, Dns!NothingFiltered
<1> QED
  BY <1>2, <1>3, <1>4, <1>5 DEF DnsInv

LEMMA ReceiveInv ==
  ASSUME DnsInv, NEW a \in Dns!Actors, Dns!Receive(a)
  PROVE  DnsInv'
<1>1. /\ UNCHANGED <<route, cache, asked>>
      /\ ch' = [ch EXCEPT ![a] = Dns!Empty]
      /\ actor' \in [Dns!Actors -> {"idle", "exchange", "wait", "monitor"}]
      /\ \A b \in Dns!Actors : actor'[b] \in {"wait", "monitor"} => actor'[b] = actor[b] /\ b # a
  BY DEF DnsInv, Dns!TypeOK, Dns!Receive, Dns!Actors
<1>2. Dns!DoChan({}) \/ UNCHANGED <<flight, waiters, dups>>
  BY DEF Dns!Receive
<1>3. /\ flight' \in [stage : {Dns!None, "policy", "main", "fallback"},
                      pending : SUBSET (Main \cup Fallback \cup Policy),
                      answer : Dns!Answers \cup {Dns!NoAnswer}]
      /\ waiters' \subseteq Dns!Actors /\ dups' \in BOOLEAN
      /\ FlightInv'
      /\ flight.stage # Dns!None => flight'.stage # Dns!None /\ waiters \subseteq waiters'
  BY <1>2, DoChanKeeps DEF DnsInv, Dns!TypeOK, FlightInv
<1>4. Dns!TypeOK'
  <2>1. Dns!Empty \in [answer : Dns!Answers \cup {Dns!Error, Dns!NoAnswer}, shared : BOOLEAN]
    BY DEF Dns!Empty
  <2> QED
    BY <1>1, <1>3, <2>1 DEF DnsInv, Dns!TypeOK
<1>5. Dns!NobodyIsForgotten'
  BY <1>1, <1>3 DEF DnsInv, Dns!TypeOK, Dns!NobodyIsForgotten
<1>6. Dns!NothingFiltered'
  BY <1>1, AnswerFacts DEF DnsInv, Dns!TypeOK, Dns!NothingFiltered
<1> QED
  BY <1>3, <1>4, <1>5, <1>6 DEF DnsInv

LEMMA ContextDoneInv ==
  ASSUME DnsInv, NEW a \in Dns!Actors, Dns!ContextDone(a)
  PROVE  DnsInv'
<1>1. /\ UNCHANGED <<route, cache, flight, waiters, dups, ch, asked>>
      /\ actor' \in [Dns!Actors -> {"idle", "exchange", "wait", "monitor"}]
      /\ \A b \in Dns!Actors :
           actor'[b] \in {"wait", "monitor"} => actor[b] \in {"wait", "monitor"}
  BY DEF DnsInv, Dns!TypeOK, Dns!ContextDone
<1>2. Dns!TypeOK' /\ FlightInv'
  BY <1>1 DEF DnsInv, Dns!TypeOK, FlightInv
<1>3. Dns!NobodyIsForgotten' /\ Dns!NothingFiltered'
  BY <1>1 DEF DnsInv, Dns!NobodyIsForgotten, Dns!NothingFiltered
<1> QED
  BY <1>2, <1>3 DEF DnsInv

LEMMA AnswerInv ==
  ASSUME DnsInv, NEW s \in Main \cup Fallback \cup Policy, Dns!Answer(s)
  PROVE  DnsInv'
<1>1. PICK q \in Dns!Quality \cup {Dns!None} :
        flight' = [flight EXCEPT !.pending = @ \ {s},
                     !.answer = IF @ = Dns!NoAnswer /\ q # Dns!None THEN <<flight.stage, q>> ELSE @]
  BY DEF Dns!Answer
<1>2. UNCHANGED <<route, cache, waiters, dups, actor, ch, asked>> /\ s \in flight.pending
  BY DEF Dns!Answer
<1>3. flight.stage \in Stages
  BY <1>2 DEF DnsInv, Dns!TypeOK, FlightInv, Stages
<1>4. /\ flight'.stage = flight.stage /\ flight'.pending \subseteq flight.pending
      /\ flight'.answer # Dns!NoAnswer => flight'.answer \in {flight.stage} \X Dns!Quality
  BY <1>1 DEF DnsInv, Dns!TypeOK, FlightInv, Dns!None
<1>5. flight' \in [stage : {Dns!None, "policy", "main", "fallback"},
                   pending : SUBSET (Main \cup Fallback \cup Policy),
                   answer : Dns!Answers \cup {Dns!NoAnswer}]
  <2>1. flight'.answer \in Dns!Answers \cup {Dns!NoAnswer}
    BY <1>3, <1>4, AnswerFacts
  <2>2. flight' = [stage |-> flight'.stage, pending |-> flight'.pending, answer |-> flight'.answer]
    BY <1>1 DEF DnsInv, Dns!TypeOK
  <2>3. flight'.stage \in {Dns!None, "policy", "main", "fallback"}
        /\ flight'.pending \in SUBSET (Main \cup Fallback \cup Policy)
    BY <1>4 DEF DnsInv, Dns!TypeOK
  <2> QED
    BY <2>1, <2>2, <2>3
<1>6. Dns!TypeOK' /\ FlightInv'
  BY <1>2, <1>4, <1>5 DEF DnsInv, Dns!TypeOK, FlightInv
<1>7. Dns!NobodyIsForgotten' /\ Dns!NothingFiltered'
  BY <1>2, <1>4 DEF DnsInv, Dns!NobodyIsForgotten, Dns!NothingFiltered
<1> QED
  BY <1>6, <1>7 DEF DnsInv

LEMMA AskFallbackInv ==
  ASSUME DnsInv, Dns!AskFallback
  PROVE  DnsInv'
<1>1. /\ UNCHANGED <<route, cache, waiters, dups, actor, ch, asked>>
      /\ Dns!BatchExchange("fallback") /\ "fallback" \in Stages
  BY DEF Dns!AskFallback, Stages
<1>2. /\ flight' \in [stage : {Dns!None, "policy", "main", "fallback"},
                      pending : SUBSET (Main \cup Fallback \cup Policy),
                      answer : Dns!Answers \cup {Dns!NoAnswer}]
      /\ flight'.stage # Dns!None /\ FlightInv'
  BY <1>1, BatchKeeps DEF Dns!None
<1>3. Dns!TypeOK'
  BY <1>1, <1>2 DEF DnsInv, Dns!TypeOK
<1>4. Dns!NobodyIsForgotten' /\ Dns!NothingFiltered'
  BY <1>1, <1>2 DEF DnsInv, Dns!NobodyIsForgotten, Dns!NothingFiltered
<1> QED
  BY <1>2, <1>3, <1>4 DEF DnsInv

LEMMA DoCallInv ==
  ASSUME DnsInv, Dns!DoCall
  PROVE  DnsInv'
<1> DEFINE answer == IF flight.answer = Dns!NoAnswer THEN Dns!Error ELSE flight.answer
<1>1. /\ UNCHANGED <<route, actor, asked>>
      /\ ch' = [a \in Dns!Actors |-> IF a \in waiters THEN [answer |-> answer, shared |-> dups] ELSE ch[a]]
      /\ flight' = Dns!Idle /\ waiters' = {} /\ dups' = FALSE
      /\ \/ flight.answer # Dns!NoAnswer /\ cache' = [age |-> "fresh", answer |-> flight.answer]
         \/ cache' = cache
      /\ Dns!Accepted(flight.answer)
  BY DEF Dns!DoCall, Dns!Deliver
<1>2. flight.answer \in Dns!Answers \cup {Dns!NoAnswer} /\ answer # Dns!NoAnswer
      /\ answer \in Dns!Answers \cup {Dns!Error}
  BY AnswerFacts DEF DnsInv, Dns!TypeOK
<1>3. route = "main, then fallback" => flight.answer \notin Dns!Rejected /\ answer \notin Dns!Rejected
  <2> SUFFICES ASSUME route = "main, then fallback", flight.answer # Dns!NoAnswer
               PROVE  flight.answer \notin Dns!Rejected
    BY AnswerFacts
  <2>1. flight.answer \in {flight.stage} \X Dns!Quality
    BY DEF DnsInv, FlightInv
  <2>2. flight.stage = "fallback" \/ flight.answer[2] = "clean"
    BY <1>1 DEF Dns!Accepted
  <2> QED
    BY <2>1, <2>2 DEF Dns!Rejected
<1> HIDE DEF answer
<1>4. Dns!TypeOK'
  <2>1. Dns!Idle \in [stage : {Dns!None, "policy", "main", "fallback"},
                      pending : SUBSET (Main \cup Fallback \cup Policy),
                      answer : Dns!Answers \cup {Dns!NoAnswer}]
    BY DEF Dns!Idle
  <2>2. ch' \in [Dns!Actors -> [answer : Dns!Answers \cup {Dns!Error, Dns!NoAnswer}, shared : BOOLEAN]]
    BY <1>1, <1>2 DEF DnsInv, Dns!TypeOK
  <2>3. cache' \in [age : {Dns!None, "fresh", "stale"}, answer : Dns!Answers \cup {Dns!NoAnswer}]
    BY <1>1, <1>2 DEF DnsInv, Dns!TypeOK
  <2> QED
    BY <1>1, <2>1, <2>2, <2>3 DEF DnsInv, Dns!TypeOK
<1>5. FlightInv'
  BY <1>1 DEF FlightInv, Dns!Idle
<1>6. Dns!NobodyIsForgotten'
  BY <1>1, <1>2, AnswerFacts DEF DnsInv, Dns!NobodyIsForgotten
<1>7. Dns!NothingFiltered'
  <2> SUFFICES ASSUME route = "main, then fallback"
               PROVE  /\ cache'.answer \notin Dns!Rejected
                      /\ \A a \in Dns!Actors : ch'[a].answer \notin Dns!Rejected
    BY <1>1 DEF Dns!NothingFiltered
  <2>1. /\ cache.answer \notin Dns!Rejected
        /\ \A a \in Dns!Actors : ch[a].answer \notin Dns!Rejected
    BY DEF DnsInv, Dns!NothingFiltered
  <2>2. cache'.answer \in {cache.answer, flight.answer}
    <3>1. cache' = [age |-> "fresh", answer |-> flight.answer] \/ cache' = cache
      BY <1>1
    <3>2. CASE cache' = cache
      BY <3>2
    <3>3. CASE cache' = [age |-> "fresh", answer |-> flight.answer]
      BY <3>3
    <3> QED
      BY <3>1, <3>2, <3>3
  <2>3. \A a \in Dns!Actors : ch'[a].answer \in {ch[a].answer, answer}
    BY <1>1
  <2> QED
    BY <1>1, <1>3, <2>1, <2>2, <2>3
<1> QED
  BY <1>4, <1>5, <1>6, <1>7 DEF DnsInv

LEMMA CacheInv ==
  ASSUME DnsInv, Dns!Expire \/ Dns!ClearCache
  PROVE  DnsInv'
<1>1. /\ UNCHANGED <<route, flight, waiters, dups, actor, ch, asked>>
      /\ cache' \in [age : {Dns!None, "fresh", "stale"}, answer : Dns!Answers \cup {Dns!NoAnswer}]
      /\ cache'.answer \in {cache.answer, Dns!NoAnswer}
  BY DEF Dns!Expire, Dns!ClearCache, Dns!NoEntry, DnsInv, Dns!TypeOK
<1>2. Dns!TypeOK' /\ FlightInv'
  BY <1>1 DEF DnsInv, Dns!TypeOK, FlightInv
<1>3. Dns!NobodyIsForgotten' /\ Dns!NothingFiltered'
  BY <1>1, AnswerFacts DEF DnsInv, Dns!NobodyIsForgotten, Dns!NothingFiltered
<1> QED
  BY <1>2, <1>3 DEF DnsInv

LEMMA DnsStep ==
  ASSUME DnsInv, [CoreNext]_allVars
  PROVE  DnsInv'
<1>1. CASE UNCHANGED resolverVars
  BY <1>1 DEF resolverVars, DnsInv, Dns!TypeOK, FlightInv, Dns!NobodyIsForgotten, Dns!NothingFiltered
<1>2. CASE Dns!Next
  BY <1>2, ExchangeContextInv, ExchangeWithoutCacheInv, ReceiveInv, ContextDoneInv, AnswerInv,
     AskFallbackInv, DoCallInv, CacheInv DEF Dns!Next
<1>3. Dns!Next \/ UNCHANGED resolverVars
  BY DEF CoreNext, allVars, resolverVars, D, A, M, L, G, R, N, Dns!Next
<1> QED
  BY <1>1, <1>2, <1>3

(* Every call of the resolver gets the result of the exchange it shares, and*)
(* no answer of the main servers that the fallback filter rejects; for any  *)
(* number of callers and servers.                                           *)
THEOREM QueriesGetAnswers == CoreSpec => []QueriesAreAnswered
<1>1. CoreInit => DnsInv
  BY DnsInit DEF CoreInit
<1>2. DnsInv /\ [CoreNext]_allVars => DnsInv'
  BY DnsStep
<1>3. DnsInv => QueriesAreAnswered
  BY DEF DnsInv, QueriesAreAnswered, Dns!QueriesAreAnswered
<1> QED
  BY <1>1, <1>2, <1>3, PTL DEF CoreSpec

(* ---- UrlTest. ----------------------------------------------------------*)
(* What callers would share, a result or a computation, is not older than   *)
(* the last Reset.                                                          *)
SharedAreFresh ==
  /\ result # Group!None => Group!None \notin old
  /\ call # Group!None => call \notin old

(* A computation that ran beside no other returns what it chose.            *)
OwnChoice ==
  /\ \A d \in Dialers : at[d] = "read" /\ d \notin met => fastNode = choice[d]
  /\ \A d, e \in Group!Computing : d # e => d \in met

GroupInv ==
  /\ ~stale
  /\ DOMAIN at = Dialers /\ DOMAIN choice = Dialers
  /\ SharedAreFresh
  /\ OwnChoice

LEMMA ResetKeeps ==
  ASSUME Group!Reset
  PROVE  SharedAreFresh' /\ met' = met
BY DEF Group!Reset, SharedAreFresh

(* A step of a dialer that computes nothing leaves the others' choices.     *)
LEMMA AsideKeeps ==
  ASSUME OwnChoice, UNCHANGED <<fastNode, met>>,
         \A d \in Dialers : at[d] \in {"compute", "fix", "judge", "replace", "read"}
                            \/ at'[d] \in {"compute", "fix", "judge", "replace", "read"}
                            => at'[d] = at[d] /\ choice'[d] = choice[d]
  PROVE  OwnChoice'
BY DEF OwnChoice, Group!Computing

LEMMA DialUrlTestInv ==
  ASSUME GroupInv, NEW d \in Dialers, Group!DialUrlTest(d)
  PROVE  GroupInv'
<1>0. at[d] = "idle" /\ fastNode' = fastNode
  BY DEF Group!DialUrlTest, Group!groupVars
<1>1. CASE result # Group!None /\ UNCHANGED <<call, old, met>> /\ stale' = (stale \/ Group!None \in old)
           /\ choice' = [choice EXCEPT ![d] = result] /\ Group!Goto(d, "dial")
  <2>1. OwnChoice'
    BY <1>0, <1>1, AsideKeeps DEF GroupInv, Group!Goto
  <2> QED
    BY <1>1, <2>1 DEF GroupInv, SharedAreFresh, Group!DialUrlTest, Group!Goto
<1>2. CASE result = Group!None /\ call # Group!None /\ UNCHANGED <<call, old, met>>
           /\ stale' = (stale \/ call \in old)
           /\ IF at[call] = "finish"
                THEN choice' = [choice EXCEPT ![d] = choice[call]] /\ Group!Goto(d, "dial") /\ UNCHANGED of
                ELSE of' = [of EXCEPT ![d] = call] /\ Group!Goto(d, "wait") /\ UNCHANGED choice
  <2>1. OwnChoice'
    BY <1>0, <1>2, AsideKeeps DEF GroupInv, Group!Goto
  <2> QED
    BY <1>2, <2>1 DEF GroupInv, SharedAreFresh, Group!DialUrlTest, Group!Goto
<1>3. CASE result = Group!None /\ call' = d /\ old' = old \ {d} /\ UNCHANGED <<stale, choice>>
           /\ met' = (IF Group!Computing = {} THEN met ELSE met \cup Group!Computing \cup {d})
           /\ Group!Goto(d, "compute")
  <2>1. Group!Computing' = Group!Computing \cup {d} /\ d \notin Group!Computing
    BY <1>0, <1>3 DEF GroupInv, Group!Computing, Group!Goto
  <2>2. \A e \in Dialers : at'[e] = "read" => at[e] = "read" /\ e \in Group!Computing
    BY <1>3 DEF GroupInv, Group!Computing, Group!Goto
  <2>3. OwnChoice'
    BY <1>0, <1>3, <2>1, <2>2 DEF GroupInv, OwnChoice
  <2> QED
    BY <1>3, <2>3 DEF GroupInv, SharedAreFresh, Group!DialUrlTest, Group!Goto
<1> QED
  BY <1>1, <1>2, <1>3 DEF Group!DialUrlTest

LEMMA ScanInv ==
  ASSUME GroupInv, NEW d \in Dialers, Group!Scan(d) \/ Group!Judge(d) \/ Group!Replace(d)
  PROVE  GroupInv'
<1> USE DEF Group!groupVars, Group!singleVars
<1>1. UNCHANGED <<call, result, old, met, stale>> /\ DOMAIN at' = Dialers /\ DOMAIN choice' = Dialers
  BY DEF GroupInv, Group!Scan, Group!Judge, Group!Replace, Group!Goto
<1>2. d \in Group!Computing /\ Group!Computing' = Group!Computing
  BY DEF GroupInv, Group!Computing, Group!Scan, Group!Judge, Group!Replace, Group!Goto
<1>3. \A e \in Dialers \ {d} : at'[e] = at[e] /\ choice'[e] = choice[e]
  BY DEF GroupInv, Group!Scan, Group!Judge, Group!Replace, Group!Goto
<1>4. at'[d] = "read" => fastNode' = choice'[d]
  BY DEF GroupInv, Group!Scan, Group!Judge, Group!Replace, Group!Goto
<1>5. \A e \in Dialers \ {d} : at[e] = "read" /\ e \notin met => FALSE
  BY <1>2 DEF GroupInv, OwnChoice, Group!Computing
<1>6. OwnChoice'
  BY <1>1, <1>2, <1>3, <1>4, <1>5 DEF GroupInv, OwnChoice
<1> QED
  BY <1>1, <1>6 DEF GroupInv, SharedAreFresh

LEMMA ReturnInv ==
  ASSUME GroupInv, NEW d \in Dialers, Group!ReturnFixed(d) \/ Group!ReturnFastNode(d)
  PROVE  GroupInv'
<1> USE DEF Group!groupVars
<1>1. UNCHANGED <<call, result, old>> /\ met' = met \ {d}
      /\ DOMAIN at' = Dialers /\ DOMAIN choice' = Dialers
  BY DEF Group!ReturnFixed, Group!ReturnFastNode, Group!Return
<1>2. d \in Group!Computing
  BY DEF Group!Computing, Group!ReturnFixed, Group!ReturnFastNode
<1>3. Group!Computing' \subseteq Group!Computing \ {d}
  <2> SUFFICES ASSUME NEW e \in Group!Computing' PROVE e \in Group!Computing \ {d}
    OBVIOUS
  <2>1. e \in Dialers /\ at'[e] \in {"compute", "fix", "judge", "replace", "read"}
    BY DEF Group!Computing
  <2>2. at' = [f \in Dialers |-> IF f \in {g \in Dialers : at[g] = "wait" /\ of[g] = d} THEN "dial"
                                 ELSE IF f = d THEN "finish" ELSE at[f]]
    BY DEF Group!ReturnFixed, Group!ReturnFastNode, Group!Return
  <2> QED
    BY <2>1, <2>2 DEF Group!Computing
<1>4. \A e \in Dialers : at'[e] = "read" => e \in Group!Computing' /\ e # d
  BY <1>3 DEF Group!Computing
<1>5. \A e \in Group!Computing \ {d} : e \in met
  BY <1>2 DEF GroupInv, OwnChoice
<1>6. OwnChoice'
  BY <1>1, <1>3, <1>4, <1>5 DEF OwnChoice
<1>7. ~stale'
  BY DEF GroupInv, OwnChoice, Group!ReturnFixed, Group!ReturnFastNode
<1> QED
  BY <1>1, <1>6, <1>7 DEF GroupInv, SharedAreFresh

LEMMA KeepInv ==
  ASSUME GroupInv, NEW d \in Dialers, Group!Keep(d)
  PROVE  GroupInv'
<1>0. at[d] = "finish" /\ Group!Goto(d, "dial") /\ UNCHANGED <<choice, fastNode, met, stale>>
  BY DEF Group!Keep, Group!groupVars
<1>1. OwnChoice'
  BY <1>0, AsideKeeps DEF GroupInv, Group!Goto
<1>2. SharedAreFresh'
  <2>1. CASE call = d
    <3>1. d # Group!None /\ d \notin old
      BY <2>1, DialersAssumption DEF GroupInv, SharedAreFresh, Group!None
    <3> QED
      BY <2>1, <3>1 DEF SharedAreFresh, Group!Keep
  <2>2. CASE call # d
    BY <2>2 DEF Group!Keep, GroupInv, SharedAreFresh
  <2> QED
    BY <2>1, <2>2
<1> QED
  BY <1>0, <1>1, <1>2 DEF GroupInv, Group!Goto

LEMMA FailureInv ==
  ASSUME GroupInv, NEW d \in Dialers,
         \/ Group!DialFallback(d) \/ Group!Dial(d) \/ Group!Count(d)
         \/ Group!HealthCheck(d) \/ Group!Tested(d) \/ Group!ResetFirst(d) \/ Group!ResetLast(d)
  PROVE  GroupInv'
<1> USE DEF Group!groupVars, Group!singleVars
<1>1. at[d] \in {"idle", "dial", "count", "reset", "testing", "tested", "last"}
      /\ UNCHANGED <<fastNode, stale>>
  BY DEF Group!DialFallback, Group!Dial, Group!Count, Group!HealthCheck, Group!Tested,
         Group!ResetFirst, Group!ResetLast
<1>2. \E l \in {"idle", "dial", "count", "reset", "testing", "tested", "joined", "last"} : Group!Goto(d, l)
  BY DEF Group!DialFallback, Group!Dial, Group!Count, Group!HealthCheck, Group!Tested,
         Group!ResetFirst, Group!ResetLast
<1>3. choice' = choice \/ \E p : choice' = [choice EXCEPT ![d] = p]
  BY DEF Group!DialFallback, Group!Dial, Group!Count, Group!HealthCheck, Group!Tested,
         Group!ResetFirst, Group!ResetLast
<1>4. SharedAreFresh' /\ met' = met
  <2>1. Group!Reset \/ UNCHANGED <<call, result, old, met>>
    BY DEF Group!DialFallback, Group!Dial, Group!Count, Group!HealthCheck, Group!Tested,
           Group!ResetFirst, Group!ResetLast
  <2> QED
    BY <2>1, ResetKeeps DEF GroupInv, SharedAreFresh
<1>5. OwnChoice'
  BY <1>1, <1>2, <1>3, <1>4, AsideKeeps DEF GroupInv, Group!Goto
<1> QED
  BY <1>1, <1>2, <1>3, <1>4, <1>5 DEF GroupInv, Group!Goto

LEMMA GroupStep ==
  ASSUME GroupInv, [CoreNext]_allVars
  PROVE  GroupInv'
<1> USE DEF Group!groupVars, Group!singleVars, Group!dialVars, Group!failVars, Group!checkVars, Group!proxyVars
<1>1. CASE UNCHANGED groupVars
  BY <1>1 DEF groupVars, GroupInv, SharedAreFresh, OwnChoice, Group!Computing
<1>2. ASSUME NEW d \in Dialers, Group!Connection(d)
      PROVE  GroupInv'
  BY <1>2, DialUrlTestInv, ScanInv, ReturnInv, KeepInv, FailureInv DEF Group!Connection
<1>3. ASSUME NEW p \in Group!Proxies, Group!Test(p) \/ Group!Flip(p)
      PROVE  GroupInv'
  <2>1. CASE Group!Observe(p) \/ Group!Flip(p)
    BY <2>1 DEF GroupInv, SharedAreFresh, OwnChoice, Group!Computing, Group!Observe, Group!Flip
  <2>2. CASE Group!Record(p)
    <3>1. UNCHANGED <<call, result, old, met, stale, fastNode, choice>>
      BY <2>2 DEF Group!Record
    <3>2. at' = [d \in Dialers |-> IF at[d] = "joined" /\ Group!Ends(test') THEN "tested" ELSE at[d]]
      BY <2>2 DEF Group!Record
    <3>3. OwnChoice'
      BY <3>1, <3>2, AsideKeeps DEF GroupInv
    <3> QED
      BY <3>1, <3>2, <3>3 DEF GroupInv, SharedAreFresh
  <2> QED
    BY <1>3, <2>1, <2>2 DEF Group!Test
<1>4. ASSUME NEW p \in Fixable, Group!ForceSet(p)
      PROVE  GroupInv'
  BY <1>4, ResetKeeps DEF GroupInv, OwnChoice, Group!Computing, Group!ForceSet
<1>5. CASE Group!ResultExpires \/ Group!RecentExpires \/ Group!Tick
  BY <1>5 DEF GroupInv, SharedAreFresh, OwnChoice, Group!Computing, Group!ResultExpires,
              Group!RecentExpires, Group!Tick
<1>6. Group!Next \/ UNCHANGED groupVars
  BY DEF CoreNext, allVars, groupVars, D, A, M, L, G, R, N
<1> QED
  BY <1>1, <1>2, <1>3, <1>4, <1>5, <1>6 DEF Group!Next

(* No caller of a group gets a choice older than the Reset before its call, *)
(* and a computation that ran beside none that a Reset has forgotten        *)
(* returns its own choice; for any number of callers and proxies.           *)
THEOREM ChoicesAreFresh == CoreSpec => []NothingStale
<1>1. CoreInit => GroupInv
  BY DEF CoreInit, Group!Init, GroupInv, SharedAreFresh, OwnChoice, Group!Computing
<1>2. GroupInv /\ [CoreNext]_allVars => GroupInv'
  BY GroupStep
<1>3. GroupInv => NothingStale
  BY DEF GroupInv, NothingStale, Group!NothingStale
<1> QED
  BY <1>1, <1>2, <1>3, PTL DEF CoreSpec

(* ---- AnytlsClient. ------------------------------------------------------*)
Lives == {"none", "alive", "hook", "streams", "closed"}
Records == [life : Lives, sid : Nat, streams : SUBSET Nat, dead : SUBSET Nat, asked : SUBSET Nat,
            missed : BOOLEAN]
Pcs == {"idle", "get", "dial", "open", "syn", "register", "failed", "hook", "using", "pool",
        "insert", "fin"}
Without == {"idle", "get", "dial"}

(* Who has the session s in hand and will serve, pool or close it.          *)
Holds(u, s) ==
    /\ user[u].s = s
    /\ \/ user[u].pc \in {"open", "syn", "register", "hook", "pool", "insert"}
       \/ user[u].pc = "using" /\ user[u].sid \notin session[s].dead
Pools(s) == recv[s].pc \in {"pool", "insert"}
Alive(s) == session[s].life = "alive"

AnytlsType ==
    /\ done \in BOOLEAN /\ closer \in {"no", "cancelled", "closing"}
    /\ toClose \subseteq Anytls!Sessions /\ idle \subseteq Anytls!Sessions
    /\ session \in [Anytls!Sessions -> Records]
    /\ user \in [Users -> [pc : Pcs, s : Nat, sid : Nat]]
    /\ recv \in [Anytls!Sessions -> [pc : {"read", "pool", "insert", "fin"}, sid : Nat, fin : BOOLEAN]]

(* Who has a session has one that was dialled, and a stream that it opened. *)
UserInv ==
    \A u \in Users : user[u].pc \notin Without =>
        /\ user[u].s \in Anytls!Sessions /\ session[user[u].s].life # "none"
        /\ user[u].pc = "failed" => ~Alive(user[u].s)
        /\ user[u].pc \notin {"open", "failed"} => user[u].sid <= session[user[u].s].sid
        /\ user[u].pc \in {"syn", "register", "hook"} /\ Alive(user[u].s) /\ ~session[user[u].s].missed =>
             user[u].sid \notin session[user[u].s].dead

(* Nothing is known of a session that was not dialled.                      *)
NoneInv ==
    \A s \in Anytls!Sessions :
        /\ session[s].life = "none" => s \notin idle /\ ~Pools(s) /\ session[s].asked = {}
        /\ Alive(s) => \A i \in session[s].dead : i <= session[s].sid

(* A session is held by one, and in the pool by none.                       *)
HeldInv ==
    \A s \in Anytls!Sessions :
        /\ \A u, v \in Users : Holds(u, s) /\ Holds(v, s) => u = v
        /\ s \in idle => ~Pools(s) /\ \A u \in Users : ~Holds(u, s)
        /\ Pools(s) => \A u \in Users : ~Holds(u, s)

(* What the server may answer has somebody who uses it, or is about to,     *)
(* unless it is dead.                                                       *)
AskedInv ==
    \A s \in Anytls!Sessions : \A i \in session[s].asked \ session[s].dead :
        \E u \in Users : user[u].s = s /\ user[u].sid = i /\ user[u].pc \in {"hook", "using"}

OwnedInv ==
    \A s \in Anytls!Sessions : Alive(s) /\ ~session[s].missed =>
        (\E u \in Users : Holds(u, s)) \/ s \in idle \cup toClose \/ Pools(s)

(* Nothing comes back into the pool of a client that is closed.             *)
CloseInv ==
    /\ closer # "no" => done
    /\ closer = "closing" =>
         \A s \in Anytls!Sessions : Alive(s) /\ s \notin toClose =>
             /\ s \notin idle /\ recv[s].pc # "insert"
             /\ \A u \in Users : user[u].s = s => user[u].pc # "insert"

AnytlsInv == AnytlsType /\ UserInv /\ NoneInv /\ HeldInv /\ AskedInv /\ OwnedInv /\ CloseInv

(* A step by which hands are taken off sessions, or sessions die.           *)
SessionLets(s) ==
    /\ session'[s].sid = session[s].sid
    /\ session'[s].life = "none" <=> session[s].life = "none"
    /\ session[s].dead \subseteq session'[s].dead
    /\ session'[s].asked \subseteq session[s].asked
    /\ session'[s].life = "alive" =>
         /\ session[s].life = "alive" /\ session'[s].dead = session[s].dead
         /\ session'[s].missed = session[s].missed
         /\ s \in idle => s \in idle' \cup toClose'
         /\ s \in toClose => s \in toClose'
RecvLets(s) ==
    \/ recv'[s] = recv[s]
    \/ /\ recv'[s].pc \in {"read", "fin"}
       /\ recv[s].pc \in {"pool", "insert"} /\ session'[s].life = "alive" => s \in toClose'
UserLets(u) ==
    \/ user'[u] = user[u]
    \/ /\ \/ user'[u].pc \in Without
          \/ /\ user'[u].pc \in {"failed", "fin"} /\ user[u].pc \notin Without
             /\ user'[u].s = user[u].s /\ user'[u].sid = user[u].sid
             /\ user'[u].pc = "failed" => session'[user[u].s].life # "alive"
             /\ user'[u].pc = "fin" => user[u].pc \notin {"open", "failed"}
       /\ user[u].pc = "using" => user[u].sid \in session[user[u].s].dead
       /\ user[u].pc # "hook"
       /\ user[u].pc \in {"open", "syn", "register", "pool", "insert"}
          /\ session'[user[u].s].life = "alive" => user[u].s \in toClose'

LEMMA Releases ==
    ASSUME AnytlsInv, AnytlsType', idle' \subseteq idle,
           closer' # "no" => done',
           closer' = "closing" =>
               closer = "closing" \/ \A s \in Anytls!Sessions : Alive(s)' => s \in toClose',
           \A s \in Anytls!Sessions : SessionLets(s) /\ RecvLets(s),
           \A u \in Users : UserLets(u)
    PROVE  AnytlsInv'
<1> USE DEF SessionLets, RecvLets, UserLets
<1>0. /\ session \in [Anytls!Sessions -> Records] /\ session' \in [Anytls!Sessions -> Records]
      /\ user \in [Users -> [pc : Pcs, s : Nat, sid : Nat]]
      /\ \A s \in Anytls!Sessions : session[s].sid \in Nat
      /\ \A u \in Users : user[u].sid \in Nat
  BY DEF AnytlsInv, AnytlsType, Records
<1>1. UserInv'
  <2> SUFFICES ASSUME NEW u \in Users, user'[u].pc \notin Without
               PROVE  /\ user'[u].s \in Anytls!Sessions /\ session'[user'[u].s].life # "none"
                      /\ user'[u].pc = "failed" => ~session'[user'[u].s].life = "alive"
                      /\ user'[u].pc \notin {"open", "failed"} =>
                           user'[u].sid <= session'[user'[u].s].sid
                      /\ user'[u].pc \in {"syn", "register", "hook"} /\ session'[user'[u].s].life = "alive" /\ ~session'[user'[u].s].missed =>
                           user'[u].sid \notin session'[user'[u].s].dead
    BY DEF UserInv, Alive
  <2>1. user[u].pc \notin Without /\ user'[u].s = user[u].s /\ user'[u].sid = user[u].sid
    OBVIOUS
  <2>2. /\ user[u].s \in Anytls!Sessions /\ session[user[u].s].life # "none"
        /\ user[u].pc = "failed" => ~Alive(user[u].s)
        /\ user[u].pc \notin {"open", "failed"} => user[u].sid <= session[user[u].s].sid
        /\ user[u].pc \in {"syn", "register", "hook"} /\ Alive(user[u].s) /\ ~session[user[u].s].missed =>
             user[u].sid \notin session[user[u].s].dead
    BY <2>1 DEF AnytlsInv, UserInv
  <2>3. /\ session'[user[u].s].sid = session[user[u].s].sid
        /\ session'[user[u].s].life # "none"
        /\ session'[user[u].s].life = "alive" =>
             Alive(user[u].s) /\ session'[user[u].s].dead = session[user[u].s].dead
    BY <2>2 DEF Alive
  <2>4. CASE user'[u] = user[u]
    BY <2>2, <2>3, <2>4 DEF Alive
  <2>5. CASE user'[u].pc = "failed" /\ session'[user[u].s].life # "alive"
    BY <2>1, <2>2, <2>3, <2>5 DEF Alive
  <2>6. CASE user'[u].pc = "fin" /\ user[u].pc \notin {"open", "failed"}
    BY <2>1, <2>2, <2>3, <2>6
  <2> QED
    BY <2>4, <2>5, <2>6
<1>2. NoneInv'
  <2> SUFFICES ASSUME NEW s \in Anytls!Sessions
               PROVE  /\ session'[s].life = "none" =>
                           s \notin idle' /\ ~Pools(s)' /\ session'[s].asked = {}
                      /\ Alive(s)' => \A i \in session'[s].dead : i <= session'[s].sid
    BY DEF NoneInv, Alive
  <2>1. Pools(s)' => Pools(s)
    BY DEF Pools
  <2> QED
    BY <2>1 DEF AnytlsInv, NoneInv, Alive
<1>3. ASSUME NEW s \in Anytls!Sessions, NEW u \in Users, Holds(u, s)' PROVE Holds(u, s)
  <2>1. user'[u].s = s /\ user'[u].pc \in {"open", "syn", "register", "hook", "pool", "insert", "using"}
    BY <1>3 DEF Holds
  <2>2. user'[u] = user[u]
    BY <2>1 DEF Without
  <2> QED
    BY <1>3, <2>2 DEF Holds
<1>4. HeldInv'
  <2>1. \A s \in Anytls!Sessions : Pools(s)' => Pools(s)
    BY DEF Pools
  <2> QED
    BY <1>3, <2>1 DEF AnytlsInv, HeldInv
<1>5. AskedInv'
  <2> SUFFICES ASSUME NEW s \in Anytls!Sessions, NEW i \in session'[s].asked \ session'[s].dead
               PROVE  \E u \in Users : user'[u].s = s /\ user'[u].sid = i /\ user'[u].pc \in {"hook", "using"}
    BY DEF AskedInv
  <2>1. i \in session[s].asked \ session[s].dead
    OBVIOUS
  <2>2. PICK u \in Users : user[u].s = s /\ user[u].sid = i /\ user[u].pc \in {"hook", "using"}
    BY <2>1 DEF AnytlsInv, AskedInv
  <2>3. user'[u] = user[u]
    BY <2>1, <2>2
  <2> QED
    BY <2>2, <2>3
<1>6. OwnedInv'
  <2> SUFFICES ASSUME NEW s \in Anytls!Sessions, Alive(s)', ~session'[s].missed,
                      \A u \in Users : ~Holds(u, s)', s \notin toClose', ~Pools(s)'
               PROVE  s \in idle'
    BY DEF OwnedInv
  <2>1. Alive(s) /\ session'[s].dead = session[s].dead /\ ~session[s].missed
    BY DEF Alive
  <2>2. ~Pools(s)
    BY DEF Pools, Alive
  <2>3. \A u \in Users : ~Holds(u, s)
    <3> SUFFICES ASSUME NEW u \in Users, Holds(u, s) PROVE FALSE
      OBVIOUS
    <3>1. user'[u] = user[u]
      BY DEF Holds, Alive
    <3>2. Holds(u, s)'
      BY <2>1, <3>1 DEF Holds
    <3> QED
      BY <3>2
  <2>4. s \notin toClose
    BY DEF Alive
  <2>5. s \in idle
    BY <2>1, <2>2, <2>3, <2>4 DEF AnytlsInv, OwnedInv
  <2> QED
    BY <2>5 DEF Alive
<1>7. CloseInv'
  <2>1. ASSUME closer' = "closing", NEW s \in Anytls!Sessions, Alive(s)', s \notin toClose'
        PROVE  /\ s \notin idle' /\ recv'[s].pc # "insert"
               /\ \A u \in Users : user'[u].s = s => user'[u].pc # "insert"
    <3>1. closer = "closing" /\ Alive(s) /\ s \notin toClose
      BY <2>1 DEF Alive
    <3>2. /\ s \notin idle /\ recv[s].pc # "insert"
          /\ \A u \in Users : user[u].s = s => user[u].pc # "insert"
      BY <3>1 DEF AnytlsInv, CloseInv
    <3>3. \A u \in Users : user'[u].pc = "insert" => user'[u] = user[u]
      BY DEF Without
    <3> QED
      BY <3>2, <3>3
  <2> QED
    BY <2>1 DEF CloseInv, Alive
<1> QED
  BY <1>1, <1>2, <1>4, <1>5, <1>6, <1>7 DEF AnytlsInv

(* A step of who holds a session, and goes on holding it.                   *)
UserGoesOnWith(u, s) ==
    /\ user[u].s = s /\ user'[u].s = s
    /\ user'[u].pc \in {"syn", "register", "hook", "using", "pool", "insert"}
    /\ user'[u].sid <= session'[s].sid
    /\ user'[u].pc \in {"syn", "register", "hook"} /\ Alive(s) /\ ~session[s].missed =>
         user'[u].sid \notin session'[s].dead
    /\ user[u].pc = "using" => user[u].sid \in session'[s].dead
    /\ user[u].pc = "hook" => user'[u].pc = "using" /\ user'[u].sid = user[u].sid
    /\ user'[u].pc = "insert" => ~done
SessionGoesOn(u, s) ==
    /\ session'[s].life = session[s].life /\ session[s].sid <= session'[s].sid
    /\ session'[s].missed = session[s].missed
    /\ session[s].dead \subseteq session'[s].dead
    /\ \A i \in session'[s].dead :
         i \in session[s].dead \/ (i = user[u].sid /\ user[u].pc # "open")
    /\ \A i \in session'[s].asked :
         i \in session[s].asked \/ (user'[u].pc \in {"hook", "using"} /\ user'[u].sid = i)

LEMMA GoesOn ==
    ASSUME AnytlsInv, AnytlsType', UNCHANGED <<idle, recv, toClose, closer, done>>,
           NEW u \in Users, NEW s \in Anytls!Sessions, Holds(u, s),
           Alive(s) /\ ~session[s].missed => Holds(u, s)',
           \A v \in Users : v # u => user'[v] = user[v],
           \A r \in Anytls!Sessions : r # s => session'[r] = session[r],
           UserGoesOnWith(u, s), SessionGoesOn(u, s)
    PROVE  AnytlsInv'
<1> USE DEF UserGoesOnWith, SessionGoesOn
<1>0. /\ session \in [Anytls!Sessions -> Records] /\ session' \in [Anytls!Sessions -> Records]
      /\ user \in [Users -> [pc : Pcs, s : Nat, sid : Nat]]
      /\ \A r \in Anytls!Sessions : session[r].sid \in Nat /\ session'[r].sid \in Nat
      /\ \A v \in Users : user[v].sid \in Nat
  BY DEF AnytlsInv, AnytlsType, Records
<1>1. user[u].pc \notin Without /\ user[u].pc # "failed" /\ user'[u].pc \notin Without
      /\ user'[u].pc # "failed"
  BY DEF Holds, Without
<1>2. session[s].life # "none" /\ (user[u].pc # "open" => user[u].sid <= session[s].sid)
  BY <1>1 DEF AnytlsInv, UserInv
<1>3. /\ \A v \in Users : v # u => ~Holds(v, s)
      /\ s \notin idle /\ ~Pools(s)
  BY DEF AnytlsInv, HeldInv
<1>4. UserInv'
  <2> SUFFICES ASSUME NEW v \in Users, user'[v].pc \notin Without
               PROVE  /\ user'[v].s \in Anytls!Sessions /\ session'[user'[v].s].life # "none"
                      /\ user'[v].pc = "failed" => ~session'[user'[v].s].life = "alive"
                      /\ user'[v].pc \notin {"open", "failed"} =>
                           user'[v].sid <= session'[user'[v].s].sid
                      /\ user'[v].pc \in {"syn", "register", "hook"} /\ session'[user'[v].s].life = "alive" /\ ~session'[user'[v].s].missed =>
                           user'[v].sid \notin session'[user'[v].s].dead
    BY DEF UserInv, Alive
  <2>1. CASE v = u
    BY <1>1, <1>2, <2>1 DEF Alive
  <2>2. CASE v # u
    <3>1. user'[v] = user[v]
      BY <2>2
    <3>2. /\ user[v].s \in Anytls!Sessions /\ session[user[v].s].life # "none"
          /\ user[v].pc = "failed" => ~Alive(user[v].s)
          /\ user[v].pc \notin {"open", "failed"} => user[v].sid <= session[user[v].s].sid
          /\ user[v].pc \in {"syn", "register", "hook"} /\ Alive(user[v].s) /\ ~session[user[v].s].missed =>
               user[v].sid \notin session[user[v].s].dead
      BY <3>1 DEF AnytlsInv, UserInv
    <3>3. CASE user[v].s # s
      <4>1. session'[user[v].s] = session[user[v].s]
        BY <3>2, <3>3
      <4> QED
        BY <3>1, <3>2, <4>1 DEF Alive
    <3>4. CASE user[v].s = s
      <4>1. user[v].pc \notin {"syn", "register", "hook"}
        BY <1>3, <2>2, <3>4 DEF Holds
      <4>2. user[v].sid <= session[s].sid => user[v].sid <= session'[s].sid
        BY <1>0
      <4> QED
        BY <3>1, <3>2, <3>4, <4>1, <4>2 DEF Alive
    <3> QED
      BY <3>3, <3>4
  <2> QED
    BY <2>1, <2>2
<1>5. NoneInv'
  <2> SUFFICES ASSUME NEW r \in Anytls!Sessions
               PROVE  /\ session'[r].life = "none" =>
                           r \notin idle' /\ ~Pools(r)' /\ session'[r].asked = {}
                      /\ Alive(r)' => \A i \in session'[r].dead : i <= session'[r].sid
    BY DEF NoneInv, Alive
  <2>0. Pools(r)' <=> Pools(r)
    BY DEF Pools
  <2>1. CASE r # s
    <3>1. session'[r] = session[r]
      BY <2>1
    <3> QED
      BY <2>0, <3>1 DEF AnytlsInv, NoneInv, Alive
  <2>2. CASE r = s
    <3>1. ASSUME Alive(s)', NEW i \in session'[s].dead PROVE i <= session'[s].sid
      <4>1. Alive(s)
        BY <3>1 DEF Alive
      <4>2. session[s].dead \subseteq Nat /\ session'[s].dead \subseteq Nat
        BY <1>0 DEF Records
      <4>3. i <= session[s].sid
        <5>1. CASE i \in session[s].dead
          BY <4>1, <5>1 DEF AnytlsInv, NoneInv
        <5>2. CASE i = user[u].sid /\ user[u].pc # "open"
          BY <1>2, <5>2
        <5> QED
          BY <5>1, <5>2
      <4>4. i \in Nat
        BY <4>2
      <4> QED
        BY <1>0, <4>3, <4>4
    <3> QED
      BY <1>2, <2>2, <3>1
  <2> QED
    BY <2>1, <2>2
<1>6. ASSUME NEW r \in Anytls!Sessions, NEW v \in Users, Holds(v, r)' PROVE Holds(v, r)
  <2>1. CASE v = u
    <3>1. r = s
      BY <1>6, <2>1 DEF Holds
    <3> QED
      BY <2>1, <3>1
  <2>2. CASE v # u
    <3>1. user'[v] = user[v]
      BY <2>2
    <3>2. session[r].dead \subseteq session'[r].dead
      OBVIOUS
    <3> QED
      BY <1>6, <3>1, <3>2 DEF Holds
  <2> QED
    BY <2>1, <2>2
<1>7. HeldInv'
  <2>1. \A r \in Anytls!Sessions : Pools(r)' <=> Pools(r)
    BY DEF Pools
  <2> QED
    BY <1>6, <2>1 DEF AnytlsInv, HeldInv
<1>8. AskedInv'
  <2> SUFFICES ASSUME NEW r \in Anytls!Sessions, NEW i \in session'[r].asked \ session'[r].dead
               PROVE  \E v \in Users : user'[v].s = r /\ user'[v].sid = i /\ user'[v].pc \in {"hook", "using"}
    BY DEF AskedInv
  <2>1. ASSUME i \in session[r].asked \ session[r].dead
        PROVE  \E v \in Users : user'[v].s = r /\ user'[v].sid = i /\ user'[v].pc \in {"hook", "using"}
    <3>1. PICK v \in Users : user[v].s = r /\ user[v].sid = i /\ user[v].pc \in {"hook", "using"}
      BY <2>1 DEF AnytlsInv, AskedInv
    <3>2. CASE v # u
      BY <3>1, <3>2
    <3>3. CASE v = u
      BY <3>1, <3>3
    <3> QED
      BY <3>2, <3>3
  <2>2. CASE r # s
    BY <2>1, <2>2
  <2>3. CASE r = s
    BY <2>1, <2>3
  <2> QED
    BY <2>2, <2>3
<1>9. OwnedInv'
  <2> SUFFICES ASSUME NEW r \in Anytls!Sessions, Alive(r)', ~session'[r].missed, r # s
               PROVE  (\E v \in Users : Holds(v, r)') \/ r \in idle' \cup toClose' \/ Pools(r)'
    BY DEF OwnedInv, Alive
  <2>1. Alive(r) /\ session'[r] = session[r]
    BY DEF Alive
  <2>2. (\E v \in Users : Holds(v, r)) \/ r \in idle \cup toClose \/ Pools(r)
    BY <2>1 DEF AnytlsInv, OwnedInv
  <2>3. ASSUME NEW v \in Users, Holds(v, r) PROVE Holds(v, r)'
    <3>1. v # u
      BY <2>3 DEF Holds
    <3>2. user'[v] = user[v]
      BY <3>1
    <3> QED
      BY <2>1, <2>3, <3>2 DEF Holds
  <2>4. Pools(r) => Pools(r)'
    BY DEF Pools
  <2> QED
    BY <2>2, <2>3, <2>4
<1>10. CloseInv'
  <2>1. ASSUME closer' = "closing", NEW r \in Anytls!Sessions, Alive(r)', r \notin toClose'
        PROVE  /\ r \notin idle' /\ recv'[r].pc # "insert"
               /\ \A v \in Users : user'[v].s = r => user'[v].pc # "insert"
    <3>1. closer = "closing" /\ r \notin toClose /\ done
      BY <2>1 DEF AnytlsInv, CloseInv
    <3>2. Alive(r)
      BY <2>1 DEF Alive
    <3>3. /\ r \notin idle /\ recv[r].pc # "insert"
          /\ \A v \in Users : user[v].s = r => user[v].pc # "insert"
      BY <3>1, <3>2 DEF AnytlsInv, CloseInv
    <3> QED
      BY <3>1, <3>3
  <2> QED
    BY <2>1 DEF AnytlsInv, CloseInv, Alive
<1> QED
  BY <1>4, <1>5, <1>7, <1>8, <1>9, <1>10 DEF AnytlsInv

(* A user who has none takes a session in hand that nobody holds.           *)
LEMMA Opens ==
    ASSUME AnytlsInv, AnytlsType', UNCHANGED <<recv, toClose, closer, done>>,
           NEW u \in Users, NEW s \in Anytls!Sessions, user[u].pc \in Without,
           user'[u].pc = "open", user'[u].s = s,
           \A v \in Users : v # u => user'[v] = user[v],
           idle' \subseteq idle, idle \subseteq idle' \cup {s}, s \notin idle', ~Pools(s),
           \A v \in Users : ~Holds(v, s),
           \A r \in Anytls!Sessions : r # s => session'[r] = session[r],
           \/ session'[s] = session[s] /\ session[s].life # "none"
           \/ session[s].life = "none" /\ session'[s] = Anytls!NewSession("alive")
    PROVE  AnytlsInv'
<1>0. /\ session \in [Anytls!Sessions -> Records] /\ session' \in [Anytls!Sessions -> Records]
      /\ user \in [Users -> [pc : Pcs, s : Nat, sid : Nat]]
  BY DEF AnytlsInv, AnytlsType
<1>1. session'[s].life # "none" /\ session'[s].asked \subseteq session[s].asked
      /\ (session[s].life = "none" => \A i \in session'[s].dead : FALSE)
  BY DEF Anytls!NewSession
<1>2. ASSUME NEW v \in Users, user[v].pc \notin Without
      PROVE  /\ v # u /\ user'[v] = user[v] /\ user[v].s \in Anytls!Sessions
             /\ session'[user[v].s] = session[user[v].s]
  <2>1. v # u /\ user'[v] = user[v]
    BY <1>2
  <2>2. user[v].s \in Anytls!Sessions /\ session[user[v].s].life # "none"
    BY <1>2 DEF AnytlsInv, UserInv
  <2>3. session'[user[v].s] = session[user[v].s]
    BY <2>2
  <2> QED
    BY <2>1, <2>2, <2>3
<1>3. ASSUME NEW r \in Anytls!Sessions, NEW v \in Users
      PROVE  Holds(v, r)' <=> Holds(v, r) \/ (v = u /\ r = s)
  <2>1. CASE v = u
    BY <2>1 DEF Holds, Without
  <2>2. CASE v # u /\ user[v].pc \in Without
    <3>1. user'[v] = user[v]
      BY <2>2
    <3> QED
      BY <2>2, <3>1 DEF Holds, Without
  <2>3. CASE v # u /\ user[v].pc \notin Without
    BY <1>2, <2>3 DEF Holds
  <2> QED
    BY <2>1, <2>2, <2>3
<1>4. UserInv'
  <2> SUFFICES ASSUME NEW v \in Users, user'[v].pc \notin Without
               PROVE  /\ user'[v].s \in Anytls!Sessions /\ session'[user'[v].s].life # "none"
                      /\ user'[v].pc = "failed" => ~(session'[user'[v].s].life = "alive")
                      /\ user'[v].pc \notin {"open", "failed"} =>
                           user'[v].sid <= session'[user'[v].s].sid
                      /\ user'[v].pc \in {"syn", "register", "hook"} /\ session'[user'[v].s].life = "alive" /\ ~session'[user'[v].s].missed =>
                           user'[v].sid \notin session'[user'[v].s].dead
    BY DEF UserInv, Alive
  <2>1. CASE v = u
    BY <1>1, <2>1
  <2>2. CASE v # u
    <3>1. user[v].pc \notin Without
      BY <2>2
    <3> QED
      BY <1>2, <3>1 DEF AnytlsInv, UserInv, Alive
  <2> QED
    BY <2>1, <2>2
<1>5. \A r \in Anytls!Sessions : Pools(r)' <=> Pools(r)
  BY DEF Pools
<1>6. NoneInv'
  <2> SUFFICES ASSUME NEW r \in Anytls!Sessions
               PROVE  /\ session'[r].life = "none" =>
                           r \notin idle' /\ ~Pools(r)' /\ session'[r].asked = {}
                      /\ Alive(r)' => \A i \in session'[r].dead : i <= session'[r].sid
    BY DEF NoneInv, Alive
  <2>1. CASE session'[r] = session[r]
    BY <1>5, <2>1 DEF AnytlsInv, NoneInv, Alive
  <2>2. CASE r = s /\ session[s].life = "none"
    BY <1>1, <2>2
  <2> QED
    BY <2>1, <2>2
<1>7. HeldInv'
  BY <1>3, <1>5 DEF AnytlsInv, HeldInv
<1>8. AskedInv'
  <2> SUFFICES ASSUME NEW r \in Anytls!Sessions, NEW i \in session'[r].asked \ session'[r].dead
               PROVE  \E v \in Users : user'[v].s = r /\ user'[v].sid = i /\ user'[v].pc \in {"hook", "using"}
    BY DEF AskedInv
  <2>1. i \in session[r].asked \ session[r].dead
    <3>1. CASE session'[r] = session[r]
      BY <3>1
    <3>2. CASE r = s /\ session[s].life = "none"
      <4>1. session[s].asked = {}
        BY <3>2 DEF AnytlsInv, NoneInv
      <4> QED
        BY <1>1, <3>2, <4>1
    <3> QED
      BY <3>1, <3>2
  <2>2. PICK v \in Users : user[v].s = r /\ user[v].sid = i /\ user[v].pc \in {"hook", "using"}
    BY <2>1 DEF AnytlsInv, AskedInv
  <2>3. user'[v] = user[v]
    BY <1>2, <2>2 DEF Without
  <2> QED
    BY <2>2, <2>3
<1>9. OwnedInv'
  <2> SUFFICES ASSUME NEW r \in Anytls!Sessions, Alive(r)', ~session'[r].missed, r # s
               PROVE  (\E v \in Users : Holds(v, r)') \/ r \in idle' \cup toClose' \/ Pools(r)'
    BY <1>3 DEF OwnedInv
  <2>1. Alive(r)
    BY DEF Alive
  <2> QED
    BY <1>3, <1>5, <2>1 DEF AnytlsInv, OwnedInv
<1>10. CloseInv'
  <2>1. ASSUME closer' = "closing", NEW r \in Anytls!Sessions, Alive(r)', r \notin toClose'
        PROVE  /\ r \notin idle' /\ recv'[r].pc # "insert"
               /\ \A v \in Users : user'[v].s = r => user'[v].pc # "insert"
    <3>1. \A v \in Users : user'[v].pc = "insert" => user'[v] = user[v]
      BY DEF Without
    <3>2. CASE r # s
      <4>1. Alive(r)
        BY <2>1, <3>2 DEF Alive
      <4> QED
        BY <2>1, <3>1, <4>1 DEF AnytlsInv, CloseInv
    <3>3. CASE r = s
      <4>1. \A v \in Users : user[v].s = s => user[v].pc # "insert"
        BY DEF Holds
      <4>2. recv[s].pc # "insert"
        BY DEF Pools
      <4> QED
        BY <3>1, <3>3, <4>1, <4>2
    <3> QED
      BY <3>2, <3>3
  <2> QED
    BY <2>1 DEF AnytlsInv, CloseInv, Alive
<1> QED
  BY <1>4, <1>6, <1>7, <1>8, <1>9, <1>10 DEF AnytlsInv

(* The server ends a stream whose hook is set: recvLoop takes the session.  *)
LEMMA Takes ==
    ASSUME AnytlsInv, AnytlsType', UNCHANGED <<user, idle, toClose, closer, done>>,
           NEW s \in Anytls!Sessions, NEW i \in session[s].asked \ session[s].dead,
           ~Pools(s), recv'[s].pc = "pool", Anytls!HookIsSet(s, i),
           \A r \in Anytls!Sessions : r # s => session'[r] = session[r] /\ recv'[r] = recv[r],
           session'[s].life = session[s].life, session'[s].sid = session[s].sid,
           session'[s].dead = session[s].dead \cup {i}, session'[s].missed = session[s].missed,
           session'[s].asked \subseteq session[s].asked
    PROVE  AnytlsInv'
<1>0. /\ session \in [Anytls!Sessions -> Records] /\ session' \in [Anytls!Sessions -> Records]
      /\ user \in [Users -> [pc : Pcs, s : Nat, sid : Nat]]
  BY DEF AnytlsInv, AnytlsType
<1>1. PICK w \in Users : user[w].s = s /\ user[w].sid = i /\ user[w].pc = "using"
  BY DEF AnytlsInv, AskedInv, Anytls!HookIsSet
<1>2. Holds(w, s)
  BY <1>1 DEF Holds
<1>3. s \notin idle /\ \A v \in Users : Holds(v, s) => v = w
  BY <1>2 DEF AnytlsInv, HeldInv
<1>4. session[s].life # "none" /\ i <= session[s].sid
  BY <1>1 DEF AnytlsInv, UserInv, Without
<1>5. ASSUME NEW r \in Anytls!Sessions, NEW v \in Users, Holds(v, r)'
      PROVE  Holds(v, r) /\ r # s
  <2>1. CASE r = s
    <3>1. Holds(v, s)
      BY <1>5, <2>1 DEF Holds
    <3>2. v = w
      BY <1>3, <3>1
    <3>3. ~Holds(w, s)'
      BY <1>1 DEF Holds
    <3> QED
      BY <1>5, <2>1, <3>2, <3>3
  <2>2. CASE r # s
    BY <1>5, <2>2 DEF Holds
  <2> QED
    BY <2>1, <2>2
<1>6. UserInv'
  <2> SUFFICES ASSUME NEW v \in Users, user[v].pc \notin Without
               PROVE  /\ user[v].s \in Anytls!Sessions /\ session'[user[v].s].life # "none"
                      /\ user[v].pc = "failed" => ~(session'[user[v].s].life = "alive")
                      /\ user[v].pc \notin {"open", "failed"} =>
                           user[v].sid <= session'[user[v].s].sid
                      /\ user[v].pc \in {"syn", "register", "hook"} /\ session'[user[v].s].life = "alive" /\ ~session'[user[v].s].missed =>
                           user[v].sid \notin session'[user[v].s].dead
    BY DEF UserInv, Alive
  <2>1. /\ user[v].s \in Anytls!Sessions /\ session[user[v].s].life # "none"
        /\ user[v].pc = "failed" => ~(session[user[v].s].life = "alive")
        /\ user[v].pc \notin {"open", "failed"} => user[v].sid <= session[user[v].s].sid
        /\ user[v].pc \in {"syn", "register", "hook"} /\ session[user[v].s].life = "alive" /\ ~session[user[v].s].missed =>
             user[v].sid \notin session[user[v].s].dead
    BY DEF AnytlsInv, UserInv, Alive
  <2>2. CASE user[v].s # s
    <3>1. session'[user[v].s] = session[user[v].s]
      BY <2>1, <2>2
    <3> QED
      BY <2>1, <3>1
  <2>3. CASE user[v].s = s
    <3>1. user[v].pc \notin {"syn", "register", "hook"}
      BY <1>1, <1>3, <2>3 DEF Holds
    <3> QED
      BY <2>1, <2>3, <3>1
  <2> QED
    BY <2>2, <2>3
<1>7. NoneInv'
  <2> SUFFICES ASSUME NEW r \in Anytls!Sessions
               PROVE  /\ session'[r].life = "none" =>
                           r \notin idle' /\ ~Pools(r)' /\ session'[r].asked = {}
                      /\ Alive(r)' => \A k \in session'[r].dead : k <= session'[r].sid
    BY DEF NoneInv, Alive
  <2>1. CASE r # s
    BY <2>1 DEF AnytlsInv, NoneInv, Alive, Pools
  <2>2. CASE r = s
    BY <1>4, <2>2 DEF AnytlsInv, NoneInv, Alive
  <2> QED
    BY <2>1, <2>2
<1>8. HeldInv'
  <2>1. \A r \in Anytls!Sessions : r # s => (Pools(r)' <=> Pools(r))
    BY DEF Pools
  <2> QED
    BY <1>3, <1>5, <2>1 DEF AnytlsInv, HeldInv
<1>9. AskedInv'
  <2> SUFFICES ASSUME NEW r \in Anytls!Sessions, NEW k \in session'[r].asked \ session'[r].dead
               PROVE  \E v \in Users : user'[v].s = r /\ user'[v].sid = k /\ user'[v].pc \in {"hook", "using"}
    BY DEF AskedInv
  <2>1. k \in session[r].asked \ session[r].dead
    OBVIOUS
  <2> QED
    BY <2>1 DEF AnytlsInv, AskedInv
<1>10. OwnedInv'
  <2> SUFFICES ASSUME NEW r \in Anytls!Sessions, Alive(r)', ~session'[r].missed
               PROVE  (\E v \in Users : Holds(v, r)') \/ r \in idle' \cup toClose' \/ Pools(r)'
    BY DEF OwnedInv
  <2>1. CASE r = s
    BY <2>1 DEF Pools
  <2>2. CASE r # s
    <3>1. Alive(r) /\ session'[r] = session[r] /\ recv'[r] = recv[r]
      BY <2>2 DEF Alive
    <3>2. \A v \in Users : Holds(v, r) => Holds(v, r)'
      BY <3>1 DEF Holds
    <3> QED
      BY <3>1, <3>2 DEF AnytlsInv, OwnedInv, Pools
  <2> QED
    BY <2>1, <2>2
<1>11. CloseInv'
  <2>1. ASSUME closer' = "closing", NEW r \in Anytls!Sessions, Alive(r)', r \notin toClose'
        PROVE  /\ r \notin idle' /\ recv'[r].pc # "insert"
               /\ \A v \in Users : user'[v].s = r => user'[v].pc # "insert"
    <3>1. Alive(r)
      BY <2>1 DEF Alive
    <3> QED
      BY <2>1, <3>1 DEF AnytlsInv, CloseInv
  <2> QED
    BY <2>1 DEF AnytlsInv, CloseInv, Alive
<1> QED
  BY <1>6, <1>7, <1>8, <1>9, <1>10, <1>11 DEF AnytlsInv

(* The server ends a stream whose hook is not set: its owner goes on        *)
(* holding the session, which is missed from now on.                        *)
LEMMA Misses ==
    ASSUME AnytlsInv, AnytlsType', UNCHANGED <<user, idle, toClose, closer, done>>,
           NEW s \in Anytls!Sessions, NEW i \in session[s].asked, ~Anytls!HookIsSet(s, i),
           ~Pools(s), recv'[s].pc \in {"read", "fin"}, session'[s].missed,
           \A r \in Anytls!Sessions : r # s => session'[r] = session[r] /\ recv'[r] = recv[r],
           session'[s].life = session[s].life, session'[s].sid = session[s].sid,
           session'[s].dead = session[s].dead \cup {i},
           session'[s].asked \subseteq session[s].asked
    PROVE  AnytlsInv'
<1>0. /\ session \in [Anytls!Sessions -> Records] /\ session' \in [Anytls!Sessions -> Records]
      /\ user \in [Users -> [pc : Pcs, s : Nat, sid : Nat]]
  BY DEF AnytlsInv, AnytlsType
<1>1. PICK w \in Users : user[w].s = s /\ user[w].sid = i /\ user[w].pc = "hook"
  BY DEF Anytls!HookIsSet
<1>2. session[s].life # "none" /\ i <= session[s].sid
  BY <1>1 DEF AnytlsInv, UserInv, Without
<1>3. \A r \in Anytls!Sessions : Pools(r)' <=> Pools(r)
  BY DEF Pools
<1>4. \A r \in Anytls!Sessions, v \in Users : Holds(v, r)' => Holds(v, r)
  BY DEF Holds
<1>5. UserInv'
  <2> SUFFICES ASSUME NEW v \in Users, user[v].pc \notin Without
               PROVE  /\ user[v].s \in Anytls!Sessions /\ session'[user[v].s].life # "none"
                      /\ user[v].pc = "failed" => ~(session'[user[v].s].life = "alive")
                      /\ user[v].pc \notin {"open", "failed"} =>
                           user[v].sid <= session'[user[v].s].sid
                      /\ user[v].pc \in {"syn", "register", "hook"} /\ session'[user[v].s].life = "alive"
                         /\ ~session'[user[v].s].missed => user[v].sid \notin session'[user[v].s].dead
    BY DEF UserInv, Alive
  <2>1. /\ user[v].s \in Anytls!Sessions /\ session[user[v].s].life # "none"
        /\ user[v].pc = "failed" => ~(session[user[v].s].life = "alive")
        /\ user[v].pc \notin {"open", "failed"} => user[v].sid <= session[user[v].s].sid
        /\ user[v].pc \in {"syn", "register", "hook"} /\ session[user[v].s].life = "alive"
           /\ ~session[user[v].s].missed => user[v].sid \notin session[user[v].s].dead
    BY DEF AnytlsInv, UserInv, Alive
  <2>2. CASE user[v].s # s
    <3>1. session'[user[v].s] = session[user[v].s]
      BY <2>1, <2>2
    <3> QED
      BY <2>1, <3>1
  <2>3. CASE user[v].s = s
    BY <2>1, <2>3
  <2> QED
    BY <2>2, <2>3
<1>6. NoneInv'
  <2> SUFFICES ASSUME NEW r \in Anytls!Sessions
               PROVE  /\ session'[r].life = "none" =>
                           r \notin idle' /\ ~Pools(r)' /\ session'[r].asked = {}
                      /\ Alive(r)' => \A k \in session'[r].dead : k <= session'[r].sid
    BY DEF NoneInv, Alive
  <2>1. CASE r # s
    BY <1>3, <2>1 DEF AnytlsInv, NoneInv, Alive
  <2>2. CASE r = s
    BY <1>2, <2>2 DEF AnytlsInv, NoneInv, Alive
  <2> QED
    BY <2>1, <2>2
<1>7. HeldInv'
  BY <1>3, <1>4 DEF AnytlsInv, HeldInv
<1>8. AskedInv'
  <2> SUFFICES ASSUME NEW r \in Anytls!Sessions, NEW k \in session'[r].asked \ session'[r].dead
               PROVE  \E v \in Users : user'[v].s = r /\ user'[v].sid = k /\ user'[v].pc \in {"hook", "using"}
    BY DEF AskedInv
  <2>1. k \in session[r].asked \ session[r].dead
    OBVIOUS
  <2> QED
    BY <2>1 DEF AnytlsInv, AskedInv
<1>9. OwnedInv'
  <2> SUFFICES ASSUME NEW r \in Anytls!Sessions, Alive(r)', ~session'[r].missed
               PROVE  (\E v \in Users : Holds(v, r)') \/ r \in idle' \cup toClose' \/ Pools(r)'
    BY DEF OwnedInv
  <2>1. Alive(r) /\ session'[r] = session[r]
    BY DEF Alive
  <2>2. \A v \in Users : Holds(v, r) => Holds(v, r)'
    BY <2>1 DEF Holds
  <2> QED
    BY <1>3, <2>1, <2>2 DEF AnytlsInv, OwnedInv
<1>10. CloseInv'
  <2>1. ASSUME closer' = "closing", NEW r \in Anytls!Sessions, Alive(r)', r \notin toClose'
        PROVE  /\ r \notin idle' /\ recv'[r].pc # "insert"
               /\ \A v \in Users : user'[v].s = r => user'[v].pc # "insert"
    <3>1. Alive(r)
      BY <2>1 DEF Alive
    <3> QED
      BY <2>1, <3>1 DEF AnytlsInv, CloseInv
  <2> QED
    BY <2>1 DEF AnytlsInv, CloseInv, Alive
<1> QED
  BY <1>5, <1>6, <1>7, <1>8, <1>9, <1>10 DEF AnytlsInv

(* Who has a session in hand puts it back: nobody has it then.              *)
LEMMA PutsBack ==
    ASSUME AnytlsInv, AnytlsType', UNCHANGED <<session, toClose, closer, done>>,
           NEW s \in Anytls!Sessions, idle' = idle \cup {s},
           \/ \E u \in Users : /\ user[u].s = s /\ user[u].pc = "insert"
                               /\ user'[u].s = s /\ user'[u].sid = user[u].sid /\ user'[u].pc = "fin"
                               /\ \A v \in Users : v # u => user'[v] = user[v]
                               /\ recv' = recv
           \/ /\ recv[s].pc = "insert" /\ recv'[s].pc = "fin" /\ user' = user
              /\ \A r \in Anytls!Sessions : r # s => recv'[r] = recv[r]
    PROVE  AnytlsInv'
<1>0. /\ session \in [Anytls!Sessions -> Records]
      /\ user \in [Users -> [pc : Pcs, s : Nat, sid : Nat]]
  BY DEF AnytlsInv, AnytlsType
<1>1. ASSUME NEW v \in Users
      PROVE  /\ user'[v].s = user[v].s /\ user'[v].sid = user[v].sid
             /\ \/ user'[v] = user[v]
                \/ user[v].s = s /\ user[v].pc = "insert" /\ user'[v].pc = "fin"
  OBVIOUS
<1>2. ASSUME NEW r \in Anytls!Sessions
      PROVE  recv'[r] = recv[r] \/ (r = s /\ recv[r].pc = "insert" /\ recv'[r].pc = "fin")
  OBVIOUS
<1>3. ASSUME NEW r \in Anytls!Sessions, NEW v \in Users
      PROVE  Holds(v, r)' => Holds(v, r)
  BY <1>1 DEF Holds
<1>4. \A r \in Anytls!Sessions : Pools(r)' => Pools(r)
  BY <1>2 DEF Pools
<1>5. ~Pools(s)' /\ \A v \in Users : ~Holds(v, s)'
  <2>1. CASE \E u \in Users : /\ user[u].s = s /\ user[u].pc = "insert"
                               /\ user'[u].s = s /\ user'[u].sid = user[u].sid /\ user'[u].pc = "fin"
                               /\ \A v \in Users : v # u => user'[v] = user[v]
                               /\ recv' = recv
    <3>1. PICK u \in Users : user[u].s = s /\ user[u].pc = "insert" /\ user'[u].pc = "fin"
      BY <2>1
    <3>2. Holds(u, s) /\ ~Holds(u, s)'
      BY <3>1 DEF Holds
    <3> QED
      BY <1>3, <1>4, <3>2 DEF AnytlsInv, HeldInv
  <2>2. CASE recv[s].pc = "insert" /\ recv'[s].pc = "fin"
    <3>1. Pools(s) /\ ~Pools(s)'
      BY <2>2 DEF Pools
    <3> QED
      BY <1>3, <3>1 DEF AnytlsInv, HeldInv
  <2> QED
    BY <2>1, <2>2
<1>6. session[s].life # "none"
  <2>1. CASE \E u \in Users : user[u].s = s /\ user[u].pc = "insert"
    BY <2>1 DEF AnytlsInv, UserInv, Without
  <2>2. CASE recv[s].pc = "insert"
    BY <2>2 DEF AnytlsInv, NoneInv, Pools
  <2> QED
    BY <2>1, <2>2
<1>7. UserInv'
  <2> SUFFICES ASSUME NEW v \in Users, user'[v].pc \notin Without
               PROVE  /\ user'[v].s \in Anytls!Sessions /\ session[user'[v].s].life # "none"
                      /\ user'[v].pc = "failed" => ~(session[user'[v].s].life = "alive")
                      /\ user'[v].pc \notin {"open", "failed"} =>
                           user'[v].sid <= session[user'[v].s].sid
                      /\ user'[v].pc \in {"syn", "register", "hook"} /\ session[user'[v].s].life = "alive" /\ ~session[user'[v].s].missed =>
                           user'[v].sid \notin session[user'[v].s].dead
    BY DEF UserInv, Alive
  <2>1. user[v].pc \notin Without
    BY <1>1 DEF Without
  <2> QED
    BY <1>1, <2>1 DEF AnytlsInv, UserInv, Alive
<1>8. NoneInv'
  <2>1. \A r \in Anytls!Sessions : r \in idle' => r \in idle \/ r = s
    OBVIOUS
  <2> QED
    BY <1>4, <1>6, <2>1 DEF AnytlsInv, NoneInv, Alive
<1>9. HeldInv'
  <2>1. \A r \in Anytls!Sessions : r \in idle' => r \in idle \/ r = s
    OBVIOUS
  <2> QED
    BY <1>3, <1>4, <1>5, <2>1 DEF AnytlsInv, HeldInv
<1>10. AskedInv'
  <2> SUFFICES ASSUME NEW r \in Anytls!Sessions, NEW k \in session[r].asked \ session[r].dead
               PROVE  \E v \in Users : user'[v].s = r /\ user'[v].sid = k /\ user'[v].pc \in {"hook", "using"}
    BY DEF AskedInv
  <2>1. PICK v \in Users : user[v].s = r /\ user[v].sid = k /\ user[v].pc \in {"hook", "using"}
    BY DEF AnytlsInv, AskedInv
  <2> QED
    BY <1>1, <2>1
<1>11. OwnedInv'
  <2> SUFFICES ASSUME NEW r \in Anytls!Sessions, Alive(r), ~session[r].missed, r # s
               PROVE  (\E v \in Users : Holds(v, r)') \/ r \in idle' \cup toClose' \/ Pools(r)'
    BY DEF OwnedInv, Alive
  <2>1. ASSUME NEW v \in Users, Holds(v, r) PROVE Holds(v, r)'
    <3>1. user[v].s # s
      BY <2>1 DEF Holds
    <3>2. user'[v] = user[v]
      BY <1>1, <3>1
    <3> QED
      BY <2>1, <3>2 DEF Holds
  <2>2. Pools(r) => Pools(r)'
    BY <1>2 DEF Pools
  <2> QED
    BY <2>1, <2>2 DEF AnytlsInv, OwnedInv
<1>12. CloseInv'
  <2>1. ASSUME closer = "closing", NEW r \in Anytls!Sessions, Alive(r), r \notin toClose
        PROVE  /\ r \notin idle' /\ recv'[r].pc # "insert"
               /\ \A v \in Users : user'[v].s = r => user'[v].pc # "insert"
    <3>1. /\ r \notin idle /\ recv[r].pc # "insert"
          /\ \A v \in Users : user[v].s = r => user[v].pc # "insert"
      BY <2>1 DEF AnytlsInv, CloseInv
    <3>2. r # s
      BY <3>1
    <3> QED
      BY <1>1, <1>2, <3>1, <3>2
  <2> QED
    BY <2>1 DEF AnytlsInv, CloseInv, Alive
<1> QED
  BY <1>7, <1>8, <1>9, <1>10, <1>11, <1>12 DEF AnytlsInv

(* The newest idle session is one of them.                                  *)
LEMMA NewestIsIdle ==
    ASSUME NEW S, S \subseteq Anytls!Sessions, S # {}
    PROVE  Anytls!Max(S) \in S
<1> DEFINE T == {MaxSessions - x : x \in S}
<1>1. S \subseteq Int /\ \A x \in S : MaxSessions - x \in Nat
  BY SessionsAssumption DEF Anytls!Sessions
<1>2. T \subseteq Nat /\ T # {}
  BY <1>1
<1> HIDE DEF T
<1>3. PICK m \in T : \A y \in T : <<y, m>> \notin OpToRel(<, Nat)
  BY <1>2, NatLessThanWellFounded, WFMin, Zenon
<1>4. \A y \in T : <<y, m>> \in Nat \X Nat
  BY <1>2
<1>5. \A y \in T : ~(y < m)
  BY <1>3, <1>4, Zenon DEF OpToRel
<1>6. PICK x \in S : m = MaxSessions - x
  BY DEF T
<1>7. \A y \in S : x >= y
  <2> SUFFICES ASSUME NEW y \in S PROVE x >= y
    OBVIOUS
  <2>1. ~(MaxSessions - y < m)
    BY <1>5 DEF T
  <2> QED
    BY <1>1, <1>6, <2>1, SessionsAssumption
<1> QED
  BY <1>7 DEF Anytls!Max

(* Pointwise, what the steps do to the records.                             *)
LEMMA UserGoes ==
    ASSUME AnytlsType, NEW u \in Users, NEW pc \in Pcs, Anytls!Go(u, pc)
    PROVE  /\ user' \in [Users -> [pc : Pcs, s : Nat, sid : Nat]]
           /\ user'[u].pc = pc /\ user'[u].s = user[u].s /\ user'[u].sid = user[u].sid
           /\ \A v \in Users : v # u => user'[v] = user[v]
<1>1. user \in [Users -> [pc : Pcs, s : Nat, sid : Nat]]
  BY DEF AnytlsType
<1>2. user' = [user EXCEPT ![u] = [user[u] EXCEPT !.pc = pc]]
  BY <1>1, Zenon DEF Anytls!Go
<1>3. user[u] \in [pc : Pcs, s : Nat, sid : Nat]
  BY <1>1
<1>4. [user[u] EXCEPT !.pc = pc] \in [pc : Pcs, s : Nat, sid : Nat]
  BY <1>3, Zenon
<1>5. user' \in [Users -> [pc : Pcs, s : Nat, sid : Nat]]
  BY <1>1, <1>2, <1>4, Zenon
<1>6. user'[u] = [user[u] EXCEPT !.pc = pc] /\ \A v \in Users : v # u => user'[v] = user[v]
  BY <1>1, <1>2, Zenon
<1>7. user'[u].pc = pc /\ user'[u].s = user[u].s /\ user'[u].sid = user[u].sid
  BY <1>3, <1>6
<1> QED
  BY <1>5, <1>6, <1>7

LEMMA UserRests ==
    ASSUME AnytlsType, NEW u \in Users, Anytls!Rest(u)
    PROVE  /\ user' \in [Users -> [pc : Pcs, s : Nat, sid : Nat]]
           /\ user'[u].pc \in Without
           /\ \A v \in Users : v # u => user'[v] = user[v]
BY DEF AnytlsType, Anytls!Rest, Anytls!NoSession, Pcs, Without

LEMMA SessionIs ==
    ASSUME AnytlsType, NEW s \in Anytls!Sessions, NEW r \in Records,
           session' = [session EXCEPT ![s] = r]
    PROVE  /\ session' \in [Anytls!Sessions -> Records] /\ session'[s] = r
           /\ \A x \in Anytls!Sessions : x # s => session'[x] = session[x]
BY Zenon DEF AnytlsType

(* Session.Close, as far as it is atomic: die is closed.                    *)
LEMMA SessionDies ==
    ASSUME AnytlsType, NEW s \in Anytls!Sessions
    PROVE  /\ Anytls!Died(s) \in [Anytls!Sessions -> Records]
           /\ \A x \in Anytls!Sessions : x # s => Anytls!Died(s)[x] = session[x]
           /\ Anytls!Died(s)[s].life # "alive"
           /\ Anytls!Died(s)[s].life = "none" <=> session[s].life = "none"
           /\ Anytls!Died(s)[s].sid = session[s].sid /\ Anytls!Died(s)[s].dead = session[s].dead
           /\ Anytls!Died(s)[s].asked = session[s].asked
<1> DEFINE l == IF session[s].life = "alive" THEN "hook" ELSE session[s].life
           d == Anytls!Died(s)
<1>1. session \in [Anytls!Sessions -> Records] /\ session[s] \in Records
  BY DEF AnytlsType
<1>2. l \in Lives /\ l # "alive" /\ (l = "none" <=> session[s].life = "none")
  BY <1>1 DEF Records, Lives
<1>3. d = [session EXCEPT ![s] = [session[s] EXCEPT !.life = l]]
  BY <1>1, Zenon DEF Anytls!Died
<1> HIDE DEF l, d
<1>4. [session[s] EXCEPT !.life = l] \in Records
  BY <1>1, <1>2, Zenon DEF Records
<1>5. d \in [Anytls!Sessions -> Records]
  BY <1>1, <1>3, <1>4, Zenon
<1>6. d[s] = [session[s] EXCEPT !.life = l] /\ \A x \in Anytls!Sessions : x # s => d[x] = session[x]
  BY <1>1, <1>3, Zenon
<1>7. d[s].life = l /\ d[s].sid = session[s].sid /\ d[s].dead = session[s].dead
      /\ d[s].asked = session[s].asked
  BY <1>1, <1>6 DEF Records
<1> QED
  BY <1>2, <1>5, <1>6, <1>7 DEF d

LEMMA SessionForgets ==
    ASSUME NEW ss \in [Anytls!Sessions -> Records], NEW s \in Anytls!Sessions, NEW i
    PROVE  /\ Anytls!Forget(ss, s, i) \in [Anytls!Sessions -> Records]
           /\ \A x \in Anytls!Sessions : x # s => Anytls!Forget(ss, s, i)[x] = ss[x]
           /\ Anytls!Forget(ss, s, i)[s].life = ss[s].life
           /\ Anytls!Forget(ss, s, i)[s].sid = ss[s].sid
           /\ Anytls!Forget(ss, s, i)[s].dead = ss[s].dead
           /\ Anytls!Forget(ss, s, i)[s].missed = ss[s].missed
           /\ Anytls!Forget(ss, s, i)[s].asked \subseteq ss[s].asked
<1> DEFINE r == [ss[s] EXCEPT !.streams = ss[s].streams \ {i}, !.asked = ss[s].asked \ {i}]
           d == Anytls!Forget(ss, s, i)
<1>1. ss[s] \in Records
  OBVIOUS
<1>2. d = [ss EXCEPT ![s] = r]
  BY Zenon DEF Anytls!Forget
<1>3. ss[s].streams \ {i} \in SUBSET Nat /\ ss[s].asked \ {i} \in SUBSET Nat
  BY <1>1 DEF Records
<1>4. r \in Records
  BY <1>1, <1>3, Zenon DEF Records
<1>5. r.life = ss[s].life /\ r.sid = ss[s].sid /\ r.dead = ss[s].dead /\ r.missed = ss[s].missed
      /\ r.asked = ss[s].asked \ {i}
  BY <1>1 DEF Records
<1> HIDE DEF r, d
<1>6. d \in [Anytls!Sessions -> Records]
  BY <1>2, <1>4, Zenon
<1>7. d[s] = r /\ \A x \in Anytls!Sessions : x # s => d[x] = ss[x]
  BY <1>2, Zenon
<1> QED
  BY <1>5, <1>6, <1>7 DEF d

LEMMA RecvIs ==
    ASSUME AnytlsType, NEW s \in Anytls!Sessions,
           NEW r \in [pc : {"read", "pool", "insert", "fin"}, sid : Nat, fin : BOOLEAN],
           recv' = [recv EXCEPT ![s] = r]
    PROVE  /\ recv' \in [Anytls!Sessions ->
                           [pc : {"read", "pool", "insert", "fin"}, sid : Nat, fin : BOOLEAN]]
           /\ recv'[s] = r
           /\ \A x \in Anytls!Sessions : x # s => recv'[x] = recv[x]
BY Zenon DEF AnytlsType

LEMMA RecvGoes ==
    ASSUME AnytlsType, NEW s \in Anytls!Sessions, NEW pc \in {"read", "pool", "insert", "fin"},
           recv' = [recv EXCEPT ![s].pc = pc]
    PROVE  /\ recv' \in [Anytls!Sessions ->
                           [pc : {"read", "pool", "insert", "fin"}, sid : Nat, fin : BOOLEAN]]
           /\ recv'[s].pc = pc
           /\ \A x \in Anytls!Sessions : x # s => recv'[x] = recv[x]
<1> DEFINE r == [recv[s] EXCEPT !.pc = pc]
<1>1. recv \in [Anytls!Sessions ->
                  [pc : {"read", "pool", "insert", "fin"}, sid : Nat, fin : BOOLEAN]]
  BY DEF AnytlsType
<1>2. recv' = [recv EXCEPT ![s] = r]
  BY <1>1, Zenon
<1>3. r \in [pc : {"read", "pool", "insert", "fin"}, sid : Nat, fin : BOOLEAN]
  BY <1>1, Zenon
<1>4. r.pc = pc
  BY <1>1
<1> HIDE DEF r
<1> QED
  BY <1>2, <1>3, <1>4, RecvIs

LEMMA AnytlsInit == Anytls!Init => AnytlsInv
<1> SUFFICES ASSUME Anytls!Init PROVE AnytlsInv
  OBVIOUS
<1>1. /\ done = FALSE /\ toClose = {} /\ closer = "no" /\ idle = {}
      /\ session = [s \in Anytls!Sessions |-> Anytls!NewSession("none")]
      /\ user = [u \in Users |-> [pc |-> "idle", s |-> 0, sid |-> 0]]
      /\ recv = [s \in Anytls!Sessions |-> [pc |-> "read", sid |-> 0, fin |-> FALSE]]
  BY DEF Anytls!Init, Anytls!NoSession
<1>2. Anytls!NewSession("none") \in Records
  BY DEF Anytls!NewSession, Records, Lives
<1>3. session \in [Anytls!Sessions -> Records]
  BY <1>1, <1>2
<1>4. user \in [Users -> [pc : Pcs, s : Nat, sid : Nat]]
  BY <1>1 DEF Pcs
<1>5. recv \in [Anytls!Sessions ->
                  [pc : {"read", "pool", "insert", "fin"}, sid : Nat, fin : BOOLEAN]]
  BY <1>1
<1>6. AnytlsType
  BY <1>1, <1>3, <1>4, <1>5 DEF AnytlsType
<1>7. \A s \in Anytls!Sessions :
        /\ session[s].life = "none" /\ session[s].asked = {} /\ ~Pools(s)
        /\ \A u \in Users : ~Holds(u, s)
  BY <1>1 DEF Anytls!NewSession, Pools, Holds
<1>8. UserInv
  BY <1>1 DEF UserInv, Without
<1> QED
  BY <1>1, <1>6, <1>7, <1>8
     DEF AnytlsInv, NoneInv, HeldInv, AskedInv, OwnedInv, CloseInv, Alive

LEMMA SessionStays ==
    ASSUME NEW s \in Anytls!Sessions, session'[s] = session[s],
           session[s].life = "alive" =>
               (s \in idle => s \in idle' \cup toClose') /\ (s \in toClose => s \in toClose')
    PROVE  SessionLets(s)
BY DEF SessionLets

LEMMA SessionEnds ==
    ASSUME AnytlsInv, NEW s \in Anytls!Sessions, session' = Anytls!Died(s), idle' = idle,
           \A r \in Anytls!Sessions : r # s /\ r \in toClose => r \in toClose'
    PROVE  /\ session' \in [Anytls!Sessions -> Records] /\ session'[s].life # "alive"
           /\ \A r \in Anytls!Sessions : SessionLets(r)
<1>1. /\ Anytls!Died(s) \in [Anytls!Sessions -> Records]
      /\ \A x \in Anytls!Sessions : x # s => Anytls!Died(s)[x] = session[x]
      /\ Anytls!Died(s)[s].life # "alive"
      /\ Anytls!Died(s)[s].life = "none" <=> session[s].life = "none"
      /\ Anytls!Died(s)[s].sid = session[s].sid /\ Anytls!Died(s)[s].dead = session[s].dead
      /\ Anytls!Died(s)[s].asked = session[s].asked
  BY SessionDies DEF AnytlsInv
<1> QED
  BY <1>1 DEF SessionLets

(* streamClosed, with or without the error that closes the session.         *)
LEMMA SessionLosesStream ==
    ASSUME AnytlsInv, NEW s \in Anytls!Sessions, NEW i, Anytls!ForgetOrDie(s, i),
           idle' = idle, toClose' = toClose
    PROVE  /\ session' \in [Anytls!Sessions -> Records]
           /\ \A r \in Anytls!Sessions : SessionLets(r)
<1>0. session \in [Anytls!Sessions -> Records]
  BY DEF AnytlsInv, AnytlsType
<1>1. CASE session' = session
  BY <1>0, <1>1 DEF SessionLets
<1>2. CASE session' = Anytls!Forget(session, s, i)
  <2>1. /\ session' \in [Anytls!Sessions -> Records]
        /\ \A x \in Anytls!Sessions : x # s => session'[x] = session[x]
        /\ session'[s].life = session[s].life /\ session'[s].sid = session[s].sid
        /\ session'[s].dead = session[s].dead /\ session'[s].asked \subseteq session[s].asked
        /\ session'[s].missed = session[s].missed
    BY <1>0, <1>2, SessionForgets
  <2> QED
    BY <2>1 DEF SessionLets
<1>3. CASE session' = Anytls!Forget(Anytls!Died(s), s, i)
  <2> DEFINE d == Anytls!Died(s)
  <2>1. /\ d \in [Anytls!Sessions -> Records]
        /\ \A x \in Anytls!Sessions : x # s => d[x] = session[x]
        /\ d[s].life # "alive" /\ (d[s].life = "none" <=> session[s].life = "none")
        /\ d[s].sid = session[s].sid /\ d[s].dead = session[s].dead
        /\ d[s].asked = session[s].asked
    BY SessionDies DEF AnytlsInv
  <2> HIDE DEF d
  <2>2. /\ session' \in [Anytls!Sessions -> Records]
        /\ \A x \in Anytls!Sessions : x # s => session'[x] = d[x]
        /\ session'[s].life = d[s].life /\ session'[s].sid = d[s].sid
        /\ session'[s].dead = d[s].dead /\ session'[s].asked \subseteq d[s].asked
    BY <1>3, <2>1, SessionForgets DEF d
  <2> QED
    BY <2>1, <2>2 DEF SessionLets
<1> QED
  BY <1>1, <1>2, <1>3 DEF Anytls!ForgetOrDie

(* The steps of a user that leave its session, or have none.                *)
LEMMA UserLeaves ==
    ASSUME AnytlsInv, NEW u \in Users,
           \/ Anytls!CreateStream(u)
           \/ Anytls!GetIdleSession(u) /\ idle = {}
           \/ Anytls!CreateSession(u) /\ Anytls!Rest(u) /\ session' = session
           \/ Anytls!OpenStream(u) /\ Anytls!IsClosed(user[u].s)
           \/ Anytls!WriteSyn(u) /\ session' = Anytls!Died(user[u].s) /\ Anytls!Go(u, "failed")
           \/ Anytls!Register(u) /\ Anytls!IsClosed(user[u].s)
           \/ Anytls!CreateFails(u)
           \/ Anytls!CloseStream(u) /\ user[u].sid \in session[user[u].s].dead
           \/ Anytls!Pool(u) /\ Anytls!Decide(user[u].s) = "fin"
           \/ Anytls!StreamClosed(u)
    PROVE  AnytlsInv'
<1> DEFINE s == user[u].s
<1>0. AnytlsType /\ (closer # "no" => done)
      /\ (user[u].pc \notin Without =>
            s \in Anytls!Sessions /\ (user[u].pc = "failed" => session[s].life # "alive"))
      /\ toClose \subseteq Anytls!Sessions
  BY DEF AnytlsInv, AnytlsType, CloseInv, UserInv, Alive
<1>a. "get" \in Pcs /\ "dial" \in Pcs /\ "failed" \in Pcs /\ "fin" \in Pcs
  BY DEF Pcs
<1>1. ASSUME session' = session, UNCHANGED <<idle, recv, closer, done>>, AnytlsType',
             toClose \subseteq toClose', UserLets(u), \A v \in Users : v # u => user'[v] = user[v]
      PROVE  AnytlsInv'
  <2>1. \A r \in Anytls!Sessions : SessionLets(r) /\ RecvLets(r)
    BY <1>1 DEF SessionLets, RecvLets
  <2>2. \A v \in Users : UserLets(v)
    BY <1>1 DEF UserLets
  <2> QED
    BY <1>0, <1>1, <2>1, <2>2, Releases
<1>2. ASSUME session' \in [Anytls!Sessions -> Records], \A r \in Anytls!Sessions : SessionLets(r),
             UNCHANGED <<idle, recv, toClose, closer, done>>,
             user' \in [Users -> [pc : Pcs, s : Nat, sid : Nat]],
             UserLets(u), \A v \in Users : v # u => user'[v] = user[v]
      PROVE  AnytlsInv'
  <2>1. \A r \in Anytls!Sessions : SessionLets(r) /\ RecvLets(r)
    BY <1>2 DEF RecvLets
  <2>2. \A v \in Users : UserLets(v)
    BY <1>2 DEF UserLets
  <2>3. AnytlsType'
    BY <1>0, <1>2 DEF AnytlsType
  <2> QED
    BY <1>0, <1>2, <2>1, <2>2, <2>3, Releases
<1>3. CASE Anytls!CreateStream(u)
  <2>1. /\ user[u].pc = "idle" /\ Anytls!Go(u, "get")
        /\ UNCHANGED <<done, toClose, closer, idle, session, recv>>
    BY <1>3 DEF Anytls!CreateStream
  <2>2. /\ user' \in [Users -> [pc : Pcs, s : Nat, sid : Nat]] /\ user'[u].pc = "get"
        /\ \A v \in Users : v # u => user'[v] = user[v]
    BY <1>0, <1>a, <2>1, UserGoes
  <2>3. AnytlsType'
    BY <1>0, <2>1, <2>2 DEF AnytlsType
  <2>4. UserLets(u)
    BY <2>1, <2>2 DEF UserLets, Without
  <2> QED
    BY <1>1, <2>1, <2>2, <2>3, <2>4
<1>4. CASE Anytls!GetIdleSession(u) /\ idle = {}
  <2>1. /\ user[u].pc = "get" /\ Anytls!Go(u, "dial")
        /\ UNCHANGED <<done, toClose, closer, idle, session, recv>>
    BY <1>4 DEF Anytls!GetIdleSession
  <2>2. /\ user' \in [Users -> [pc : Pcs, s : Nat, sid : Nat]] /\ user'[u].pc = "dial"
        /\ \A v \in Users : v # u => user'[v] = user[v]
    BY <1>0, <1>a, <2>1, UserGoes
  <2>3. AnytlsType'
    BY <1>0, <2>1, <2>2 DEF AnytlsType
  <2>4. UserLets(u)
    BY <2>1, <2>2 DEF UserLets, Without
  <2> QED
    BY <1>1, <2>1, <2>2, <2>3, <2>4
<1>5. CASE Anytls!CreateSession(u) /\ Anytls!Rest(u) /\ session' = session
  <2>1. /\ user[u].pc = "dial" /\ Anytls!Rest(u)
        /\ UNCHANGED <<done, toClose, closer, idle, session, recv>>
    BY <1>5 DEF Anytls!CreateSession
  <2>2. /\ user' \in [Users -> [pc : Pcs, s : Nat, sid : Nat]] /\ user'[u].pc \in Without
        /\ \A v \in Users : v # u => user'[v] = user[v]
    BY <1>0, <2>1, UserRests
  <2>3. AnytlsType'
    BY <1>0, <2>1, <2>2 DEF AnytlsType
  <2>4. UserLets(u)
    BY <2>1, <2>2 DEF UserLets
  <2> QED
    BY <1>1, <2>1, <2>2, <2>3, <2>4
<1>6. CASE \/ Anytls!OpenStream(u) /\ Anytls!IsClosed(user[u].s)
           \/ Anytls!Register(u) /\ Anytls!IsClosed(user[u].s)
  <2>1. /\ user[u].pc \in {"open", "register"} /\ Anytls!Go(u, "failed")
        /\ session[s].life # "alive"
        /\ UNCHANGED <<done, toClose, closer, idle, session, recv>>
    BY <1>6 DEF Anytls!OpenStream, Anytls!Register, Anytls!IsClosed
  <2>2. /\ user' \in [Users -> [pc : Pcs, s : Nat, sid : Nat]] /\ user'[u].pc = "failed"
        /\ user'[u].s = user[u].s /\ user'[u].sid = user[u].sid
        /\ \A v \in Users : v # u => user'[v] = user[v]
    BY <1>0, <1>a, <2>1, UserGoes
  <2>3. AnytlsType'
    BY <1>0, <2>1, <2>2 DEF AnytlsType
  <2>4. UserLets(u)
    BY <2>1, <2>2 DEF UserLets, Without
  <2> QED
    BY <1>1, <2>1, <2>2, <2>3, <2>4
<1>7. CASE Anytls!WriteSyn(u) /\ session' = Anytls!Died(user[u].s) /\ Anytls!Go(u, "failed")
  <2>1. /\ user[u].pc = "syn" /\ Anytls!Go(u, "failed") /\ session' = Anytls!Died(s)
        /\ UNCHANGED <<done, toClose, closer, idle, recv>>
    BY <1>7 DEF Anytls!WriteSyn
  <2>2. /\ user' \in [Users -> [pc : Pcs, s : Nat, sid : Nat]] /\ user'[u].pc = "failed"
        /\ user'[u].s = user[u].s /\ user'[u].sid = user[u].sid
        /\ \A v \in Users : v # u => user'[v] = user[v]
    BY <1>0, <1>a, <2>1, UserGoes
  <2>3. s \in Anytls!Sessions
    BY <1>0, <2>1 DEF Without
  <2>4. /\ session' \in [Anytls!Sessions -> Records] /\ session'[s].life # "alive"
        /\ \A r \in Anytls!Sessions : SessionLets(r)
    BY <2>1, <2>3, SessionEnds
  <2>5. UserLets(u)
    BY <2>1, <2>2, <2>4 DEF UserLets, Without
  <2> QED
    BY <1>2, <2>1, <2>2, <2>4, <2>5
<1>8. CASE Anytls!CreateFails(u)
  <2>1. /\ user[u].pc = "failed" /\ Anytls!Rest(u) /\ session' = Anytls!Died(s)
        /\ UNCHANGED <<done, toClose, closer, idle, recv>>
    BY <1>8 DEF Anytls!CreateFails
  <2>2. /\ user' \in [Users -> [pc : Pcs, s : Nat, sid : Nat]] /\ user'[u].pc \in Without
        /\ \A v \in Users : v # u => user'[v] = user[v]
    BY <1>0, <2>1, UserRests
  <2>3. s \in Anytls!Sessions
    BY <1>0, <2>1 DEF Without
  <2>4. /\ session' \in [Anytls!Sessions -> Records]
        /\ \A r \in Anytls!Sessions : SessionLets(r)
    BY <2>1, <2>3, SessionEnds
  <2>5. UserLets(u)
    BY <2>1, <2>2 DEF UserLets
  <2> QED
    BY <1>2, <2>1, <2>2, <2>4, <2>5
<1>9. CASE Anytls!CloseStream(u) /\ user[u].sid \in session[user[u].s].dead
  <2>1. /\ user[u].pc = "using" /\ Anytls!Rest(u)
        /\ UNCHANGED <<done, toClose, closer, idle, session, recv>>
    BY <1>9 DEF Anytls!CloseStream
  <2>2. /\ user' \in [Users -> [pc : Pcs, s : Nat, sid : Nat]] /\ user'[u].pc \in Without
        /\ \A v \in Users : v # u => user'[v] = user[v]
    BY <1>0, <2>1, UserRests
  <2>3. AnytlsType'
    BY <1>0, <2>1, <2>2 DEF AnytlsType
  <2>4. UserLets(u)
    BY <1>9, <2>1, <2>2 DEF UserLets
  <2> QED
    BY <1>1, <2>1, <2>2, <2>3, <2>4
<1>10. CASE Anytls!Pool(u) /\ Anytls!Decide(user[u].s) = "fin"
  <2>1. /\ user[u].pc = "pool" /\ Anytls!Go(u, "fin")
        /\ session[s].life # "alive" \/ done
        /\ toClose' = IF done /\ session[s].life = "alive" THEN toClose \cup {s} ELSE toClose
        /\ UNCHANGED <<done, closer, idle, session, recv>>
    BY <1>10 DEF Anytls!Pool, Anytls!Decide, Anytls!GoClose, Anytls!IsClosed
  <2>2. /\ user' \in [Users -> [pc : Pcs, s : Nat, sid : Nat]] /\ user'[u].pc = "fin"
        /\ user'[u].s = user[u].s /\ user'[u].sid = user[u].sid
        /\ \A v \in Users : v # u => user'[v] = user[v]
    BY <1>0, <1>a, <2>1, UserGoes
  <2>3. s \in Anytls!Sessions
    BY <1>0, <2>1 DEF Without
  <2>4. toClose' \subseteq Anytls!Sessions /\ toClose \subseteq toClose'
        /\ (session[s].life = "alive" => s \in toClose')
    BY <1>0, <2>1, <2>3
  <2>5. AnytlsType'
    BY <1>0, <2>1, <2>2, <2>4 DEF AnytlsType
  <2>6. UserLets(u)
    BY <2>1, <2>2, <2>4 DEF UserLets, Without
  <2> QED
    BY <1>1, <2>1, <2>2, <2>4, <2>5, <2>6
<1>11. CASE Anytls!StreamClosed(u)
  <2>1. /\ user[u].pc = "fin" /\ Anytls!Rest(u) /\ Anytls!ForgetOrDie(s, user[u].sid)
        /\ UNCHANGED <<done, toClose, closer, idle, recv>>
    BY <1>11 DEF Anytls!StreamClosed
  <2>2. /\ user' \in [Users -> [pc : Pcs, s : Nat, sid : Nat]] /\ user'[u].pc \in Without
        /\ \A v \in Users : v # u => user'[v] = user[v]
    BY <1>0, <2>1, UserRests
  <2>3. s \in Anytls!Sessions
    BY <1>0, <2>1 DEF Without
  <2>4. /\ session' \in [Anytls!Sessions -> Records]
        /\ \A r \in Anytls!Sessions : SessionLets(r)
    BY <2>1, <2>3, SessionLosesStream
  <2>5. UserLets(u)
    BY <2>1, <2>2 DEF UserLets
  <2> QED
    BY <1>2, <2>1, <2>2, <2>4, <2>5
<1> QED
  BY <1>3, <1>4, <1>5, <1>6, <1>7, <1>8, <1>9, <1>10, <1>11

(* The steps of a user that keep its session.                               *)
LEMMA UserGoesOn ==
    ASSUME AnytlsInv, NEW u \in Users,
           \/ Anytls!OpenStream(u) /\ ~Anytls!IsClosed(user[u].s)
           \/ Anytls!WriteSyn(u) /\ session' = session /\ Anytls!Go(u, "register")
           \/ Anytls!Register(u) /\ ~Anytls!IsClosed(user[u].s)
           \/ Anytls!SetDieHook(u)
           \/ Anytls!CloseStream(u) /\ user[u].sid \notin session[user[u].s].dead
           \/ Anytls!Pool(u) /\ Anytls!Decide(user[u].s) = "insert"
    PROVE  AnytlsInv'
<1>a. PICK s, i : s = user[u].s /\ i = user[u].sid
  OBVIOUS
<1> USE <1>a
<1>1. /\ AnytlsType
      /\ user[u].pc \in {"open", "syn", "register", "hook", "using", "pool"}
      /\ user[u].pc = "using" => i \notin session[s].dead
      /\ UNCHANGED <<idle, recv, toClose, closer, done>>
  BY DEF AnytlsInv, Anytls!OpenStream, Anytls!WriteSyn, Anytls!Register, Anytls!SetDieHook,
         Anytls!CloseStream, Anytls!Pool, Anytls!Decide, Anytls!GoClose
<1>2. /\ s \in Anytls!Sessions /\ session[s].life # "none"
      /\ user[u].pc # "open" => i <= session[s].sid
      /\ user[u].pc \in {"syn", "register", "hook"} /\ Alive(s) /\ ~session[s].missed =>
           i \notin session[s].dead
      /\ Alive(s) => \A k \in session[s].dead : k <= session[s].sid
  BY <1>1 DEF AnytlsInv, UserInv, NoneInv, Without
<1>3. Holds(u, s)
  BY <1>1 DEF Holds
<1>4. /\ session \in [Anytls!Sessions -> Records] /\ session[s] \in Records
      /\ session[s].sid \in Nat /\ session[s].dead \in SUBSET Nat
      /\ session[s].asked \in SUBSET Nat /\ session[s].streams \in SUBSET Nat
      /\ user \in [Users -> [pc : Pcs, s : Nat, sid : Nat]] /\ i \in Nat
  BY <1>1, <1>2 DEF AnytlsType, Records
<1>5. {"syn", "register", "hook", "using", "pool", "insert"} \subseteq Pcs
  BY DEF Pcs
<1>6. CASE Anytls!OpenStream(u) /\ ~Anytls!IsClosed(user[u].s)
  <2> DEFINE n == session[s].sid + 1
             r == [session[s] EXCEPT !.sid = n]
             w == [user[u] EXCEPT !.pc = "syn", !.sid = n]
  <2>1. /\ user[u].pc = "open" /\ Alive(s)
        /\ session' = [session EXCEPT ![s].sid = @ + 1]
        /\ user' = [user EXCEPT ![u].pc = "syn", ![u].sid = n]
    BY <1>6 DEF Anytls!OpenStream, Anytls!IsClosed, Alive
  <2>2. n \in Nat /\ session[s].sid <= n /\ n \notin session[s].dead
    BY <1>2, <1>4, <2>1
  <2>3. session' = [session EXCEPT ![s] = r] /\ user' = [user EXCEPT ![u] = w]
    BY <1>4, <2>1, Zenon
  <2>4. r \in Records /\ w \in [pc : Pcs, s : Nat, sid : Nat]
    <3> HIDE DEF n
    <3>1. user[u] \in [pc : Pcs, s : Nat, sid : Nat] /\ "syn" \in Pcs
      BY <1>4, <1>5
    <3> QED
      BY <1>4, <2>2, <3>1, Zenon DEF Records
  <2>5. /\ r.life = session[s].life /\ r.sid = n /\ r.dead = session[s].dead
        /\ r.asked = session[s].asked /\ r.missed = session[s].missed
        /\ w.pc = "syn" /\ w.s = s /\ w.sid = n
    BY <1>4 DEF Records
  <2> HIDE DEF r, w, n
  <2>6. /\ session' \in [Anytls!Sessions -> Records] /\ session'[s] = r
        /\ \A x \in Anytls!Sessions : x # s => session'[x] = session[x]
    BY <1>1, <1>2, <2>3, <2>4, SessionIs
  <2>7. /\ user' \in [Users -> [pc : Pcs, s : Nat, sid : Nat]] /\ user'[u] = w
        /\ \A v \in Users : v # u => user'[v] = user[v]
    BY <1>4, <2>3, <2>4, Zenon
  <2>8. AnytlsType'
    BY <1>1, <2>6, <2>7 DEF AnytlsType
  <2>9. Alive(s) => Holds(u, s)'
    BY <2>5, <2>7 DEF Holds
  <2>10. user'[u].sid = n /\ session'[s].sid = n
    BY <2>5, <2>6, <2>7
  <2>11. UserGoesOnWith(u, s)
    BY <1>1, <2>1, <2>2, <2>5, <2>6, <2>7, <2>10 DEF UserGoesOnWith
  <2>12. SessionGoesOn(u, s)
    BY <2>2, <2>5, <2>6, <2>10 DEF SessionGoesOn
  <2> QED
    BY <1>1, <1>2, <1>3, <2>6, <2>7, <2>8, <2>9, <2>11, <2>12, GoesOn
<1>7. ASSUME NEW pc \in {"register", "insert"}, Anytls!Go(u, pc), session' = session,
             user[u].pc # "open", user[u].pc # "using", user[u].pc # "hook",
             pc = "register" => user[u].pc = "syn", pc = "insert" => ~done
      PROVE  AnytlsInv'
  <2>1. /\ user' \in [Users -> [pc : Pcs, s : Nat, sid : Nat]]
        /\ user'[u].pc = pc /\ user'[u].s = s /\ user'[u].sid = i
        /\ \A v \in Users : v # u => user'[v] = user[v]
    BY <1>1, <1>5, <1>7, UserGoes
  <2>2. AnytlsType'
    BY <1>1, <1>4, <1>7, <2>1 DEF AnytlsType
  <2>3. Alive(s) => Holds(u, s)'
    BY <1>7, <2>1 DEF Holds
  <2>4. UserGoesOnWith(u, s)
    BY <1>1, <1>2, <1>7, <2>1 DEF UserGoesOnWith
  <2>5. SessionGoesOn(u, s)
    BY <1>4, <1>7 DEF SessionGoesOn
  <2> QED
    BY <1>1, <1>2, <1>3, <1>7, <2>1, <2>2, <2>3, <2>4, <2>5, GoesOn
<1>8. CASE Anytls!WriteSyn(u) /\ session' = session /\ Anytls!Go(u, "register")
  BY <1>7, <1>8 DEF Anytls!WriteSyn
<1>9. CASE Anytls!Pool(u) /\ Anytls!Decide(user[u].s) = "insert"
  BY <1>7, <1>9 DEF Anytls!Pool, Anytls!Decide
(* The record of the session is r, the user goes on at pc.                  *)
<1>10. ASSUME NEW r \in Records, session' = [session EXCEPT ![s] = r],
              NEW pc \in {"hook", "using", "pool"}, Anytls!Go(u, pc), user[u].pc # "open",
              r.life = session[s].life, r.sid = session[s].sid, r.missed = session[s].missed,
              r.dead = session[s].dead \/ (r.dead = session[s].dead \cup {i} /\ pc = "pool"),
              pc = "hook" => user[u].pc = "register",
              pc = "using" => user[u].pc = "hook",
              user[u].pc = "hook" => pc = "using",
              user[u].pc = "using" => i \in r.dead,
              r.asked = session[s].asked \/ (r.asked = session[s].asked \cup {i} /\ pc \in {"hook", "using"})
       PROVE  AnytlsInv'
  <2>1. /\ user' \in [Users -> [pc : Pcs, s : Nat, sid : Nat]]
        /\ user'[u].pc = pc /\ user'[u].s = s /\ user'[u].sid = i
        /\ \A v \in Users : v # u => user'[v] = user[v]
    BY <1>1, <1>5, <1>10, UserGoes
  <2>2. /\ session' \in [Anytls!Sessions -> Records] /\ session'[s] = r
        /\ \A x \in Anytls!Sessions : x # s => session'[x] = session[x]
    BY <1>1, <1>2, <1>10, SessionIs
  <2>3. AnytlsType'
    BY <1>1, <2>1, <2>2 DEF AnytlsType
  <2>4. Alive(s) /\ ~session[s].missed => Holds(u, s)'
    BY <1>2, <1>10, <2>1, <2>2 DEF Holds
  <2>5. session[s].dead \subseteq r.dead /\ \A k \in r.dead : k \in session[s].dead \/ k = i
    BY <1>10
  <2>6. \A k \in r.asked : k \in session[s].asked \/ (pc \in {"hook", "using"} /\ i = k)
    BY <1>10
  <2>7. pc \in {"syn", "register", "hook"} /\ Alive(s) /\ ~session[s].missed => i \notin r.dead
    BY <1>2, <1>10
  <2>8. UserGoesOnWith(u, s)
    BY <1>2, <1>10, <2>1, <2>2, <2>7 DEF UserGoesOnWith
  <2>9. SessionGoesOn(u, s)
    BY <1>4, <1>10, <2>1, <2>2, <2>5, <2>6 DEF SessionGoesOn
  <2> QED
    BY <1>1, <1>2, <1>3, <2>1, <2>2, <2>3, <2>4, <2>8, <2>9, GoesOn
<1>11. CASE Anytls!Register(u) /\ ~Anytls!IsClosed(user[u].s)
  <2>1. PICK sent \in IF i = 1 THEN {{}, {1}} ELSE {{i}} :
          /\ user[u].pc = "register" /\ Anytls!Go(u, "hook")
          /\ session' = [session EXCEPT ![s].streams = @ \cup {i}, ![s].asked = @ \cup sent]
    BY <1>11 DEF Anytls!Register, Anytls!IsClosed
  <2> DEFINE t == session[s].streams \cup {i}
             k == session[s].asked \cup sent
             r == [session[s] EXCEPT !.streams = t, !.asked = k]
  <2>2. session' = [session EXCEPT ![s] = r]
    BY <1>4, <2>1, Zenon
  <2>3. t \in SUBSET Nat /\ k \in SUBSET Nat /\ (k = session[s].asked \/ k = session[s].asked \cup {i})
    BY <1>4
  <2> HIDE DEF t, k
  <2>4. r \in Records
    BY <1>4, <2>3, Zenon DEF Records
  <2>5. /\ r.life = session[s].life /\ r.sid = session[s].sid /\ r.dead = session[s].dead
        /\ r.asked = k /\ r.missed = session[s].missed
    BY <1>4 DEF Records
  <2> HIDE DEF r
  <2> QED
    BY <1>10, <2>1, <2>2, <2>3, <2>4, <2>5
<1>12. CASE Anytls!SetDieHook(u)
  <2> DEFINE r == [session[s] EXCEPT !.asked = @ \cup {i}]
  <2>1. /\ user[u].pc = "hook" /\ Anytls!Go(u, "using")
        /\ session' = [session EXCEPT ![s].asked = @ \cup {i}]
    BY <1>12 DEF Anytls!SetDieHook
  <2>2. session' = [session EXCEPT ![s] = r]
    BY <1>4, <2>1, Zenon
  <2>3. session[s].asked \cup {i} \in SUBSET Nat
    BY <1>4
  <2>4. r \in Records
    BY <1>4, <2>3, Zenon DEF Records
  <2>5. /\ r.life = session[s].life /\ r.sid = session[s].sid /\ r.dead = session[s].dead
        /\ r.asked = session[s].asked \cup {i} /\ r.missed = session[s].missed
    BY <1>4 DEF Records
  <2> HIDE DEF r
  <2> QED
    BY <1>10, <2>1, <2>2, <2>4, <2>5
<1>13. CASE Anytls!CloseStream(u) /\ user[u].sid \notin session[user[u].s].dead
  <2> DEFINE r == [session[s] EXCEPT !.dead = @ \cup {i}]
  <2>1. /\ user[u].pc = "using" /\ Anytls!Go(u, "pool")
        /\ session' = [session EXCEPT ![s].dead = @ \cup {i}]
    BY <1>13 DEF Anytls!CloseStream
  <2>2. session' = [session EXCEPT ![s] = r]
    BY <1>4, <2>1, Zenon
  <2>3. session[s].dead \cup {i} \in SUBSET Nat
    BY <1>4
  <2>4. r \in Records
    BY <1>4, <2>3, Zenon DEF Records
  <2>5. /\ r.life = session[s].life /\ r.sid = session[s].sid
        /\ r.dead = session[s].dead \cup {i} /\ i \in r.dead
        /\ r.asked = session[s].asked /\ r.missed = session[s].missed
    BY <1>4 DEF Records
  <2> HIDE DEF r
  <2> QED
    BY <1>10, <2>1, <2>2, <2>4, <2>5
<1> QED
  BY <1>6, <1>8, <1>9, <1>11, <1>12, <1>13

(* The steps by which a user takes a session.                               *)
LEMMA UserTakes ==
    ASSUME AnytlsInv, NEW u \in Users,
           \/ Anytls!GetIdleSession(u) /\ idle # {}
           \/ Anytls!CreateSession(u) /\ ~(Anytls!Rest(u) /\ session' = session)
    PROVE  AnytlsInv'
<1>0. /\ AnytlsType /\ session \in [Anytls!Sessions -> Records]
      /\ user \in [Users -> [pc : Pcs, s : Nat, sid : Nat]]
  BY DEF AnytlsInv, AnytlsType
<1>1. ASSUME NEW s \in Anytls!Sessions, user' = [user EXCEPT ![u].pc = "open", ![u].s = s]
      PROVE  /\ user' \in [Users -> [pc : Pcs, s : Nat, sid : Nat]]
             /\ user'[u].pc = "open" /\ user'[u].s = s
             /\ \A v \in Users : v # u => user'[v] = user[v]
  <2> DEFINE w == [user[u] EXCEPT !.pc = "open", !.s = s]
  <2>1. user' = [user EXCEPT ![u] = w]
    BY <1>0, <1>1, Zenon
  <2>2. s \in Nat /\ "open" \in Pcs
    BY SessionsAssumption DEF Anytls!Sessions, Pcs
  <2>3. w \in [pc : Pcs, s : Nat, sid : Nat]
    BY <1>0, <2>2, Zenon
  <2>4. w.pc = "open" /\ w.s = s
    BY <1>0
  <2> HIDE DEF w
  <2>5. /\ user' \in [Users -> [pc : Pcs, s : Nat, sid : Nat]] /\ user'[u] = w
        /\ \A v \in Users : v # u => user'[v] = user[v]
    BY <1>0, <2>1, <2>3, Zenon
  <2> QED
    BY <2>4, <2>5
<1>2. CASE Anytls!GetIdleSession(u) /\ idle # {}
  <2> DEFINE s == Anytls!Max(idle)
  <2>1. /\ user[u].pc = "get" /\ user' = [user EXCEPT ![u].pc = "open", ![u].s = s]
        /\ idle' = idle \ {s} /\ UNCHANGED <<done, toClose, closer, session, recv>>
    BY <1>2 DEF Anytls!GetIdleSession
  <2>2. idle \subseteq Anytls!Sessions
    BY <1>0 DEF AnytlsType
  <2>3. s \in idle
    BY <1>2, <2>2, NewestIsIdle
  <2> HIDE DEF s
  <2>4. s \in Anytls!Sessions
    BY <2>2, <2>3
  <2>5. /\ user' \in [Users -> [pc : Pcs, s : Nat, sid : Nat]]
        /\ user'[u].pc = "open" /\ user'[u].s = s
        /\ \A v \in Users : v # u => user'[v] = user[v]
    BY <1>1, <2>1, <2>4
  <2>6. AnytlsType'
    BY <1>0, <2>1, <2>5 DEF AnytlsType
  <2>7. ~Pools(s) /\ \A v \in Users : ~Holds(v, s)
    BY <2>3, <2>4 DEF AnytlsInv, HeldInv
  <2>8. session[s].life # "none"
    BY <2>3, <2>4 DEF AnytlsInv, NoneInv
  <2>9. /\ user[u].pc \in Without /\ idle' \subseteq idle /\ idle \subseteq idle' \cup {s}
        /\ s \notin idle'
    BY <2>1 DEF Without
  <2> QED
    BY <2>1, <2>4, <2>5, <2>6, <2>7, <2>8, <2>9, Opens
<1>3. CASE Anytls!CreateSession(u) /\ ~(Anytls!Rest(u) /\ session' = session)
  <2>1. PICK s \in Anytls!Sessions :
          /\ session[s].life = "none"
          /\ session' = [session EXCEPT ![s] = Anytls!NewSession("alive")]
          /\ user' = [user EXCEPT ![u].pc = "open", ![u].s = s]
    BY <1>3 DEF Anytls!CreateSession
  <2>2. user[u].pc = "dial" /\ UNCHANGED <<done, toClose, closer, idle, recv>>
    BY <1>3 DEF Anytls!CreateSession
  <2>3. Anytls!NewSession("alive") \in Records
    BY DEF Anytls!NewSession, Records, Lives
  <2>4. /\ session' \in [Anytls!Sessions -> Records] /\ session'[s] = Anytls!NewSession("alive")
        /\ \A x \in Anytls!Sessions : x # s => session'[x] = session[x]
    BY <1>0, <2>1, <2>3, SessionIs
  <2>5. /\ user' \in [Users -> [pc : Pcs, s : Nat, sid : Nat]]
        /\ user'[u].pc = "open" /\ user'[u].s = s
        /\ \A v \in Users : v # u => user'[v] = user[v]
    BY <1>1, <2>1
  <2>6. AnytlsType'
    BY <1>0, <2>2, <2>4, <2>5 DEF AnytlsType
  <2>7. ~Pools(s) /\ s \notin idle
    BY <2>1 DEF AnytlsInv, NoneInv
  <2>8. \A v \in Users : ~Holds(v, s)
    <3> SUFFICES ASSUME NEW v \in Users, Holds(v, s) PROVE FALSE
      OBVIOUS
    <3>1. user[v].pc \notin Without /\ user[v].s = s
      BY DEF Holds, Without
    <3> QED
      BY <2>1, <3>1 DEF AnytlsInv, UserInv
  <2>9. user[u].pc \in Without
    BY <2>2 DEF Without
  <2> QED
    BY <2>1, <2>2, <2>4, <2>5, <2>6, <2>7, <2>8, <2>9, Opens
<1> QED
  BY <1>2, <1>3

(* The steps by which a session comes back into the pool.                   *)
LEMMA Inserts ==
    ASSUME AnytlsInv, \/ \E u \in Users : Anytls!Insert(u)
                      \/ \E s \in Anytls!Sessions : Anytls!RecvInsert(s)
    PROVE  AnytlsInv'
<1>0. AnytlsType /\ idle \subseteq Anytls!Sessions
  BY DEF AnytlsInv, AnytlsType
<1>1. ASSUME NEW u \in Users, Anytls!Insert(u) PROVE AnytlsInv'
  <2> DEFINE s == user[u].s
  <2>1. /\ user[u].pc = "insert" /\ idle' = idle \cup {s} /\ Anytls!Go(u, "fin")
        /\ UNCHANGED <<done, toClose, closer, session, recv>>
    BY <1>1 DEF Anytls!Insert
  <2>2. s \in Anytls!Sessions
    BY <2>1 DEF AnytlsInv, UserInv, Without
  <2>3. "fin" \in Pcs
    BY DEF Pcs
  <2>4. /\ user' \in [Users -> [pc : Pcs, s : Nat, sid : Nat]] /\ user'[u].pc = "fin"
        /\ user'[u].s = s /\ user'[u].sid = user[u].sid
        /\ \A v \in Users : v # u => user'[v] = user[v]
    BY <1>0, <2>1, <2>3, UserGoes
  <2>5. AnytlsType'
    BY <1>0, <2>1, <2>2, <2>4 DEF AnytlsType
  <2>6. user[u].s = s
    OBVIOUS
  <2> HIDE DEF s
  <2> QED
    BY <2>1, <2>2, <2>4, <2>5, <2>6, PutsBack
<1>2. ASSUME NEW s \in Anytls!Sessions, Anytls!RecvInsert(s) PROVE AnytlsInv'
  <2>1. /\ recv[s].pc = "insert" /\ idle' = idle \cup {s} /\ recv' = [recv EXCEPT ![s].pc = "fin"]
        /\ UNCHANGED <<done, toClose, closer, session, user>>
    BY <1>2 DEF Anytls!RecvInsert
  <2>2. /\ recv' \in [Anytls!Sessions ->
                        [pc : {"read", "pool", "insert", "fin"}, sid : Nat, fin : BOOLEAN]]
        /\ recv'[s].pc = "fin" /\ \A x \in Anytls!Sessions : x # s => recv'[x] = recv[x]
    BY <1>0, <2>1, RecvGoes
  <2>3. AnytlsType'
    BY <1>0, <2>1, <2>2 DEF AnytlsType
  <2> QED
    BY <2>1, <2>2, <2>3, PutsBack
<1> QED
  BY <1>1, <1>2

(* recvLoop takes the session of a stream that it ends, unless it was dead. *)
LEMMA ServerEnds ==
    ASSUME AnytlsInv, NEW s \in Anytls!Sessions, NEW i,
           Anytls!RecvFin(s, i) \/ Anytls!RecvRefusal(s, i)
    PROVE  AnytlsInv'
<1>0. /\ AnytlsType /\ session \in [Anytls!Sessions -> Records] /\ session[s] \in Records
      /\ recv \in [Anytls!Sessions ->
                     [pc : {"read", "pool", "insert", "fin"}, sid : Nat, fin : BOOLEAN]]
      /\ session[s].dead \in SUBSET Nat /\ session[s].asked \in SUBSET Nat
      /\ session[s].missed \in BOOLEAN
  BY DEF AnytlsInv, AnytlsType, Records
<1>1. /\ recv[s].pc = "read" /\ i \in session[s].asked
      /\ UNCHANGED <<user, idle, toClose, closer, done>>
  BY DEF Anytls!RecvFin, Anytls!RecvRefusal
<1>2. i \in Nat /\ ~Pools(s)
  BY <1>0, <1>1 DEF Pools
<1>3. session[s].dead \cup {i} \in SUBSET Nat
  BY <1>0, <1>2
<1>4. /\ session' \in [Anytls!Sessions -> Records]
      /\ \A r \in Anytls!Sessions : r # s => session'[r] = session[r]
      /\ session'[s].life = session[s].life /\ session'[s].sid = session[s].sid
      /\ session'[s].dead = session[s].dead \cup {i}
      /\ session'[s].missed = (session[s].missed \/ ~Anytls!HookIsSet(s, i))
      /\ session'[s].asked \subseteq session[s].asked
  <2>1. ASSUME NEW ss \in [Anytls!Sessions -> Records], Anytls!Dies(ss, s, i),
               ss[s].dead = session[s].dead, ss[s].missed = session[s].missed
        PROVE  /\ session' \in [Anytls!Sessions -> Records]
               /\ \A r \in Anytls!Sessions : r # s => session'[r] = ss[r]
               /\ session'[s].life = ss[s].life /\ session'[s].sid = ss[s].sid
               /\ session'[s].dead = session[s].dead \cup {i}
               /\ session'[s].missed = (session[s].missed \/ ~Anytls!HookIsSet(s, i))
               /\ session'[s].asked = ss[s].asked
    <3> DEFINE d == ss[s].dead \cup {i}
               m == ss[s].missed \/ ~Anytls!HookIsSet(s, i)
               r == [ss[s] EXCEPT !.dead = d, !.missed = m]
    <3>1. session' = [ss EXCEPT ![s] = r]
      BY <2>1, Zenon DEF Anytls!Dies
    <3>2. ss[s] \in Records
      OBVIOUS
    <3>3. d = session[s].dead \cup {i} /\ d \in SUBSET Nat
      BY <1>3, <2>1
    <3>4. m \in BOOLEAN /\ m = (session[s].missed \/ ~Anytls!HookIsSet(s, i))
      BY <2>1, Zenon
    <3> HIDE DEF d, m
    <3>5. r \in Records
      BY <3>2, <3>3, <3>4, Zenon DEF Records
    <3>6. /\ r.life = ss[s].life /\ r.sid = ss[s].sid /\ r.asked = ss[s].asked
          /\ r.dead = d /\ r.missed = m
      BY <3>2 DEF Records
    <3> HIDE DEF r
    <3>7. /\ session' \in [Anytls!Sessions -> Records] /\ session'[s] = r
          /\ \A x \in Anytls!Sessions : x # s => session'[x] = ss[x]
      BY <3>1, <3>5, Zenon
    <3>8. session'[s].missed = (session[s].missed \/ ~Anytls!HookIsSet(s, i))
      BY <3>4, <3>6, <3>7, Zenon
    <3> QED
      BY <3>3, <3>6, <3>7, <3>8
  <2>2. CASE Anytls!RecvRefusal(s, i)
    <3>1. Anytls!Dies(session, s, i)
      BY <2>2 DEF Anytls!RecvRefusal
    <3> QED
      BY <1>0, <2>1, <3>1
  <2>3. CASE Anytls!RecvFin(s, i)
    <3> DEFINE f == Anytls!Forget(session, s, i)
    <3>1. Anytls!Dies(f, s, i)
      BY <2>3 DEF Anytls!RecvFin
    <3>2. /\ f \in [Anytls!Sessions -> Records]
          /\ \A x \in Anytls!Sessions : x # s => f[x] = session[x]
          /\ f[s].life = session[s].life /\ f[s].sid = session[s].sid
          /\ f[s].dead = session[s].dead /\ f[s].asked \subseteq session[s].asked
          /\ f[s].missed = session[s].missed
      BY <1>0, SessionForgets
    <3> HIDE DEF f
    <3> QED
      BY <2>1, <3>1, <3>2
  <2> QED
    BY <2>2, <2>3
<1>5. CASE ~Anytls!HookIsSet(s, i)
  <2>1. recv' = recv \/ recv' = [recv EXCEPT ![s] = [pc |-> "fin", sid |-> i, fin |-> TRUE]]
    BY <1>5 DEF Anytls!RecvFin, Anytls!RecvRefusal
  <2>2. [pc |-> "fin", sid |-> i, fin |-> TRUE]
           \in [pc : {"read", "pool", "insert", "fin"}, sid : Nat, fin : BOOLEAN]
    BY <1>2
  <2>3. /\ recv' \in [Anytls!Sessions ->
                        [pc : {"read", "pool", "insert", "fin"}, sid : Nat, fin : BOOLEAN]]
        /\ recv'[s].pc \in {"read", "fin"} /\ \A x \in Anytls!Sessions : x # s => recv'[x] = recv[x]
    <3>1. CASE recv' = recv
      BY <1>0, <1>1, <3>1
    <3>2. CASE recv' = [recv EXCEPT ![s] = [pc |-> "fin", sid |-> i, fin |-> TRUE]]
      BY <1>0, <2>2, <3>2, RecvIs
    <3> QED
      BY <2>1, <3>1, <3>2
  <2>4. AnytlsType'
    BY <1>0, <1>1, <1>4, <2>3 DEF AnytlsType
  <2>5. session'[s].missed
    BY <1>4, <1>5
  <2> QED
    BY <1>1, <1>2, <1>4, <1>5, <2>3, <2>4, <2>5, Misses
<1>6. CASE Anytls!HookIsSet(s, i) /\ i \in session[s].dead
  <2>1. recv' = recv
    BY <1>6 DEF Anytls!RecvFin, Anytls!RecvRefusal
  <2>2. AnytlsType'
    BY <1>0, <1>1, <1>4, <2>1 DEF AnytlsType
  <2>3. \A r \in Anytls!Sessions : SessionLets(r) /\ RecvLets(r)
    BY <1>0, <1>1, <1>4, <1>6, <2>1 DEF SessionLets, RecvLets
  <2>4. \A u \in Users : UserLets(u)
    BY <1>1 DEF UserLets
  <2>5. closer # "no" => done
    BY DEF AnytlsInv, CloseInv
  <2> QED
    BY <1>1, <2>2, <2>3, <2>4, <2>5, Releases
<1>7. CASE Anytls!HookIsSet(s, i) /\ i \notin session[s].dead
  <2>1. PICK b \in BOOLEAN : recv' = [recv EXCEPT ![s] = [pc |-> "pool", sid |-> i, fin |-> b]]
    BY <1>7 DEF Anytls!RecvFin, Anytls!RecvRefusal
  <2>2. [pc |-> "pool", sid |-> i, fin |-> b]
           \in [pc : {"read", "pool", "insert", "fin"}, sid : Nat, fin : BOOLEAN]
    BY <1>2
  <2>3. /\ recv' \in [Anytls!Sessions ->
                        [pc : {"read", "pool", "insert", "fin"}, sid : Nat, fin : BOOLEAN]]
        /\ recv'[s] = [pc |-> "pool", sid |-> i, fin |-> b]
        /\ \A x \in Anytls!Sessions : x # s => recv'[x] = recv[x]
    BY <1>0, <2>1, <2>2, RecvIs
  <2>4. AnytlsType'
    BY <1>0, <1>1, <1>4, <2>3 DEF AnytlsType
  <2>5. i \in session[s].asked \ session[s].dead /\ recv'[s].pc = "pool"
    BY <1>1, <1>7, <2>3
  <2>6. session'[s].missed = session[s].missed
    BY <1>0, <1>4, <1>7
  <2> QED
    BY <1>1, <1>2, <1>4, <1>7, <2>3, <2>4, <2>5, <2>6, Takes
<1> QED
  BY <1>5, <1>6, <1>7

(* The hook that recvLoop runs decides for the pool: the client is open.    *)
LEMMA RecvDecides ==
    ASSUME AnytlsInv, NEW s \in Anytls!Sessions, Anytls!RecvHook(s), Anytls!Decide(s) = "insert"
    PROVE  AnytlsInv'
<1>0. AnytlsType
  BY DEF AnytlsInv
<1>1. /\ recv[s].pc = "pool" /\ recv' = [recv EXCEPT ![s].pc = "insert"] /\ ~done /\ toClose' = toClose
      /\ UNCHANGED <<done, closer, idle, session, user>>
  BY DEF Anytls!RecvHook, Anytls!Decide, Anytls!GoClose
<1>2. /\ recv' \in [Anytls!Sessions ->
                      [pc : {"read", "pool", "insert", "fin"}, sid : Nat, fin : BOOLEAN]]
      /\ recv'[s].pc = "insert" /\ \A x \in Anytls!Sessions : x # s => recv'[x] = recv[x]
  BY <1>0, <1>1, RecvGoes
<1>3. AnytlsType'
  BY <1>0, <1>1, <1>2 DEF AnytlsType
<1>4. \A r \in Anytls!Sessions : Pools(r)' <=> Pools(r)
  BY <1>1, <1>2 DEF Pools
<1>5. closer = "no"
  BY <1>1 DEF AnytlsInv, CloseInv
<1>6. \A r \in Anytls!Sessions, u \in Users : Holds(u, r)' <=> Holds(u, r)
  BY <1>1 DEF Holds
<1>7. UserInv' /\ AskedInv' /\ CloseInv'
  BY <1>1, <1>5 DEF AnytlsInv, UserInv, AskedInv, CloseInv, Alive
<1>8. NoneInv' /\ HeldInv' /\ OwnedInv'
  BY <1>1, <1>4, <1>6 DEF AnytlsInv, NoneInv, HeldInv, OwnedInv, Alive
<1> QED
  BY <1>3, <1>7, <1>8 DEF AnytlsInv

(* Session.Close after die is closed leaves a session dead.                 *)
LEMMA SessionCloses ==
    ASSUME AnytlsInv, NEW s \in Anytls!Sessions, Anytls!LeavePool(s) \/ Anytls!CloseStreams(s)
    PROVE  /\ session' \in [Anytls!Sessions -> Records] /\ idle' \subseteq idle
           /\ \A r \in Anytls!Sessions : SessionLets(r)
<1>0. /\ AnytlsType /\ session \in [Anytls!Sessions -> Records] /\ session[s] \in Records
      /\ session[s].dead \in SUBSET Nat /\ session[s].streams \in SUBSET Nat
  BY DEF AnytlsInv, AnytlsType, Records
<1>1. CASE Anytls!LeavePool(s)
  <2> DEFINE r == [session[s] EXCEPT !.life = "streams"]
  <2>1. session[s].life = "hook" /\ idle' = idle \ {s} /\ toClose' = toClose
        /\ session' = [session EXCEPT ![s].life = "streams"]
    BY <1>1 DEF Anytls!LeavePool
  <2>2. session' = [session EXCEPT ![s] = r]
    BY <1>0, <2>1, Zenon
  <2>3. "streams" \in Lives
    BY DEF Lives
  <2>4. r \in Records
    BY <1>0, <2>3, Zenon DEF Records
  <2>5. /\ r.life = "streams" /\ r.sid = session[s].sid /\ r.dead = session[s].dead
        /\ r.asked = session[s].asked
    BY <1>0 DEF Records
  <2> HIDE DEF r
  <2>6. /\ session' \in [Anytls!Sessions -> Records] /\ session'[s] = r
        /\ \A x \in Anytls!Sessions : x # s => session'[x] = session[x]
    BY <1>0, <2>2, <2>4, SessionIs
  <2> QED
    BY <2>1, <2>5, <2>6 DEF SessionLets
<1>2. CASE Anytls!CloseStreams(s)
  <2> DEFINE d == session[s].dead \cup session[s].streams
             r == [session[s] EXCEPT !.life = "closed", !.dead = d, !.streams = {}, !.asked = {}]
  <2>1. /\ session[s].life = "streams" /\ UNCHANGED <<idle, toClose>>
        /\ session' = [session EXCEPT ![s].life = "closed", ![s].dead = @ \cup session[s].streams,
                                     ![s].streams = {}, ![s].asked = {}]
    BY <1>2 DEF Anytls!CloseStreams
  <2>2. session' = [session EXCEPT ![s] = r]
    BY <1>0, <2>1, Zenon
  <2>3. "closed" \in Lives /\ d \in SUBSET Nat /\ {} \in SUBSET Nat
    BY <1>0 DEF Lives
  <2>4. r \in Records
    <3> HIDE DEF d
    <3> QED
      BY <1>0, <2>3, Zenon DEF Records
  <2>5. /\ r.life = "closed" /\ r.sid = session[s].sid /\ r.dead = d /\ r.asked = {}
    BY <1>0 DEF Records
  <2>6. session[s].dead \subseteq d
    OBVIOUS
  <2> HIDE DEF r, d
  <2>7. /\ session' \in [Anytls!Sessions -> Records] /\ session'[s] = r
        /\ \A x \in Anytls!Sessions : x # s => session'[x] = session[x]
    BY <1>0, <2>2, <2>4, SessionIs
  <2> QED
    BY <2>1, <2>5, <2>6, <2>7 DEF SessionLets
<1> QED
  BY <1>1, <1>2

(* The other steps: hands are taken off sessions, or sessions die.          *)
LEMMA OthersLetGo ==
    ASSUME AnytlsInv,
           \/ \E s \in Anytls!Sessions :
                \/ Anytls!RecvHook(s) /\ Anytls!Decide(s) = "fin"
                \/ Anytls!RecvStreamClosed(s) \/ Anytls!ConnectionDies(s)
                \/ Anytls!LeavePool(s) \/ Anytls!CloseStreams(s) \/ Anytls!CloseOne(s)
           \/ \E aged \in SUBSET idle : Anytls!IdleCleanup(aged)
           \/ Anytls!ClientCancels \/ Anytls!ClientCloses
    PROVE  AnytlsInv'
<1>0. /\ AnytlsType /\ (closer # "no" => done)
      /\ session \in [Anytls!Sessions -> Records]
      /\ recv \in [Anytls!Sessions ->
                     [pc : {"read", "pool", "insert", "fin"}, sid : Nat, fin : BOOLEAN]]
      /\ toClose \subseteq Anytls!Sessions /\ idle \subseteq Anytls!Sessions
  BY DEF AnytlsInv, AnytlsType, CloseInv
(* What is left to show of a step that leaves the users and the closer alone.*)
<1>1. ASSUME session' \in [Anytls!Sessions -> Records],
             recv' \in [Anytls!Sessions ->
                          [pc : {"read", "pool", "insert", "fin"}, sid : Nat, fin : BOOLEAN]],
             idle' \subseteq idle, toClose' \subseteq Anytls!Sessions,
             UNCHANGED <<done, closer, user>>,
             \A r \in Anytls!Sessions : SessionLets(r), \A r \in Anytls!Sessions : RecvLets(r)
      PROVE  AnytlsInv'
  <2>1. AnytlsType'
    BY <1>0, <1>1 DEF AnytlsType
  <2>2. \A u \in Users : UserLets(u)
    BY <1>1 DEF UserLets
  <2> QED
    BY <1>0, <1>1, <2>1, <2>2, Releases
<1>2. recv' = recv => \A r \in Anytls!Sessions : RecvLets(r)
  BY DEF RecvLets
<1>3. ASSUME NEW s \in Anytls!Sessions, Anytls!RecvHook(s), Anytls!Decide(s) = "fin"
      PROVE  AnytlsInv'
  <2>1. /\ recv[s].pc = "pool" /\ recv' = [recv EXCEPT ![s].pc = "fin"]
        /\ session[s].life # "alive" \/ done
        /\ toClose' = IF done /\ session[s].life = "alive" THEN toClose \cup {s} ELSE toClose
        /\ UNCHANGED <<done, closer, idle, session, user>>
    BY <1>3 DEF Anytls!RecvHook, Anytls!Decide, Anytls!GoClose, Anytls!IsClosed
  <2>2. /\ recv' \in [Anytls!Sessions ->
                        [pc : {"read", "pool", "insert", "fin"}, sid : Nat, fin : BOOLEAN]]
        /\ recv'[s].pc = "fin" /\ \A x \in Anytls!Sessions : x # s => recv'[x] = recv[x]
    BY <1>0, <2>1, RecvGoes
  <2>3. toClose \subseteq toClose' /\ toClose' \subseteq Anytls!Sessions
        /\ (session[s].life = "alive" => s \in toClose')
    BY <1>0, <2>1
  <2>4. \A r \in Anytls!Sessions : SessionLets(r)
    BY <2>1, <2>3 DEF SessionLets
  <2>5. \A r \in Anytls!Sessions : RecvLets(r)
    BY <2>1, <2>2, <2>3 DEF RecvLets
  <2> QED
    BY <1>0, <1>1, <2>1, <2>2, <2>3, <2>4, <2>5
<1>4. ASSUME NEW s \in Anytls!Sessions, Anytls!RecvStreamClosed(s) PROVE AnytlsInv'
  <2> DEFINE n == [pc |-> "read", sid |-> 0, fin |-> FALSE]
  <2>1. /\ recv[s].pc = "fin" /\ recv' = [recv EXCEPT ![s] = n]
        /\ session' = session \/ Anytls!ForgetOrDie(s, recv[s].sid)
        /\ UNCHANGED <<done, toClose, closer, idle, user>>
    BY <1>4 DEF Anytls!RecvStreamClosed
  <2>2. n \in [pc : {"read", "pool", "insert", "fin"}, sid : Nat, fin : BOOLEAN] /\ n.pc = "read"
    OBVIOUS
  <2> HIDE DEF n
  <2>3. /\ recv' \in [Anytls!Sessions ->
                        [pc : {"read", "pool", "insert", "fin"}, sid : Nat, fin : BOOLEAN]]
        /\ recv'[s].pc = "read" /\ \A x \in Anytls!Sessions : x # s => recv'[x] = recv[x]
    BY <1>0, <2>1, <2>2, RecvIs
  <2>4. \A r \in Anytls!Sessions : RecvLets(r)
    BY <2>1, <2>3 DEF RecvLets
  <2>5. session' \in [Anytls!Sessions -> Records] /\ \A r \in Anytls!Sessions : SessionLets(r)
    <3>1. CASE session' = session
      BY <1>0, <2>1, <3>1 DEF SessionLets
    <3>2. CASE Anytls!ForgetOrDie(s, recv[s].sid)
      BY <2>1, <3>2, SessionLosesStream
    <3> QED
      BY <2>1, <3>1, <3>2
  <2> QED
    BY <1>0, <1>1, <2>1, <2>3, <2>4, <2>5
<1>5. ASSUME NEW s \in Anytls!Sessions, Anytls!ConnectionDies(s) \/ Anytls!CloseOne(s)
      PROVE  AnytlsInv'
  <2>1. /\ session' = Anytls!Died(s) /\ UNCHANGED <<done, closer, idle, user, recv>>
        /\ toClose' \subseteq toClose /\ toClose \subseteq toClose' \cup {s}
    BY <1>5 DEF Anytls!ConnectionDies, Anytls!CloseOne
  <2>2. \A r \in Anytls!Sessions : r # s /\ r \in toClose => r \in toClose'
    BY <2>1
  <2>3. session' \in [Anytls!Sessions -> Records] /\ \A r \in Anytls!Sessions : SessionLets(r)
    BY <2>1, <2>2, SessionEnds
  <2> QED
    BY <1>0, <1>1, <1>2, <2>1, <2>3
<1>6. ASSUME NEW s \in Anytls!Sessions, Anytls!LeavePool(s) \/ Anytls!CloseStreams(s)
      PROVE  AnytlsInv'
  <2>1. UNCHANGED <<done, toClose, closer, user, recv>>
    BY <1>6 DEF Anytls!LeavePool, Anytls!CloseStreams
  <2>2. /\ session' \in [Anytls!Sessions -> Records] /\ idle' \subseteq idle
        /\ \A r \in Anytls!Sessions : SessionLets(r)
    BY <1>6, SessionCloses
  <2> QED
    BY <1>0, <1>1, <1>2, <2>1, <2>2
<1>7. ASSUME NEW aged \in SUBSET idle, Anytls!IdleCleanup(aged) PROVE AnytlsInv'
  <2>1. PICK out \in SUBSET aged : /\ idle' = idle \ out /\ toClose' = toClose \cup out
                                  /\ UNCHANGED <<done, closer, session, user, recv>>
    BY <1>7 DEF Anytls!IdleCleanup
  <2>2. \A r \in Anytls!Sessions : SessionLets(r)
    BY <2>1 DEF SessionLets
  <2> QED
    BY <1>0, <1>1, <1>2, <2>1, <2>2
<1>8. CASE Anytls!ClientCancels \/ Anytls!ClientCloses
  <2>1. /\ UNCHANGED <<idle, session, user, recv>>
        /\ toClose \subseteq toClose' /\ toClose' \subseteq Anytls!Sessions
        /\ closer' \in {"cancelled", "closing"} /\ done' = TRUE
        /\ closer' = "closing" => \A s \in Anytls!Sessions : Alive(s) => s \in toClose'
    BY <1>0, <1>8 DEF Anytls!ClientCancels, Anytls!ClientCloses, AnytlsType, Alive
  <2>2. AnytlsType'
    BY <1>0, <2>1 DEF AnytlsType
  <2>3. \A s \in Anytls!Sessions : Alive(s)' <=> Alive(s)
    BY <2>1 DEF Alive
  <2>4. \A r \in Anytls!Sessions : SessionLets(r) /\ RecvLets(r)
    BY <2>1 DEF SessionLets, RecvLets
  <2>5. \A u \in Users : UserLets(u)
    BY <2>1 DEF UserLets
  <2>6. closer' = "closing" =>
          closer = "closing" \/ \A s \in Anytls!Sessions : Alive(s)' => s \in toClose'
    BY <2>1, <2>3
  <2> QED
    BY <2>1, <2>2, <2>4, <2>5, <2>6, Releases
<1> QED
  BY <1>3, <1>4, <1>5, <1>6, <1>7, <1>8

LEMMA AnytlsStep == AnytlsInv /\ [CoreNext]_allVars => AnytlsInv'
<1> SUFFICES ASSUME AnytlsInv, [CoreNext]_allVars PROVE AnytlsInv'
  OBVIOUS
<1>1. CASE UNCHANGED anytlsVars
  <2>1. UNCHANGED <<done, toClose, closer, idle, session, user, recv>>
    BY <1>1 DEF anytlsVars
  <2>2. \A s \in Anytls!Sessions : (Pools(s)' <=> Pools(s)) /\ (Alive(s)' <=> Alive(s))
    BY <2>1 DEF Pools, Alive
  <2>3. \A s \in Anytls!Sessions, u \in Users : Holds(u, s)' <=> Holds(u, s)
    BY <2>1 DEF Holds
  <2>4. AnytlsType' /\ UserInv' /\ AskedInv' /\ CloseInv'
    BY <2>1 DEF AnytlsInv, AnytlsType, UserInv, AskedInv, CloseInv, Alive
  <2>5. NoneInv' /\ HeldInv' /\ OwnedInv'
    BY <2>1, <2>2, <2>3 DEF AnytlsInv, NoneInv, HeldInv, OwnedInv
  <2> QED
    BY <2>4, <2>5 DEF AnytlsInv
<1>2. ASSUME NEW u \in Users,
             \/ Anytls!CreateStream(u) \/ Anytls!GetIdleSession(u) \/ Anytls!CreateSession(u)
             \/ Anytls!OpenStream(u) \/ Anytls!WriteSyn(u) \/ Anytls!Register(u)
             \/ Anytls!CreateFails(u) \/ Anytls!SetDieHook(u) \/ Anytls!CloseStream(u)
             \/ Anytls!Pool(u) \/ Anytls!StreamClosed(u)
      PROVE  AnytlsInv'
  <2>1. CASE Anytls!GetIdleSession(u) \/ Anytls!CreateSession(u)
    BY <2>1, UserLeaves, UserTakes
  <2>2. CASE Anytls!OpenStream(u) \/ Anytls!Register(u) \/ Anytls!CloseStream(u)
    BY <2>2, UserLeaves, UserGoesOn
  <2>3. CASE Anytls!WriteSyn(u)
    <3>1. \/ session' = session /\ Anytls!Go(u, "register")
          \/ session' = Anytls!Died(user[u].s) /\ Anytls!Go(u, "failed")
      BY <2>3 DEF Anytls!WriteSyn
    <3> QED
      BY <2>3, <3>1, UserLeaves, UserGoesOn
  <2>4. CASE Anytls!Pool(u)
    <3>1. Anytls!Decide(user[u].s) \in {"fin", "insert"}
      BY DEF Anytls!Decide
    <3> QED
      BY <2>4, <3>1, UserLeaves, UserGoesOn
  <2>5. CASE Anytls!CreateStream(u) \/ Anytls!CreateFails(u) \/ Anytls!StreamClosed(u)
    BY <2>5, UserLeaves
  <2>6. CASE Anytls!SetDieHook(u)
    BY <2>6, UserGoesOn
  <2> QED
    BY <1>2, <2>1, <2>2, <2>3, <2>4, <2>5, <2>6
<1>3. ASSUME NEW s \in Anytls!Sessions, Anytls!RecvHook(s) PROVE AnytlsInv'
  <2>1. Anytls!Decide(s) \in {"fin", "insert"}
    BY DEF Anytls!Decide
  <2> QED
    BY <1>3, <2>1, RecvDecides, OthersLetGo
<1>4. CASE A(Anytls!Next)
  <2>1. Anytls!Next
    BY <1>4 DEF A
  <2>2. ASSUME NEW u \in Users,
               \/ Anytls!CreateStream(u) \/ Anytls!GetIdleSession(u) \/ Anytls!CreateSession(u)
               \/ Anytls!OpenStream(u) \/ Anytls!WriteSyn(u) \/ Anytls!Register(u)
               \/ Anytls!CreateFails(u) \/ Anytls!SetDieHook(u) \/ Anytls!CloseStream(u)
               \/ Anytls!Pool(u) \/ Anytls!Insert(u) \/ Anytls!StreamClosed(u)
        PROVE  AnytlsInv'
    BY <1>2, <2>2, Inserts
  <2>3. ASSUME NEW s \in Anytls!Sessions,
               \/ \E sid \in 1 .. MaxStreams : Anytls!RecvFin(s, sid) \/ Anytls!RecvRefusal(s, sid)
               \/ Anytls!RecvHook(s) \/ Anytls!RecvInsert(s) \/ Anytls!RecvStreamClosed(s)
               \/ Anytls!ConnectionDies(s)
               \/ Anytls!LeavePool(s) \/ Anytls!CloseStreams(s) \/ Anytls!CloseOne(s)
        PROVE  AnytlsInv'
    BY <1>3, <2>3, ServerEnds, Inserts, OthersLetGo
  <2>4. ASSUME \/ \E aged \in SUBSET idle : Anytls!IdleCleanup(aged)
               \/ Anytls!ClientCancels \/ Anytls!ClientCloses
        PROVE  AnytlsInv'
    BY <2>4, OthersLetGo
  <2> QED
    BY <2>1, <2>2, <2>3, <2>4 DEF Anytls!Next
<1>5. A(Anytls!Next) \/ UNCHANGED anytlsVars
  BY DEF CoreNext, allVars, anytlsVars, D, A, M, L, G, R, N
<1> QED
  BY <1>1, <1>4, <1>5

LEMMA AnytlsImplies == AnytlsInv => SessionsAreSound
<1> SUFFICES ASSUME AnytlsInv PROVE SessionsAreSound
  OBVIOUS
<1>0. /\ user \in [Users -> [pc : Pcs, s : Nat, sid : Nat]]
      /\ toClose \subseteq Anytls!Sessions
  BY DEF AnytlsInv, AnytlsType
<1>1. \A s \in Anytls!Sessions, u \in Users :
        u \in Anytls!Opening(s) \cup Anytls!Serving(s) => Holds(u, s)
  BY DEF Anytls!Opening, Anytls!Serving, Holds
<1>2. \A s \in Anytls!Sessions, u \in Users :
        Holds(u, s) => \/ u \in Anytls!Opening(s) \cup Anytls!Serving(s)
                       \/ user[u].s = s /\ user[u].pc \in {"pool", "insert"}
  BY DEF Anytls!Opening, Anytls!Serving, Holds
<1>3. \A s \in Anytls!Sessions : Anytls!Opening(s) \cup Anytls!Serving(s) \subseteq Users
  BY DEF Anytls!Opening, Anytls!Serving
<1>4. Anytls!OneStreamPerSession
  BY <1>1, <1>3 DEF AnytlsInv, HeldInv, Anytls!OneStreamPerSession
<1>5. ASSUME NEW s \in Anytls!Sessions, session[s].life = "alive", ~session[s].missed
      PROVE  (\E u \in Users : Holds(u, s)) \/ s \in idle \cup toClose \/ recv[s].pc \in {"pool", "insert"}
  BY <1>5 DEF AnytlsInv, OwnedInv, Alive, Pools
<1>6. Anytls!NoOrphan
  BY <1>2, <1>5 DEF Anytls!NoOrphan
<1>7. ASSUME closer = "closing", toClose = {}, \A u \in Users : user[u].pc \in {"idle", "using"},
             NEW s \in Anytls!Sessions, session[s].life = "alive", recv[s].pc # "pool",
             ~session[s].missed
      PROVE  Anytls!Serving(s) # {}
  <2>1. s \notin idle /\ recv[s].pc # "insert"
    BY <1>7 DEF AnytlsInv, CloseInv, Alive
  <2>2. PICK u \in Users : Holds(u, s)
    BY <1>5, <1>7, <2>1
  <2>3. user[u].pc = "using"
    BY <1>7, <2>2 DEF Holds
  <2>4. u \in Anytls!Serving(s)
    BY <2>2, <2>3 DEF Holds, Anytls!Serving
  <2> QED
    BY <2>4
<1>8. Anytls!ClosedClientLeavesNone
  BY <1>7 DEF Anytls!ClosedClientLeavesNone
<1> QED
  BY <1>4, <1>6, <1>8 DEF SessionsAreSound, Anytls!SessionsAreSound

(* No anytls session is shared by two streams, or in the pool under one, and*)
(* none that is alive is forgotten, by the client's Close neither, but one  *)
(* whose stream the server ends before its hook is set; for any number of   *)
(* users, sessions and streams.                                             *)
THEOREM SessionsStaySound == CoreSpec => []SessionsAreSound
<1>1. CoreInit => AnytlsInv
  BY AnytlsInit DEF CoreInit
<1>2. AnytlsInv /\ [CoreNext]_allVars => AnytlsInv'
  BY AnytlsStep
<1>3. AnytlsInv => SessionsAreSound
  BY AnytlsImplies
<1> QED
  BY <1>1, <1>2, <1>3, PTL DEF CoreSpec

(* ---- Listeners. ---------------------------------------------------------*)
Owners == Listen!Kinds \cup Listen!Inbounds
              \cup {Listen!Free, Listen!Other, Listen!Tunnel, Listen!Lost}
Socket == {s \in [addr : Ports \cup {0}, open : BOOLEAN] : s.open => s.addr \in Ports}
Opened2(p) == [addr |-> p, open |-> TRUE]
NetFields == {"held", "lis", "lastTuic", "inbound", "tunnels", "tun", "lastTun"}

NetType(n) ==
    /\ DOMAIN n = NetFields
    /\ n.held \in [Listen!Protos -> [Ports -> Owners]]
    /\ n.lis \in [Listen!Kinds -> [Listen!Protos -> Socket]]
    /\ n.lastTuic \in Ports \cup {0}
    /\ n.inbound \in [Listen!Inbounds -> Socket]
    /\ \A t \in n.tunnels : t[1] \in Listen!Protos /\ t[2] \in Ports

(* Who holds a port has it open in its variable, and the other way round.   *)
ServersHold(n) ==
    \A k \in Listen!Kinds, x \in Listen!Protos, p \in Ports :
        n.held[x][p] = k <=> n.lis[k][x].open /\ n.lis[k][x].addr = p
InboundsHold(n) ==
    \A name \in Listen!Inbounds, p \in Ports :
        /\ n.held["udp"][p] # name
        /\ n.held["tcp"][p] = name <=> n.inbound[name].open /\ n.inbound[name].addr = p
TunnelsHold(n) ==
    /\ \A x \in Listen!Protos, p \in Ports :
         n.held[x][p] = Listen!Tunnel <=> \E t \in n.tunnels : Listen!SamePort(t, <<x, p>>)
    /\ \A t, u \in n.tunnels : Listen!SamePort(t, u) => t = u
Sound(n) == NetType(n) /\ ServersHold(n) /\ InboundsHold(n) /\ TunnelsHold(n)

(* m is n but for the socket of k on x, which is s. *)
Sets(n, m, k, x, s) ==
    /\ DOMAIN m = NetFields
    /\ m.held \in [Listen!Protos -> [Ports -> Owners]]
    /\ m.lis \in [Listen!Kinds -> [Listen!Protos -> Socket]]
    /\ \A y \in Listen!Protos, q \in Ports :
         m.held[y][q] = IF y # x THEN n.held[y][q]
                        ELSE IF s.open /\ s.addr = q THEN k
                        ELSE IF n.held[y][q] = k THEN Listen!Free ELSE n.held[y][q]
    /\ \A j \in Listen!Kinds, y \in Listen!Protos :
         m.lis[j][y] = IF j = k /\ y = x THEN s ELSE n.lis[j][y]
    /\ m.lastTuic = n.lastTuic /\ m.inbound = n.inbound /\ m.tunnels = n.tunnels
    /\ m.tun = n.tun /\ m.lastTun = n.lastTun

(* What happens to the others while k is re-created: nothing. *)
Own(n, m, k) ==
    /\ \A j \in Listen!Kinds, y \in Listen!Protos : j # k => m.lis[j][y] = n.lis[j][y]
    /\ \A y \in Listen!Protos, q \in Ports :
         \/ m.held[y][q] = n.held[y][q]
         \/ n.held[y][q] \in {k, Listen!Free} /\ m.held[y][q] \in {k, Listen!Free, Listen!Lost}
    /\ m.inbound = n.inbound /\ m.tunnels = n.tunnels
    /\ m.tun = n.tun /\ m.lastTun = n.lastTun
    /\ k # "tuic" => m.lastTuic = n.lastTuic

LEMMA OwnersDiffer ==
    /\ Listen!Free \notin Listen!Kinds /\ Listen!Free \notin Listen!Inbounds
    /\ Listen!Other \notin Listen!Kinds /\ Listen!Other \notin Listen!Inbounds
    /\ Listen!Tunnel \notin Listen!Kinds /\ Listen!Tunnel \notin Listen!Inbounds
    /\ Listen!Lost \notin Listen!Kinds /\ Listen!Lost \notin Listen!Inbounds
    /\ Listen!Free # Listen!Tunnel /\ Listen!Free # Listen!Lost /\ Listen!Free # Listen!Other
    /\ Listen!Lost # Listen!Tunnel /\ Listen!Other # Listen!Tunnel /\ Listen!Other # Listen!Lost
    /\ Listen!Kinds \cap Listen!Inbounds = {}
    /\ 0 \notin Ports
BY ListenersAssumption DEF Listen!Sane, Listen!Kinds, Listen!Free, Listen!Other, Listen!Tunnel, Listen!Lost

LEMMA ProtosAre == "tcp" \in Listen!Protos /\ "udp" \in Listen!Protos /\ "tcp" # "udp"
BY DEF Listen!Protos

LEMMA OwnIsTransitive ==
    ASSUME NEW n, NEW m, NEW o, NEW k, k # Listen!Lost, Own(n, m, k), Own(m, o, k)
    PROVE  Own(n, o, k)
<1>1. \A j \in Listen!Kinds, y \in Listen!Protos : j # k => o.lis[j][y] = n.lis[j][y]
  BY DEF Own
<1>2. ASSUME NEW y \in Listen!Protos, NEW q \in Ports
      PROVE  \/ o.held[y][q] = n.held[y][q]
             \/ n.held[y][q] \in {k, Listen!Free} /\ o.held[y][q] \in {k, Listen!Free, Listen!Lost}
  BY <1>2, OwnersDiffer DEF Own
<1>3. /\ o.inbound = n.inbound /\ o.tunnels = n.tunnels
      /\ o.tun = n.tun /\ o.lastTun = n.lastTun
      /\ k # "tuic" => o.lastTuic = n.lastTuic
  BY DEF Own
<1> QED
  BY <1>1, <1>2, <1>3 DEF Own

LEMMA SetsKeeps ==
    ASSUME NEW n, Sound(n), NEW k \in Listen!Kinds, NEW x \in Listen!Protos, NEW s \in Socket,
           s.open => n.held[x][s.addr] \in {k, Listen!Free}, NEW m, Sets(n, m, k, x, s)
    PROVE  Sound(m) /\ Own(n, m, k)
<1> USE OwnersDiffer
<1>1. NetType(m)
  BY DEF Sound, NetType, Sets
<1>2. ASSUME NEW j \in Listen!Kinds, NEW y \in Listen!Protos, NEW p \in Ports
      PROVE  m.held[y][p] = j <=> m.lis[j][y].open /\ m.lis[j][y].addr = p
  <2>1. m.lis[j][y] = IF j = k /\ y = x THEN s ELSE n.lis[j][y]
    BY <1>2 DEF Sets
  <2>2. m.held[y][p] = IF y # x THEN n.held[y][p]
                       ELSE IF s.open /\ s.addr = p THEN k
                       ELSE IF n.held[y][p] = k THEN Listen!Free ELSE n.held[y][p]
    BY <1>2 DEF Sets
  <2>3. n.held[y][p] = j <=> n.lis[j][y].open /\ n.lis[j][y].addr = p
    BY <1>2 DEF Sound, ServersHold
  <2>4. j # Listen!Free
    BY <1>2
  <2>5. s.open /\ s.addr = p /\ y = x => n.held[y][p] \in {k, Listen!Free}
    OBVIOUS
  <2> QED
    BY <2>1, <2>2, <2>3, <2>4, <2>5
<1>3. ServersHold(m)
  BY <1>2 DEF ServersHold
<1>4. ASSUME NEW name \in Listen!Inbounds, NEW p \in Ports, NEW y \in Listen!Protos
      PROVE  m.held[y][p] = name <=> n.held[y][p] = name
  <2>1. m.held[y][p] = IF y # x THEN n.held[y][p]
                       ELSE IF s.open /\ s.addr = p THEN k
                       ELSE IF n.held[y][p] = k THEN Listen!Free ELSE n.held[y][p]
    BY <1>4 DEF Sets
  <2>2. name # Listen!Free /\ name # k
    BY <1>4
  <2> QED
    BY <2>1, <2>2
<1>5. InboundsHold(m)
  <2>1. m.inbound = n.inbound
    BY DEF Sets
  <2>2. ASSUME NEW name \in Listen!Inbounds, NEW p \in Ports
        PROVE  /\ m.held["udp"][p] # name
               /\ m.held["tcp"][p] = name <=> m.inbound[name].open /\ m.inbound[name].addr = p
    <3>1. /\ m.held["udp"][p] = name <=> n.held["udp"][p] = name
          /\ m.held["tcp"][p] = name <=> n.held["tcp"][p] = name
      BY <1>4, <2>2, ProtosAre
    <3>2. /\ n.held["udp"][p] # name
          /\ n.held["tcp"][p] = name <=> n.inbound[name].open /\ n.inbound[name].addr = p
      BY <2>2 DEF Sound, InboundsHold
    <3> QED
      BY <2>1, <3>1, <3>2
  <2> QED
    BY <2>2 DEF InboundsHold
<1>6. ASSUME NEW p \in Ports, NEW y \in Listen!Protos
      PROVE  m.held[y][p] = Listen!Tunnel <=> n.held[y][p] = Listen!Tunnel
  <2>1. m.held[y][p] = IF y # x THEN n.held[y][p]
                       ELSE IF s.open /\ s.addr = p THEN k
                       ELSE IF n.held[y][p] = k THEN Listen!Free ELSE n.held[y][p]
    BY <1>6 DEF Sets
  <2>2. Listen!Tunnel # Listen!Free /\ Listen!Tunnel # k
    OBVIOUS
  <2> QED
    BY <2>1, <2>2
<1>7. TunnelsHold(m)
  BY <1>6 DEF TunnelsHold, Sound, Sets
<1>8. ASSUME NEW j \in Listen!Kinds, NEW y \in Listen!Protos, j # k
      PROVE  m.lis[j][y] = n.lis[j][y]
  BY <1>8 DEF Sets
<1>9. ASSUME NEW p \in Ports, NEW y \in Listen!Protos
      PROVE  \/ m.held[y][p] = n.held[y][p]
             \/ n.held[y][p] \in {k, Listen!Free} /\ m.held[y][p] \in {k, Listen!Free, Listen!Lost}
  <2>1. m.held[y][p] = IF y # x THEN n.held[y][p]
                       ELSE IF s.open /\ s.addr = p THEN k
                       ELSE IF n.held[y][p] = k THEN Listen!Free ELSE n.held[y][p]
    BY <1>9 DEF Sets
  <2> QED
    BY <2>1
<1>10. Own(n, m, k)
  BY <1>8, <1>9 DEF Own, Sets
<1> QED
  BY <1>1, <1>3, <1>5, <1>7, <1>10 DEF Sound

LEMMA ListenSets ==
    ASSUME NEW n, Sound(n), NEW k \in Listen!Kinds, NEW x \in Listen!Protos, NEW p \in Ports,
           ~n.lis[k][x].open, NEW m, m = Listen!Listen(n, k, x, p)
    PROVE  Sets(n, m, k, x, Opened2(p)) /\ Opened2(p) \in Socket
<1> USE OwnersDiffer
<1>0. Opened2(p) \in Socket /\ Opened2(p).open /\ Opened2(p).addr = p
  BY DEF Opened2, Socket
<1> DEFINE s == Opened2(p)
<1>t. NetType(n)
  BY DEF Sound
<1>1. /\ DOMAIN m = NetFields
      /\ m.held = [n.held EXCEPT ![x] = [n.held[x] EXCEPT ![p] = k]]
      /\ m.lis = [n.lis EXCEPT ![k] = [n.lis[k] EXCEPT ![x] = s]]
      /\ m.lastTuic = n.lastTuic /\ m.inbound = n.inbound /\ m.tunnels = n.tunnels
      /\ m.tun = n.tun /\ m.lastTun = n.lastTun
  BY <1>t DEF NetType, NetFields, Listen!Listen, Opened2
<1> HIDE DEF s
<1>2. /\ n.held \in [Listen!Protos -> [Ports -> Owners]] /\ k \in Owners
      /\ n.lis \in [Listen!Kinds -> [Listen!Protos -> Socket]]
  BY <1>t DEF NetType, Owners
<1>3. m.held \in [Listen!Protos -> [Ports -> Owners]]
  BY <1>1, <1>2
<1>4. m.lis \in [Listen!Kinds -> [Listen!Protos -> Socket]]
  BY <1>1, <1>2, <1>0 DEF s
<1>5. \A j \in Listen!Kinds, y \in Listen!Protos :
         m.lis[j][y] = IF j = k /\ y = x THEN s ELSE n.lis[j][y]
  BY <1>1, <1>2
<1>6. ASSUME NEW y \in Listen!Protos, NEW q \in Ports
      PROVE m.held[y][q] = IF y # x THEN n.held[y][q]
                        ELSE IF p = q THEN k
                        ELSE IF n.held[y][q] = k THEN Listen!Free ELSE n.held[y][q]
  <2>1. m.held[y][q] = IF y = x /\ q = p THEN k ELSE n.held[y][q]
    BY <1>1, <1>2, <1>6
  <2>2. y = x => n.held[y][q] # k
    BY <1>6 DEF Sound, ServersHold
  <2> QED
    BY <2>1, <2>2
<1> QED
  BY <1>0, <1>1, <1>3, <1>4, <1>5, <1>6 DEF Sets, s

LEMMA NilIsSocket ==
    Listen!Nil \in Socket /\ ~Listen!Nil.open /\ Listen!Nil.addr = 0
BY DEF Listen!Nil, Socket

LEMMA SocketIs ==
    \A s \in Socket :
        /\ s.addr \in Ports \cup {0} /\ s.open \in BOOLEAN
        /\ s = [addr |-> s.addr, open |-> s.open]
        /\ s.open => s.addr \in Ports /\ s.addr # 0
        /\ s.addr = 0 <=> s = Listen!Nil
        /\ \A p \in Ports : s.open /\ s.addr = p <=> s = Opened2(p)
BY OwnersDiffer DEF Socket, Listen!Nil, Opened2

LEMMA CloseAndForgetSets ==
    ASSUME NEW n, Sound(n), NEW k \in Listen!Kinds, NEW x \in Listen!Protos,
           NEW m, m = Listen!CloseAndForget(n, k, x)
    PROVE  Sets(n, m, k, x, Listen!Nil)
<1> USE OwnersDiffer, NilIsSocket
<1> DEFINE s == n.lis[k][x]
<1>t. NetType(n)
  BY DEF Sound
<1>s. s \in Socket /\ (s.open => s.addr \in Ports)
  BY <1>t, SocketIs DEF NetType
<1>1. /\ DOMAIN m = NetFields
      /\ m.held = IF s.open THEN [n.held EXCEPT ![x] = [n.held[x] EXCEPT ![s.addr] = Listen!Free]]
                  ELSE n.held
      /\ m.lis = [n.lis EXCEPT ![k] = [n.lis[k] EXCEPT ![x] = Listen!Nil]]
      /\ m.lastTuic = n.lastTuic /\ m.inbound = n.inbound /\ m.tunnels = n.tunnels
      /\ m.tun = n.tun /\ m.lastTun = n.lastTun
  <2>1. CASE s.open
    <3>1. PICK c : c = Listen!CloseSocket(n, k, x)
      OBVIOUS
    <3>2. /\ DOMAIN c = NetFields
          /\ c.held = [n.held EXCEPT ![x] = [n.held[x] EXCEPT ![s.addr] = Listen!Free]]
          /\ c.lis = [n.lis EXCEPT ![k] = [n.lis[k] EXCEPT ![x] = [n.lis[k][x] EXCEPT !.open = FALSE]]]
          /\ c.lastTuic = n.lastTuic /\ c.inbound = n.inbound /\ c.tunnels = n.tunnels
          /\ c.tun = n.tun /\ c.lastTun = n.lastTun
      BY <3>1, <2>1, <1>t DEF Listen!CloseSocket, NetType, NetFields
    <3>3. m = [c EXCEPT !.lis[k][x] = Listen!Nil]
      BY <3>1 DEF Listen!CloseAndForget
    <3>4. m.lis = [c.lis EXCEPT ![k] = [c.lis[k] EXCEPT ![x] = Listen!Nil]]
      BY <3>2, <3>3 DEF NetFields
    <3>5. n.lis \in [Listen!Kinds -> [Listen!Protos -> Socket]]
      BY <1>t DEF NetType
    <3>6. c.lis[k] = [n.lis[k] EXCEPT ![x] = [n.lis[k][x] EXCEPT !.open = FALSE]]
      BY <3>2, <3>5
    <3>7. [c.lis[k] EXCEPT ![x] = Listen!Nil] = [n.lis[k] EXCEPT ![x] = Listen!Nil]
      BY <3>5, <3>6
    <3>8. m.lis = [n.lis EXCEPT ![k] = [n.lis[k] EXCEPT ![x] = Listen!Nil]]
      BY <3>2, <3>4, <3>5, <3>7
    <3> QED
      BY <3>2, <3>3, <3>8, <2>1 DEF NetFields
  <2>2. CASE ~s.open
    BY <2>2, <1>t DEF Listen!CloseSocket, Listen!CloseAndForget, NetType, NetFields
  <2> QED
    BY <2>1, <2>2
<1>f. Listen!Free \in Owners
  BY DEF Owners
<1>2. /\ n.held \in [Listen!Protos -> [Ports -> Owners]] /\ Listen!Free \in Owners
      /\ n.lis \in [Listen!Kinds -> [Listen!Protos -> Socket]]
  BY <1>t, <1>f DEF NetType
<1>3. m.held \in [Listen!Protos -> [Ports -> Owners]]
  <2>1. n.held[x] \in [Ports -> Owners]
    BY <1>2
  <2>2. [n.held[x] EXCEPT ![s.addr] = Listen!Free] \in [Ports -> Owners]
    BY <2>1, <1>f
  <2> HIDE DEF s
  <2>3. [n.held EXCEPT ![x] = [n.held[x] EXCEPT ![s.addr] = Listen!Free]]
            \in [Listen!Protos -> [Ports -> Owners]]
    BY <1>2, <2>2
  <2> QED
    BY <1>1, <1>2, <2>3
<1>4. m.lis \in [Listen!Kinds -> [Listen!Protos -> Socket]]
  BY <1>1, <1>2
<1>5. \A j \in Listen!Kinds, y \in Listen!Protos :
         m.lis[j][y] = IF j = k /\ y = x THEN Listen!Nil ELSE n.lis[j][y]
  BY <1>1, <1>2
<1>6. ASSUME NEW y \in Listen!Protos, NEW q \in Ports
      PROVE m.held[y][q] = IF y # x THEN n.held[y][q]
                        ELSE IF n.held[y][q] = k THEN Listen!Free ELSE n.held[y][q]
  <2>1. m.held[y][q] = IF s.open /\ y = x /\ q = s.addr THEN Listen!Free ELSE n.held[y][q]
    BY <1>1, <1>2, <1>6, <1>s
  <2>2. y = x => (n.held[y][q] = k <=> s.open /\ s.addr = q)
    BY <1>6 DEF Sound, ServersHold
  <2> QED
    BY <2>1, <2>2
<1> QED
  BY <1>1, <1>3, <1>4, <1>5, <1>6 DEF Sets

(* What forgetting and opening sockets of k comes to. *)
LEMMA ForgetOtherFacts ==
    ASSUME NEW n, Sound(n), NEW k \in Listen!Kinds, NEW x \in Listen!Protos, NEW p,
           NEW m, m = Listen!ForgetOther(n, k, x, p)
    PROVE  /\ Sound(m) /\ Own(n, m, k) /\ m.lastTuic = n.lastTuic
           /\ m.lis[k][x] = IF n.lis[k][x].addr = p THEN n.lis[k][x] ELSE Listen!Nil
           /\ \A y \in Listen!Protos : y # x => m.lis[k][y] = n.lis[k][y]
<1>1. CASE n.lis[k][x].addr = p
  BY <1>1 DEF Listen!ForgetOther, Own
<1>2. CASE n.lis[k][x].addr # p
  <2>1. m = Listen!CloseAndForget(n, k, x)
    BY <1>2 DEF Listen!ForgetOther
  <2>2. Sets(n, m, k, x, Listen!Nil)
    BY <2>1, CloseAndForgetSets
  <2>3. Sound(m) /\ Own(n, m, k)
    BY <2>2, SetsKeeps, NilIsSocket
  <2> QED
    BY <2>2, <2>3, <1>2 DEF Sets
<1> QED
  BY <1>1, <1>2

LEMMA ListenFacts ==
    ASSUME NEW n, Sound(n), NEW k \in Listen!Kinds, NEW x \in Listen!Protos, NEW p \in Ports,
           ~n.lis[k][x].open, Listen!CanListen(n, x, p), NEW m, m = Listen!Listen(n, k, x, p)
    PROVE  /\ Sound(m) /\ Own(n, m, k) /\ m.lastTuic = n.lastTuic
           /\ m.lis[k][x] = Opened2(p)
           /\ \A y \in Listen!Protos : y # x => m.lis[k][y] = n.lis[k][y] /\ m.held[y] = n.held[y]
<1>1. Sets(n, m, k, x, Opened2(p)) /\ Opened2(p) \in Socket
  BY ListenSets
<1>2. Opened2(p).addr = p
  BY DEF Opened2
<1>3. Sound(m) /\ Own(n, m, k)
  BY <1>1, <1>2, SetsKeeps DEF Listen!CanListen
<1>4. ASSUME NEW y \in Listen!Protos, y # x PROVE m.held[y] = n.held[y]
  BY <1>4 DEF Listen!Listen, Sound, NetType, NetFields
<1> QED
  BY <1>1, <1>3, <1>4 DEF Sets

LEMMA ForgetBothFacts ==
    ASSUME NEW n, Sound(n), NEW k \in Listen!Kinds, NEW p,
           NEW m, m = Listen!ForgetBoth(n, k, p)
    PROVE  /\ Sound(m) /\ Own(n, m, k) /\ m.lastTuic = n.lastTuic
           /\ \A x \in Listen!Protos :
                m.lis[k][x] = IF n.lis[k][x].addr = p THEN n.lis[k][x] ELSE Listen!Nil
<1> USE ProtosAre, OwnersDiffer
<1>1. PICK c : c = Listen!ForgetOther(n, k, "tcp", p)
  OBVIOUS
<1>2. m = Listen!ForgetOther(c, k, "udp", p)
  BY <1>1 DEF Listen!ForgetBoth
<1>3. /\ Sound(c) /\ Own(n, c, k) /\ c.lastTuic = n.lastTuic
      /\ c.lis[k]["tcp"] = IF n.lis[k]["tcp"].addr = p THEN n.lis[k]["tcp"] ELSE Listen!Nil
      /\ c.lis[k]["udp"] = n.lis[k]["udp"]
  <2>1. PICK x \in Listen!Protos : x = "tcp"
    OBVIOUS
  <2>2. /\ Sound(c) /\ Own(n, c, k) /\ c.lastTuic = n.lastTuic
        /\ c.lis[k][x] = IF n.lis[k][x].addr = p THEN n.lis[k][x] ELSE Listen!Nil
        /\ \A y \in Listen!Protos : y # x => c.lis[k][y] = n.lis[k][y]
    BY <1>1, <2>1, ForgetOtherFacts
  <2> QED
    BY <2>1, <2>2
<1>4. /\ Sound(m) /\ Own(c, m, k) /\ m.lastTuic = c.lastTuic
      /\ m.lis[k]["udp"] = IF c.lis[k]["udp"].addr = p THEN c.lis[k]["udp"] ELSE Listen!Nil
      /\ m.lis[k]["tcp"] = c.lis[k]["tcp"]
  <2>1. PICK x \in Listen!Protos : x = "udp"
    OBVIOUS
  <2>2. /\ Sound(m) /\ Own(c, m, k) /\ m.lastTuic = c.lastTuic
        /\ m.lis[k][x] = IF c.lis[k][x].addr = p THEN c.lis[k][x] ELSE Listen!Nil
        /\ \A y \in Listen!Protos : y # x => m.lis[k][y] = c.lis[k][y]
    BY <1>2, <1>3, <2>1, ForgetOtherFacts
  <2> QED
    BY <2>1, <2>2
<1>5. Own(n, m, k)
  BY <1>3, <1>4, OwnIsTransitive
<1>6. \A x \in Listen!Protos : x = "tcp" \/ x = "udp"
  BY DEF Listen!Protos
<1> QED
  BY <1>3, <1>4, <1>5, <1>6

LEMMA ListenBothFacts ==
    ASSUME NEW n, Sound(n), NEW k \in Listen!Kinds, NEW p \in Ports,
           \A x \in Listen!Protos : ~n.lis[k][x].open /\ Listen!CanListen(n, x, p),
           NEW m, m = Listen!ListenBoth(n, k, p)
    PROVE  /\ Sound(m) /\ Own(n, m, k) /\ m.lastTuic = n.lastTuic
           /\ \A x \in Listen!Protos : m.lis[k][x] = Opened2(p)
<1> USE ProtosAre, OwnersDiffer
<1>1. PICK c : c = Listen!Listen(n, k, "tcp", p)
  OBVIOUS
<1>2. m = Listen!Listen(c, k, "udp", p)
  BY <1>1 DEF Listen!ListenBoth
<1>3. /\ Sound(c) /\ Own(n, c, k) /\ c.lastTuic = n.lastTuic
      /\ c.lis[k]["tcp"] = Opened2(p)
      /\ c.lis[k]["udp"] = n.lis[k]["udp"]
      /\ c.held["udp"] = n.held["udp"]
  <2>1. PICK x \in Listen!Protos : x = "tcp"
    OBVIOUS
  <2>2. /\ Sound(c) /\ Own(n, c, k) /\ c.lastTuic = n.lastTuic
        /\ c.lis[k][x] = Opened2(p)
        /\ \A y \in Listen!Protos : y # x => c.lis[k][y] = n.lis[k][y] /\ c.held[y] = n.held[y]
    BY <1>1, <2>1, ListenFacts
  <2> QED
    BY <2>1, <2>2
<1>4. /\ Sound(m) /\ Own(c, m, k) /\ m.lastTuic = c.lastTuic
      /\ m.lis[k]["udp"] = Opened2(p)
      /\ m.lis[k]["tcp"] = c.lis[k]["tcp"]
  <2>1. PICK x \in Listen!Protos : x = "udp"
    OBVIOUS
  <2>3. ~c.lis[k][x].open /\ Listen!CanListen(c, x, p)
    BY <1>3, <2>1 DEF Listen!CanListen
  <2>2. /\ Sound(m) /\ Own(c, m, k) /\ m.lastTuic = c.lastTuic
        /\ m.lis[k][x] = Opened2(p)
        /\ \A y \in Listen!Protos : y # x => m.lis[k][y] = c.lis[k][y] /\ m.held[y] = c.held[y]
    BY <1>2, <1>3, <2>1, <2>3, ListenFacts
  <2> QED
    BY <2>1, <2>2
<1>5. Own(n, m, k)
  BY <1>3, <1>4, OwnIsTransitive
<1>6. \A x \in Listen!Protos : x = "tcp" \/ x = "udp"
  BY DEF Listen!Protos
<1> QED
  BY <1>3, <1>4, <1>5, <1>6

(* ---- The functions ReCreate. --------------------------------------------*)
Single == {"http", "vmess"}
Double == {"socks", "mixed", "ss"}

(* A UDP socket is never without the TCP one of its port, nor the other way *)
(* round where both are needed.                                             *)
Paired(n, k) ==
    /\ k # "tuic" => n.lis[k]["udp"].addr = 0 \/ n.lis[k]["udp"].addr = n.lis[k]["tcp"].addr
    /\ k \in Single => n.lis[k]["udp"].addr = 0
    /\ k \in Double => ~n.lis[k]["tcp"].open \/ n.lis[k]["udp"].addr = n.lis[k]["tcp"].addr
    /\ k = "tuic" => n.lis[k]["tcp"].addr = 0
    /\ k = "tuic" => ~n.lis[k]["udp"].open \/ n.lastTuic = n.lis[k]["udp"].addr

Leads(k) == IF k = "tuic" THEN "udp" ELSE "tcp"

(* m is n after the server k was re-created for p: it is open at p or not at *)
(* all, and stays open if it was so.                                        *)
ReCreated(n, m, k, p) ==
    /\ Sound(m) /\ Own(n, m, k) /\ Paired(m, k)
    /\ \A x \in Listen!Protos : m.lis[k][x].open => m.lis[k][x].addr = p
    /\ n.lis[k][Leads(k)].addr = p =>
         \A x \in Listen!Protos : n.lis[k][x].open => m.lis[k][x] = n.lis[k][x]

LEMMA SocketTypes ==
    ASSUME NEW n, Sound(n), NEW k \in Listen!Kinds, NEW x \in Listen!Protos
    PROVE  n.lis[k][x] \in Socket
BY DEF Sound, NetType

LEMMA OpenedIs == \A p \in Ports : Opened2(p) \in Socket /\ Opened2(p).open /\ Opened2(p).addr = p
BY DEF Opened2, Socket

LEMMA XProtos == \A x \in Listen!Protos : x = "tcp" \/ x = "udp"
BY DEF Listen!Protos

LEMMA OneReCreated ==
    ASSUME NEW n, Sound(n), NEW k \in Listen!Kinds, Paired(n, k), k \in Single \cup {"tuic"},
           NEW p \in Ports \cup {0}, NEW m, m = Listen!ReCreateOne(n, k, Leads(k), p)
    PROVE  /\ Sound(m) /\ Own(n, m, k)
           /\ \A x \in Listen!Protos : m.lis[k][x].open => m.lis[k][x].addr = p
           /\ \A x \in Listen!Protos : x # Leads(k) => m.lis[k][x] = n.lis[k][x]
           /\ n.lis[k][Leads(k)].addr = p => m.lis[k][Leads(k)] = n.lis[k][Leads(k)]
<1> USE OwnersDiffer, ProtosAre, NilIsSocket
<1>0. PICK z \in Listen!Protos : z = Leads(k)
  BY DEF Leads
<1>1. PICK c : c = Listen!ForgetOther(n, k, z, p)
  OBVIOUS
<1>2. /\ Sound(c) /\ Own(n, c, k)
      /\ c.lis[k][z] = IF n.lis[k][z].addr = p THEN n.lis[k][z] ELSE Listen!Nil
      /\ \A y \in Listen!Protos : y # z => c.lis[k][y] = n.lis[k][y]
  BY <1>1, ForgetOtherFacts
<1>3. \A y \in Listen!Protos : y # z => ~n.lis[k][y].open
  <2>1. \A y \in Listen!Protos : y # z => n.lis[k][y].addr = 0
    BY <1>0, XProtos DEF Paired, Leads, Single
  <2> QED
    BY <2>1, SocketTypes, SocketIs
<1>4. CASE c.lis[k][z].addr = p \/ p = 0 \/ ~Listen!CanListen(c, z, p)
  <2>1. m = c
    BY <1>0, <1>1, <1>4 DEF Listen!ReCreateOne
  <2> QED
    BY <1>0, <1>2, <1>3, <2>1
<1>5. CASE ~(c.lis[k][z].addr = p \/ p = 0 \/ ~Listen!CanListen(c, z, p))
  <2>1. m = Listen!Listen(c, k, z, p)
    BY <1>0, <1>1, <1>5 DEF Listen!ReCreateOne
  <2>2. c.lis[k][z] = Listen!Nil /\ n.lis[k][z].addr # p
    BY <1>2, <1>5
  <2>3. p \in Ports /\ Listen!CanListen(c, z, p) /\ ~c.lis[k][z].open
    BY <1>5, <2>2
  <2>4. /\ Sound(m) /\ Own(c, m, k)
        /\ m.lis[k][z] = Opened2(p)
        /\ \A y \in Listen!Protos : y # z => m.lis[k][y] = c.lis[k][y]
    BY <1>2, <2>1, <2>3, ListenFacts
  <2>5. Own(n, m, k)
    BY <1>2, <2>4, OwnIsTransitive
  <2> QED
    BY <1>0, <1>2, <1>3, <2>2, <2>3, <2>4, <2>5, OpenedIs
<1> QED
  BY <1>4, <1>5

LEMMA SingleReCreated ==
    ASSUME NEW n, Sound(n), NEW k \in Single, Paired(n, k),
           NEW p \in Ports \cup {0}, NEW m, m = Listen!ReCreateOne(n, k, "tcp", p)
    PROVE  ReCreated(n, m, k, p)
<1> USE OwnersDiffer, ProtosAre
<1>0. Leads(k) = "tcp" /\ k \in Listen!Kinds /\ k # "tuic" /\ k \notin Double
  BY DEF Leads, Single, Double, Listen!Kinds
<1>1. /\ Sound(m) /\ Own(n, m, k)
      /\ \A x \in Listen!Protos : m.lis[k][x].open => m.lis[k][x].addr = p
      /\ \A x \in Listen!Protos : x # Leads(k) => m.lis[k][x] = n.lis[k][x]
      /\ n.lis[k][Leads(k)].addr = p => m.lis[k][Leads(k)] = n.lis[k][Leads(k)]
  BY <1>0, OneReCreated
<1>2. Paired(m, k)
  BY <1>0, <1>1 DEF Paired
<1> QED
  BY <1>0, <1>1, <1>2, XProtos DEF ReCreated

LEMMA TuicReCreated ==
    ASSUME NEW n, Sound(n), Paired(n, "tuic"),
           NEW p \in Ports \cup {0}, NEW m, m = Listen!ReCreateTuic(n, p)
    PROVE  ReCreated(n, m, "tuic", p)
<1> USE OwnersDiffer, ProtosAre
<1>0. PICK k \in Listen!Kinds : k = "tuic"
  BY DEF Listen!Kinds
<1>1. Leads(k) = "udp" /\ k \notin Single /\ k \notin Double
  BY <1>0 DEF Leads, Single, Double
<1>2. PICK c : c = Listen!ReCreateOne(n, k, "udp", p)
  OBVIOUS
<1>3. /\ Sound(c) /\ Own(n, c, k)
      /\ \A x \in Listen!Protos : c.lis[k][x].open => c.lis[k][x].addr = p
      /\ \A x \in Listen!Protos : x # Leads(k) => c.lis[k][x] = n.lis[k][x]
      /\ n.lis[k][Leads(k)].addr = p => c.lis[k][Leads(k)] = n.lis[k][Leads(k)]
  BY <1>0, <1>1, <1>2, OneReCreated
<1>4. m = [c EXCEPT !.lastTuic = p]
  BY <1>0, <1>2 DEF Listen!ReCreateTuic
<1>5. /\ DOMAIN m = NetFields /\ m.held = c.held /\ m.lis = c.lis /\ m.lastTuic = p
      /\ m.inbound = c.inbound /\ m.tunnels = c.tunnels /\ m.tun = c.tun /\ m.lastTun = c.lastTun
  BY <1>3, <1>4 DEF Sound, NetType, NetFields
<1>6. Sound(m)
  BY <1>3, <1>5 DEF Sound, NetType, ServersHold, InboundsHold, TunnelsHold
<1>7. Own(n, m, k)
  BY <1>0, <1>3, <1>5 DEF Own
<1>8. Paired(m, k)
  BY <1>0, <1>1, <1>3, <1>5 DEF Paired
<1> QED
  BY <1>0, <1>1, <1>3, <1>5, <1>6, <1>7, <1>8, XProtos DEF ReCreated

(* The listeners of another port are forgotten; unless both stay, none is   *)
(* open then.                                                               *)
LEMMA BothForgotten ==
    ASSUME NEW n, Sound(n), NEW k \in Double, Paired(n, k), NEW p \in Ports \cup {0},
           NEW m, m = Listen!ForgetBoth(n, k, p)
    PROVE  /\ Sound(m) /\ Own(n, m, k) /\ Paired(m, k)
           /\ \A x \in Listen!Protos : m.lis[k][x].open => m.lis[k][x].addr = p
           /\ ~Listen!Same(m, k, p) => \A x \in Listen!Protos : ~m.lis[k][x].open
           /\ ~Listen!Same(m, k, p) => m.lis[k]["udp"].addr = 0
           /\ n.lis[k]["tcp"].addr = p =>
                \A x \in Listen!Protos : n.lis[k][x].open => m.lis[k][x] = n.lis[k][x]
           /\ n.lis[k]["tcp"].addr = p =>
                \A x \in Listen!Protos : n.lis[k][x].open => Listen!Same(m, k, p)
<1> USE OwnersDiffer, ProtosAre, NilIsSocket
<1>0. k \in Listen!Kinds /\ k # "tuic" /\ k \notin Single
  BY DEF Single, Double, Listen!Kinds
<1>1. /\ Sound(m) /\ Own(n, m, k)
      /\ \A x \in Listen!Protos :
           m.lis[k][x] = IF n.lis[k][x].addr = p THEN n.lis[k][x] ELSE Listen!Nil
  BY <1>0, ForgetBothFacts
<1> DEFINE nt == n.lis[k]["tcp"]
           nu == n.lis[k]["udp"]
           mt == m.lis[k]["tcp"]
           mu == m.lis[k]["udp"]
<1>2. /\ nt \in Socket /\ nu \in Socket
      /\ mt = IF nt.addr = p THEN nt ELSE Listen!Nil
      /\ mu = IF nu.addr = p THEN nu ELSE Listen!Nil
  BY <1>0, <1>1, SocketTypes
<1>3. /\ nu.addr = 0 \/ nu.addr = nt.addr
      /\ ~nt.open \/ nu.addr = nt.addr
  BY <1>0 DEF Paired
<1>4. Listen!Same(m, k, p) <=> mt.addr = p /\ mu.addr = p
  BY XProtos DEF Listen!Same
<1>5. (\A x \in Listen!Protos : ~m.lis[k][x].open) <=> ~mt.open /\ ~mu.open
  BY XProtos
<1>6. (nt.open => nt.addr # 0) /\ (nu.open => nu.addr # 0)
  BY <1>2, SocketIs
<1>7. /\ mu.addr = 0 \/ mu.addr = mt.addr
      /\ ~mt.open \/ mu.addr = mt.addr
  BY <1>2, <1>3
<1>8. Paired(m, k)
  BY <1>0, <1>7 DEF Paired
<1>9. (mt.open => mt.addr = p) /\ (mu.open => mu.addr = p)
  BY <1>2
<1>10. ~Listen!Same(m, k, p) => ~mt.open /\ ~mu.open /\ mu.addr = 0
  BY <1>2, <1>3, <1>4, <1>6
<1>11. nt.addr = p => (nt.open => mt = nt) /\ (nu.open => mu = nu)
  BY <1>2, <1>3, <1>6
<1>12. nt.addr = p /\ (nt.open \/ nu.open) => Listen!Same(m, k, p)
  BY <1>2, <1>3, <1>4, <1>6
<1> QED
  BY <1>1, <1>5, <1>8, <1>9, <1>10, <1>11, <1>12, XProtos

LEMMA DoubleReCreated ==
    ASSUME NEW n, Sound(n), NEW k \in Double, Paired(n, k), NEW p \in Ports \cup {0},
           NEW c, c = Listen!ForgetBoth(n, k, p), NEW m,
           \/ m = c
           \/ /\ ~Listen!Same(c, k, p) /\ Sound(m) /\ Own(c, m, k)
              /\ \/ m.lis[k]["udp"].addr = 0 /\ ~m.lis[k]["tcp"].open /\ ~m.lis[k]["udp"].open
                 \/ p \in Ports /\ \A x \in Listen!Protos : m.lis[k][x] = Opened2(p)
    PROVE  ReCreated(n, m, k, p)
<1> USE OwnersDiffer, ProtosAre
<1>0. k \in Listen!Kinds /\ k # "tuic" /\ k \notin Single /\ Leads(k) = "tcp"
  BY DEF Single, Double, Listen!Kinds, Leads
<1>1. /\ Sound(c) /\ Own(n, c, k) /\ Paired(c, k)
      /\ \A x \in Listen!Protos : c.lis[k][x].open => c.lis[k][x].addr = p
      /\ n.lis[k]["tcp"].addr = p =>
                \A x \in Listen!Protos : n.lis[k][x].open => c.lis[k][x] = n.lis[k][x]
      /\ n.lis[k]["tcp"].addr = p =>
                \A x \in Listen!Protos : n.lis[k][x].open => Listen!Same(c, k, p)
  BY BothForgotten
<1>2. CASE m = c
  BY <1>0, <1>1, <1>2 DEF ReCreated
<1>3. CASE /\ ~Listen!Same(c, k, p) /\ Sound(m) /\ Own(c, m, k)
           /\ \/ m.lis[k]["udp"].addr = 0 /\ ~m.lis[k]["tcp"].open /\ ~m.lis[k]["udp"].open
              \/ p \in Ports /\ \A x \in Listen!Protos : m.lis[k][x] = Opened2(p)
  <2>1. Own(n, m, k)
    BY <1>0, <1>1, <1>3, OwnIsTransitive
  <2>2. \A x \in Listen!Protos : m.lis[k][x].open => m.lis[k][x].addr = p
    BY <1>3, XProtos, OpenedIs
  <2>3. /\ m.lis[k]["udp"].addr = 0 \/ m.lis[k]["udp"].addr = m.lis[k]["tcp"].addr
        /\ ~m.lis[k]["tcp"].open \/ m.lis[k]["udp"].addr = m.lis[k]["tcp"].addr
    BY <1>3
  <2>4. Paired(m, k)
    BY <1>0, <2>3 DEF Paired
  <2>5. n.lis[k]["tcp"].addr = p => \A x \in Listen!Protos : ~n.lis[k][x].open
    BY <1>1, <1>3
  <2> QED
    BY <1>0, <1>3, <2>1, <2>2, <2>4, <2>5 DEF ReCreated
<1> QED
  BY <1>2, <1>3

LEMMA SocksReCreated ==
    ASSUME NEW n, Sound(n), Paired(n, "socks"), NEW p \in Ports \cup {0},
           NEW m, m = Listen!ReCreateSocks(n, p)
    PROVE  ReCreated(n, m, "socks", p)
<1> USE OwnersDiffer, ProtosAre
<1>0. PICK k \in Double : k = "socks"
  BY DEF Double
<1>k. k \in Listen!Kinds
  BY DEF Double, Listen!Kinds
<1>1. PICK c : c = Listen!ForgetBoth(n, k, p)
  OBVIOUS
<1>2. Sound(c) /\ (~Listen!Same(c, k, p) => \A x \in Listen!Protos : ~c.lis[k][x].open)
  BY <1>0, <1>1, BothForgotten
<1>3. \/ m = c
      \/ /\ m = Listen!ListenBoth(c, k, p) /\ p \in Ports /\ ~Listen!Same(c, k, p)
         /\ \A x \in Listen!Protos : ~c.lis[k][x].open /\ Listen!CanListen(c, x, p)
  BY <1>0, <1>1, <1>2, XProtos DEF Listen!ReCreateSocks
<1>4. \/ m = c
      \/ /\ p \in Ports /\ ~Listen!Same(c, k, p) /\ Sound(m) /\ Own(c, m, k)
         /\ \A x \in Listen!Protos : m.lis[k][x] = Opened2(p)
  BY <1>k, <1>2, <1>3, ListenBothFacts
<1> QED
  BY <1>0, <1>1, <1>4, DoubleReCreated

LEMMA LostIsSound ==
    ASSUME NEW n, Sound(n), NEW k \in Listen!Kinds, NEW p \in Ports, Listen!CanListen(n, "udp", p),
           NEW m, m = [n EXCEPT !.held["udp"][p] = Listen!Lost]
    PROVE  Sound(m) /\ Own(n, m, k) /\ m.lis = n.lis
<1> USE OwnersDiffer, ProtosAre
<1>t. NetType(n)
  BY DEF Sound
<1>l. Listen!Lost \in Owners
  BY DEF Owners
<1>1. /\ DOMAIN m = NetFields
      /\ m.held = [n.held EXCEPT !["udp"] = [n.held["udp"] EXCEPT ![p] = Listen!Lost]]
      /\ m.lis = n.lis
      /\ m.lastTuic = n.lastTuic /\ m.inbound = n.inbound /\ m.tunnels = n.tunnels
      /\ m.tun = n.tun /\ m.lastTun = n.lastTun
  BY <1>t DEF NetType, NetFields
<1>2. n.held \in [Listen!Protos -> [Ports -> Owners]]
  BY <1>t DEF NetType
<1>3. m.held \in [Listen!Protos -> [Ports -> Owners]]
  BY <1>1, <1>2, <1>l
<1>4. NetType(m)
  BY <1>t, <1>1, <1>3 DEF NetType
<1>5. n.held["udp"][p] = Listen!Free
  BY DEF Listen!CanListen
<1>6. \A x \in Listen!Protos, q \in Ports :
        m.held[x][q] = IF x = "udp" /\ q = p THEN Listen!Lost ELSE n.held[x][q]
  BY <1>1, <1>2
<1>7. \A x \in Listen!Protos, q \in Ports, o \in Owners :
        o # Listen!Free /\ o # Listen!Lost => (m.held[x][q] = o <=> n.held[x][q] = o)
  BY <1>5, <1>6
<1>8. \A o \in Listen!Kinds \cup Listen!Inbounds \cup {Listen!Tunnel} :
        o \in Owners /\ o # Listen!Free /\ o # Listen!Lost
  BY DEF Owners
<1>9. ServersHold(m)
  BY <1>1, <1>7, <1>8 DEF Sound, ServersHold
<1>10. InboundsHold(m)
  BY <1>1, <1>7, <1>8 DEF Sound, InboundsHold
<1>11. TunnelsHold(m)
  BY <1>1, <1>7, <1>8 DEF Sound, TunnelsHold
<1>12. Own(n, m, k)
  BY <1>1, <1>5, <1>6 DEF Own
<1> QED
  BY <1>1, <1>4, <1>9, <1>10, <1>11, <1>12 DEF Sound

LEMMA ShadowSocksReCreated ==
    ASSUME NEW n, Sound(n), Paired(n, "ss"), NEW p \in Ports \cup {0},
           NEW m, m = Listen!ReCreateShadowSocks(n, p)
    PROVE  ReCreated(n, m, "ss", p)
<1> USE OwnersDiffer, ProtosAre
<1>0. PICK k \in Double : k = "ss"
  BY DEF Double
<1>k. k \in Listen!Kinds
  BY DEF Double, Listen!Kinds
<1>1. PICK c : c = Listen!ForgetBoth(n, k, p)
  OBVIOUS
<1>2. /\ Sound(c)
      /\ ~Listen!Same(c, k, p) => \A x \in Listen!Protos : ~c.lis[k][x].open
      /\ ~Listen!Same(c, k, p) => c.lis[k]["udp"].addr = 0
  BY <1>0, <1>1, BothForgotten
<1>3. CASE \/ m = c
           \/ /\ m = Listen!ListenBoth(c, k, p) /\ p \in Ports /\ ~Listen!Same(c, k, p)
              /\ \A x \in Listen!Protos : ~c.lis[k][x].open /\ Listen!CanListen(c, x, p)
  <2>4. \/ m = c
        \/ /\ p \in Ports /\ ~Listen!Same(c, k, p) /\ Sound(m) /\ Own(c, m, k)
           /\ \A x \in Listen!Protos : m.lis[k][x] = Opened2(p)
    BY <1>k, <1>2, <1>3, ListenBothFacts
  <2> QED
    BY <1>0, <1>1, <2>4, DoubleReCreated
<1>4. CASE /\ m = [c EXCEPT !.held["udp"][p] = Listen!Lost] /\ p \in Ports
           /\ ~Listen!Same(c, k, p) /\ Listen!CanListen(c, "udp", p)
  <2>1. Sound(m) /\ Own(c, m, k) /\ m.lis = c.lis
    BY <1>k, <1>2, <1>4, LostIsSound
  <2>2. m.lis[k]["udp"].addr = 0 /\ ~m.lis[k]["tcp"].open /\ ~m.lis[k]["udp"].open
    BY <1>2, <1>4, <2>1
  <2> QED
    BY <1>0, <1>1, <1>4, <2>1, <2>2, DoubleReCreated
<1> QED
  BY <1>0, <1>1, <1>2, <1>3, <1>4, XProtos DEF Listen!ReCreateShadowSocks

(* A closed socket may take the place of another. *)
LEMMA ClosedSets ==
    ASSUME NEW n, Sound(n), NEW k \in Listen!Kinds, NEW x \in Listen!Protos, ~n.lis[k][x].open,
           NEW s \in Socket, ~s.open,
           NEW m, DOMAIN m = NetFields, m.held = n.held,
           m.lis \in [Listen!Kinds -> [Listen!Protos -> Socket]],
           \A j \in Listen!Kinds, y \in Listen!Protos :
               m.lis[j][y] = IF j = k /\ y = x THEN s ELSE n.lis[j][y],
           m.lastTuic = n.lastTuic, m.inbound = n.inbound, m.tunnels = n.tunnels,
           m.tun = n.tun, m.lastTun = n.lastTun
    PROVE  Sound(m) /\ Own(n, m, k)
<1> USE OwnersDiffer
<1>1. n.held \in [Listen!Protos -> [Ports -> Owners]]
  BY DEF Sound, NetType
<1>4. \A q \in Ports : n.held[x][q] # k
  BY DEF Sound, ServersHold
<1>5. Sets(n, m, k, x, s)
  BY <1>1, <1>4 DEF Sets
<1> QED
  BY <1>5, SetsKeeps

LEMMA MixedReCreated ==
    ASSUME NEW n, Sound(n), Paired(n, "mixed"), NEW p \in Ports \cup {0},
           NEW m, m = Listen!ReCreateMixed(n, p)
    PROVE  ReCreated(n, m, "mixed", p)
<1> USE OwnersDiffer, ProtosAre, NilIsSocket
<1>0. PICK k \in Double : k = "mixed"
  BY DEF Double
<1>k. k \in Listen!Kinds
  BY DEF Double, Listen!Kinds
<1>1. PICK c : c = Listen!ForgetBoth(n, k, p)
  OBVIOUS
<1>2. /\ Sound(c)
      /\ ~Listen!Same(c, k, p) => \A x \in Listen!Protos : ~c.lis[k][x].open
      /\ ~Listen!Same(c, k, p) => c.lis[k]["udp"].addr = 0
  BY <1>0, <1>1, BothForgotten
<1>t. NetType(c) /\ c.lis \in [Listen!Kinds -> [Listen!Protos -> Socket]]
  BY <1>2 DEF Sound, NetType
<1>3. CASE \/ m = c
           \/ /\ m = Listen!ListenBoth(c, k, p) /\ p \in Ports /\ ~Listen!Same(c, k, p)
              /\ \A x \in Listen!Protos : ~c.lis[k][x].open /\ Listen!CanListen(c, x, p)
  <2>4. \/ m = c
        \/ /\ p \in Ports /\ ~Listen!Same(c, k, p) /\ Sound(m) /\ Own(c, m, k)
           /\ \A x \in Listen!Protos : m.lis[k][x] = Opened2(p)
    BY <1>k, <1>2, <1>3, ListenBothFacts
  <2> QED
    BY <1>0, <1>1, <2>4, DoubleReCreated
<1>4. CASE m = [c EXCEPT !.lis[k]["tcp"] = Listen!Nil] /\ ~Listen!Same(c, k, p)
  <2>1. /\ DOMAIN m = NetFields /\ m.held = c.held
        /\ m.lis = [c.lis EXCEPT ![k] = [c.lis[k] EXCEPT !["tcp"] = Listen!Nil]]
        /\ m.lastTuic = c.lastTuic /\ m.inbound = c.inbound /\ m.tunnels = c.tunnels
        /\ m.tun = c.tun /\ m.lastTun = c.lastTun
    BY <1>4, <1>t DEF NetType, NetFields
  <2>2. ~c.lis[k]["tcp"].open /\ ~c.lis[k]["udp"].open /\ c.lis[k]["udp"].addr = 0
    BY <1>2, <1>4
  <2>3. /\ m.lis \in [Listen!Kinds -> [Listen!Protos -> Socket]]
        /\ \A j \in Listen!Kinds, y \in Listen!Protos :
             m.lis[j][y] = IF j = k /\ y = "tcp" THEN Listen!Nil ELSE c.lis[j][y]
    BY <1>k, <1>t, <2>1
  <2>4. Sound(m) /\ Own(c, m, k)
    <3>1. PICK x \in Listen!Protos : x = "tcp"
      OBVIOUS
    <3> QED
      <4>s. PICK s \in Socket : s = Listen!Nil /\ ~s.open
        OBVIOUS
      <4>1. /\ ~c.lis[k][x].open
            /\ \A j \in Listen!Kinds, y \in Listen!Protos :
                 m.lis[j][y] = IF j = k /\ y = x THEN s ELSE c.lis[j][y]
        BY <2>2, <2>3, <3>1, <4>s
      <4>2. Sound(c) /\ k \in Listen!Kinds /\ m.lis \in [Listen!Kinds -> [Listen!Protos -> Socket]]
        BY <1>k, <1>2, <2>3
      <4>3. /\ DOMAIN m = NetFields /\ m.held = c.held
            /\ m.lastTuic = c.lastTuic /\ m.inbound = c.inbound /\ m.tunnels = c.tunnels
            /\ m.tun = c.tun /\ m.lastTun = c.lastTun
        BY <2>1
      <4> QED
        BY <4>s, <4>1, <4>2, <4>3, ClosedSets
  <2>5. m.lis[k]["tcp"] = Listen!Nil /\ m.lis[k]["udp"] = c.lis[k]["udp"]
    BY <1>k, <2>3
  <2> QED
    BY <1>0, <1>1, <1>4, <2>2, <2>4, <2>5, DoubleReCreated
<1>5. CASE /\ m = [c EXCEPT !.lis[k] = [tcp |-> [addr |-> p, open |-> FALSE], udp |-> Listen!Nil]]
           /\ ~Listen!Same(c, k, p)
  <2>s. PICK s \in Socket : s = [addr |-> p, open |-> FALSE] /\ ~s.open
    <3>1. [addr |-> p, open |-> FALSE] \in Socket
      BY DEF Socket
    <3> QED
      BY <3>1
  <2>1. PICK v : v = [tcp |-> s, udp |-> Listen!Nil]
    OBVIOUS
  <2>v. v \in [Listen!Protos -> Socket] /\ v["tcp"] = s /\ v["udp"] = Listen!Nil
    <3>1. DOMAIN v = Listen!Protos
      BY <2>1 DEF Listen!Protos
    <3>2. v["tcp"] = s /\ v["udp"] = Listen!Nil
      BY <2>1
    <3>3. v = [x \in Listen!Protos |-> IF x = "tcp" THEN s ELSE Listen!Nil]
      BY <2>1 DEF Listen!Protos
    <3> QED
      BY <3>2, <3>3
  <2>2. /\ DOMAIN m = NetFields /\ m.held = c.held
        /\ m.lis = [c.lis EXCEPT ![k] = v]
        /\ m.lastTuic = c.lastTuic /\ m.inbound = c.inbound /\ m.tunnels = c.tunnels
        /\ m.tun = c.tun /\ m.lastTun = c.lastTun
    BY <1>5, <1>t, <2>s, <2>1 DEF NetType, NetFields
  <2>3. ~c.lis[k]["tcp"].open /\ ~c.lis[k]["udp"].open
    BY <1>2, <1>5
  <2>4. PICK w : w = [y \in Listen!Protos |-> IF y = "tcp" THEN s ELSE c.lis[k][y]]
    OBVIOUS
  <2>5. PICK e : e = [c EXCEPT !.lis = [c.lis EXCEPT ![k] = w]]
    OBVIOUS
  <2>6. /\ DOMAIN e = NetFields /\ e.held = c.held
        /\ e.lis = [c.lis EXCEPT ![k] = w]
        /\ e.lastTuic = c.lastTuic /\ e.inbound = c.inbound /\ e.tunnels = c.tunnels
        /\ e.tun = c.tun /\ e.lastTun = c.lastTun
    BY <1>t, <2>5 DEF NetType, NetFields
  <2>7. w \in [Listen!Protos -> Socket]
    BY <1>k, <1>t, <2>4
  <2>8. /\ e.lis \in [Listen!Kinds -> [Listen!Protos -> Socket]]
        /\ \A j \in Listen!Kinds, y \in Listen!Protos :
             e.lis[j][y] = IF j = k /\ y = "tcp" THEN s ELSE c.lis[j][y]
    BY <1>k, <1>t, <2>4, <2>6, <2>7
  <2>9. Sound(e) /\ Own(c, e, k)
    <3>1. PICK x \in Listen!Protos : x = "tcp"
      OBVIOUS
    <3>2. /\ ~c.lis[k][x].open /\ ~s.open /\ s \in Socket
          /\ \A j \in Listen!Kinds, y \in Listen!Protos :
               e.lis[j][y] = IF j = k /\ y = x THEN s ELSE c.lis[j][y]
      BY <2>s, <2>3, <2>8, <3>1
    <3>3. Sound(c) /\ k \in Listen!Kinds /\ e.lis \in [Listen!Kinds -> [Listen!Protos -> Socket]]
      BY <1>k, <1>2, <2>8
    <3>4. /\ DOMAIN e = NetFields /\ e.held = c.held
          /\ e.lastTuic = c.lastTuic /\ e.inbound = c.inbound /\ e.tunnels = c.tunnels
          /\ e.tun = c.tun /\ e.lastTun = c.lastTun
      BY <2>6
    <3> QED
      BY <3>2, <3>3, <3>4, ClosedSets
  <2>10. /\ m.lis \in [Listen!Kinds -> [Listen!Protos -> Socket]]
         /\ \A j \in Listen!Kinds, y \in Listen!Protos :
              m.lis[j][y] = IF j = k /\ y = "udp" THEN Listen!Nil ELSE e.lis[j][y]
    BY <1>k, <1>t, <2>2, <2>v, <2>8, XProtos
  <2>11. Sound(m) /\ Own(e, m, k)
    <3>1. PICK x \in Listen!Protos : x = "udp"
      OBVIOUS
    <3> QED
      <4>1. /\ ~e.lis[k][x].open
            /\ \A j \in Listen!Kinds, y \in Listen!Protos :
                 m.lis[j][y] = IF j = k /\ y = x THEN Listen!Nil ELSE e.lis[j][y]
        BY <1>k, <2>3, <2>8, <2>10, <3>1
      <4>2. Sound(e) /\ k \in Listen!Kinds /\ m.lis \in [Listen!Kinds -> [Listen!Protos -> Socket]]
        BY <1>k, <2>9, <2>10
      <4>3. /\ DOMAIN m = NetFields /\ m.held = e.held
            /\ m.lastTuic = e.lastTuic /\ m.inbound = e.inbound /\ m.tunnels = e.tunnels
            /\ m.tun = e.tun /\ m.lastTun = e.lastTun
        BY <2>2, <2>6
      <4> QED
        BY <4>1, <4>2, <4>3, ClosedSets
  <2>12. Own(c, m, k)
    BY <1>k, <2>9, <2>11, OwnIsTransitive
  <2>13. m.lis[k]["tcp"] = s /\ m.lis[k]["udp"] = Listen!Nil
    BY <1>k, <1>t, <2>2, <2>v
  <2> QED
    BY <1>0, <1>1, <1>5, <2>s, <2>11, <2>12, <2>13, DoubleReCreated, ZenonT(30)
<1> QED
  BY <1>0, <1>1, <1>2, <1>3, <1>4, <1>5, XProtos DEF Listen!ReCreateMixed

LEMMA RedirReCreated ==
    ASSUME NEW n, Sound(n), NEW k \in {"redir", "tproxy"}, Paired(n, k), NEW p \in Ports \cup {0},
           NEW m, m = Listen!ReCreateRedir(n, k, p)
    PROVE  ReCreated(n, m, k, p)
<1> USE OwnersDiffer, ProtosAre, NilIsSocket
<1>0. k \in Listen!Kinds /\ k # "tuic" /\ k \notin Single /\ k \notin Double /\ Leads(k) = "tcp"
  BY DEF Single, Double, Listen!Kinds, Leads
<1>1. PICK o : o = Listen!CloseAndForget(n, k, "tcp")
  OBVIOUS
<1>2. PICK c : c = Listen!CloseAndForget(o, k, "udp")
  OBVIOUS
<1>3. Sound(o) /\ Own(n, o, k) /\ Sets(n, o, k, "tcp", Listen!Nil)
  <2>1. PICK x \in Listen!Protos : x = "tcp"
    OBVIOUS
  <2>2. Sets(n, o, k, x, Listen!Nil)
    BY <1>0, <1>1, <2>1, CloseAndForgetSets
  <2> QED
    BY <1>0, <2>1, <2>2, SetsKeeps
<1>4. Sound(c) /\ Own(o, c, k) /\ Sets(o, c, k, "udp", Listen!Nil)
  <2>1. PICK x \in Listen!Protos : x = "udp"
    OBVIOUS
  <2>2. Sets(o, c, k, x, Listen!Nil)
    BY <1>0, <1>2, <1>3, <2>1, CloseAndForgetSets
  <2> QED
    BY <1>0, <1>3, <2>1, <2>2, SetsKeeps
<1>5. Own(n, c, k)
  BY <1>0, <1>3, <1>4, OwnIsTransitive
<1>6. c.lis[k]["tcp"] = Listen!Nil /\ c.lis[k]["udp"] = Listen!Nil
  BY <1>0, <1>3, <1>4 DEF Sets
<1> DEFINE nt == n.lis[k]["tcp"]
           nu == n.lis[k]["udp"]
<1>7. nt \in Socket /\ nu \in Socket /\ (nu.addr = 0 \/ nu.addr = nt.addr)
  BY <1>0, SocketTypes DEF Paired
<1>8. nt.addr = p => nt # Listen!Nil \/ (p = 0 /\ ~nt.open /\ ~nu.open)
  BY <1>7, SocketIs
<1>9. CASE nt # Listen!Nil /\ nt.addr = p
  <2>1. m = n
    BY <1>9 DEF Listen!ReCreateRedir
  <2>2. \A x \in Listen!Protos : n.lis[k][x].open => n.lis[k][x].addr = p
    BY <1>7, <1>9, XProtos, SocketIs
  <2> QED
    BY <2>1, <2>2 DEF ReCreated, Own
<1>10. CASE ~(nt # Listen!Nil /\ nt.addr = p)
  <2>1. ~(nu # Listen!Nil /\ nu.addr = p)
    BY <1>7, <1>10, SocketIs
  <2>2. nt.addr = p => \A x \in Listen!Protos : ~n.lis[k][x].open
    BY <1>8, <1>10, XProtos
  <2>3. CASE p = 0 \/ ~Listen!CanListen(c, "tcp", p)
    <3>1. m = c
      BY <1>1, <1>2, <1>10, <2>1, <2>3 DEF Listen!ReCreateRedir
    <3>2. Paired(c, k)
      BY <1>0, <1>6 DEF Paired
    <3> QED
      BY <1>0, <1>4, <1>5, <1>6, <2>2, <3>1, <3>2, XProtos DEF ReCreated
  <2>4. CASE p # 0 /\ Listen!CanListen(c, "tcp", p)
    <3>1. CASE Listen!CanListen(c, "udp", p)
      <4>1. m = Listen!ListenBoth(c, k, p)
        BY <1>1, <1>2, <1>10, <2>1, <2>4, <3>1 DEF Listen!ReCreateRedir
      <4>2. \A x \in Listen!Protos : ~c.lis[k][x].open /\ Listen!CanListen(c, x, p)
        BY <1>6, <2>4, <3>1, XProtos
      <4>3. p \in Ports
        BY <2>4
      <4>4. Sound(m) /\ Own(c, m, k) /\ \A x \in Listen!Protos : m.lis[k][x] = Opened2(p)
        BY <1>0, <1>4, <4>1, <4>2, <4>3, ListenBothFacts
      <4>5. Own(n, m, k)
        BY <1>0, <1>5, <4>4, OwnIsTransitive
      <4>6. Paired(m, k)
        BY <1>0, <4>4 DEF Paired
      <4> QED
        BY <1>0, <2>2, <4>3, <4>4, <4>5, <4>6, OpenedIs DEF ReCreated
    <3>2. CASE ~Listen!CanListen(c, "udp", p)
      <4>1. m = Listen!Listen(c, k, "tcp", p)
        BY <1>1, <1>2, <1>10, <2>1, <2>4, <3>2 DEF Listen!ReCreateRedir
      <4>3. p \in Ports
        BY <2>4
      <4>4. /\ Sound(m) /\ Own(c, m, k)
            /\ m.lis[k]["tcp"] = Opened2(p) /\ m.lis[k]["udp"] = Listen!Nil
        <5>1. PICK x \in Listen!Protos : x = "tcp"
          OBVIOUS
        <5>2. /\ Sound(m) /\ Own(c, m, k) /\ m.lis[k][x] = Opened2(p)
              /\ \A y \in Listen!Protos : y # x => m.lis[k][y] = c.lis[k][y]
          BY <1>0, <1>4, <1>6, <2>4, <4>1, <4>3, <5>1, ListenFacts
        <5> QED
          BY <1>6, <5>1, <5>2
      <4>5. Own(n, m, k)
        BY <1>0, <1>5, <4>4, OwnIsTransitive
      <4>6. Paired(m, k)
        BY <1>0, <4>4 DEF Paired
      <4>7. \A x \in Listen!Protos : m.lis[k][x].open => m.lis[k][x].addr = p
        BY <4>3, <4>4, OpenedIs, XProtos
      <4> QED
        BY <1>0, <2>2, <4>4, <4>5, <4>6, <4>7 DEF ReCreated
    <3> QED
      BY <3>1, <3>2
  <2> QED
    BY <2>3, <2>4
<1> QED
  BY <1>9, <1>10

LEMMA AllReCreated ==
    ASSUME NEW n, Sound(n), NEW k \in Listen!Kinds, Paired(n, k), NEW p \in Ports \cup {0},
           NEW m, m = Listen!ReCreate(n, k, p)
    PROVE  ReCreated(n, m, k, p)
<1>1. CASE k = "http"
  <2>1. m = Listen!ReCreateOne(n, k, "tcp", p) /\ k \in Single
    BY <1>1 DEF Listen!ReCreate, Listen!ReCreateHTTP, Single
  <2> QED
    BY <2>1, SingleReCreated
<1>2. CASE k = "vmess"
  <2>1. m = Listen!ReCreateOne(n, k, "tcp", p) /\ k \in Single
    BY <1>2 DEF Listen!ReCreate, Listen!ReCreateVmess, Single
  <2> QED
    BY <2>1, SingleReCreated
<1>3. CASE k = "tuic"
  <2>1. m = Listen!ReCreateTuic(n, p)
    BY <1>3 DEF Listen!ReCreate
  <2> QED
    BY <1>3, <2>1, TuicReCreated
<1>4. CASE k = "socks"
  <2>1. m = Listen!ReCreateSocks(n, p)
    BY <1>4 DEF Listen!ReCreate
  <2> QED
    BY <1>4, <2>1, SocksReCreated
<1>5. CASE k = "mixed"
  <2>1. m = Listen!ReCreateMixed(n, p)
    BY <1>5 DEF Listen!ReCreate
  <2> QED
    BY <1>5, <2>1, MixedReCreated
<1>6. CASE k = "ss"
  <2>1. m = Listen!ReCreateShadowSocks(n, p)
    BY <1>6 DEF Listen!ReCreate
  <2> QED
    BY <1>6, <2>1, ShadowSocksReCreated
<1>7. CASE k = "redir" \/ k = "tproxy"
  <2>1. m = Listen!ReCreateRedir(n, k, p)
    BY <1>7 DEF Listen!ReCreate, Listen!ReCreateTProxy
  <2> QED
    BY <1>7, <2>1, RedirReCreated
<1> QED
  BY <1>1, <1>2, <1>3, <1>4, <1>5, <1>6, <1>7 DEF Listen!Kinds

(* ---- What is opened and closed beside the servers. ----------------------*)
(* The ports that change hands are those of own, before and after. *)
Beside(n, m, own) ==
    /\ m.lis = n.lis /\ m.lastTuic = n.lastTuic
    /\ \A x \in Listen!Protos, q \in Ports :
         m.held[x][q] = n.held[x][q] \/ (n.held[x][q] \in own /\ m.held[x][q] \in own)

LEMMA PairedBeside ==
    ASSUME NEW n, NEW m, NEW own, Beside(n, m, own), NEW k, Paired(n, k)
    PROVE  Paired(m, k)
BY DEF Beside, Paired

LEMMA TunSound ==
    ASSUME NEW n, Sound(n), NEW conf, NEW starts, NEW m, m = Listen!ReCreateTun(n, conf, starts)
    PROVE  Sound(m) /\ Beside(n, m, {}) /\ m.inbound = n.inbound /\ m.tunnels = n.tunnels
<1>1. CASE m = n
  BY <1>1 DEF Beside
<1>2. CASE m # n
  <2>1. PICK t : m = [n EXCEPT !.tun = t, !.lastTun = t]
    BY <1>2 DEF Listen!ReCreateTun
  <2>2. /\ DOMAIN m = NetFields /\ m.held = n.held /\ m.lis = n.lis /\ m.lastTuic = n.lastTuic
        /\ m.inbound = n.inbound /\ m.tunnels = n.tunnels
    BY <2>1 DEF Sound, NetType, NetFields
  <2> QED
    BY <2>2 DEF Sound, NetType, ServersHold, InboundsHold, TunnelsHold, Beside
<1> QED
  BY <1>1, <1>2

LEMMA ToggleSound ==
    ASSUME NEW n, Sound(n), NEW x \in Listen!Protos, NEW p \in Ports,
           NEW own, own = {Listen!Free, Listen!Other}, n.held[x][p] \in own, NEW o \in own,
           NEW m, m = [n EXCEPT !.held[x][p] = o]
    PROVE  /\ Sound(m) /\ Beside(n, m, own)
           /\ m.inbound = n.inbound /\ m.tunnels = n.tunnels
<1> USE OwnersDiffer
<1>t. NetType(n)
  BY DEF Sound
<1>o. o \in Owners
  BY DEF Owners
<1>1. /\ DOMAIN m = NetFields
      /\ m.held = [n.held EXCEPT ![x] = [n.held[x] EXCEPT ![p] = o]]
      /\ m.lis = n.lis
      /\ m.lastTuic = n.lastTuic /\ m.inbound = n.inbound /\ m.tunnels = n.tunnels
  BY <1>t DEF NetType, NetFields
<1>2. n.held \in [Listen!Protos -> [Ports -> Owners]]
  BY <1>t DEF NetType
<1>3. m.held \in [Listen!Protos -> [Ports -> Owners]]
  BY <1>1, <1>2, <1>o
<1>4. NetType(m)
  BY <1>t, <1>1, <1>3 DEF NetType
<1>6. \A y \in Listen!Protos, q \in Ports :
        m.held[y][q] = IF y = x /\ q = p THEN o ELSE n.held[y][q]
  BY <1>1, <1>2
<1>7. \A y \in Listen!Protos, q \in Ports, w \in Owners :
        w # Listen!Free /\ w # Listen!Other => (m.held[y][q] = w <=> n.held[y][q] = w)
  BY <1>6
<1>8. \A w \in Listen!Kinds \cup Listen!Inbounds \cup {Listen!Tunnel} :
        w \in Owners /\ w # Listen!Free /\ w # Listen!Other
  BY DEF Owners
<1>9. ServersHold(m)
  BY <1>1, <1>7, <1>8 DEF Sound, ServersHold
<1>10. InboundsHold(m)
  BY <1>1, <1>7, <1>8 DEF Sound, InboundsHold
<1>11. TunnelsHold(m)
  BY <1>1, <1>7, <1>8 DEF Sound, TunnelsHold
<1>12. Beside(n, m, own)
  BY <1>1, <1>6 DEF Beside
<1> QED
  BY <1>1, <1>4, <1>9, <1>10, <1>11, <1>12 DEF Sound

(* m is n but for the socket of the inbound listener name, which is s. *)
SetsInbound(n, m, name, s) ==
    /\ DOMAIN m = NetFields
    /\ m.held \in [Listen!Protos -> [Ports -> Owners]]
    /\ m.inbound \in [Listen!Inbounds -> Socket]
    /\ \A y \in Listen!Protos, q \in Ports :
         m.held[y][q] = IF y # "tcp" THEN n.held[y][q]
                        ELSE IF s.open /\ s.addr = q THEN name
                        ELSE IF n.held[y][q] = name THEN Listen!Free ELSE n.held[y][q]
    /\ \A other \in Listen!Inbounds :
         m.inbound[other] = IF other = name THEN s ELSE n.inbound[other]
    /\ m.lis = n.lis /\ m.lastTuic = n.lastTuic /\ m.tunnels = n.tunnels

LEMMA SetsInboundKeeps ==
    ASSUME NEW n, Sound(n), NEW name \in Listen!Inbounds, NEW s \in Socket,
           s.open => n.held["tcp"][s.addr] \in {name, Listen!Free},
           NEW m, SetsInbound(n, m, name, s)
    PROVE  Sound(m) /\ Beside(n, m, {name, Listen!Free})
<1> USE OwnersDiffer, ProtosAre
<1>1. NetType(m)
  BY DEF Sound, NetType, SetsInbound
<1>2. ASSUME NEW y \in Listen!Protos, NEW q \in Ports
      PROVE  /\ m.held[y][q] = IF y # "tcp" THEN n.held[y][q]
                        ELSE IF s.open /\ s.addr = q THEN name
                        ELSE IF n.held[y][q] = name THEN Listen!Free ELSE n.held[y][q]
             /\ y = "tcp" /\ s.open /\ s.addr = q => n.held[y][q] \in {name, Listen!Free}
  BY <1>2 DEF SetsInbound
<1>3. ASSUME NEW y \in Listen!Protos, NEW q \in Ports, NEW o, o # name, o # Listen!Free
      PROVE  m.held[y][q] = o <=> n.held[y][q] = o
  BY <1>2, <1>3
<1>4. ServersHold(m)
  <2>1. ASSUME NEW k \in Listen!Kinds, NEW x \in Listen!Protos, NEW p \in Ports
        PROVE  m.held[x][p] = k <=> m.lis[k][x].open /\ m.lis[k][x].addr = p
    <3>1. k # name /\ k # Listen!Free
      BY <2>1
    <3>2. m.held[x][p] = k <=> n.held[x][p] = k
      BY <1>3, <2>1, <3>1
    <3> QED
      BY <2>1, <3>2 DEF Sound, ServersHold, SetsInbound
  <2> QED
    BY <2>1 DEF ServersHold
<1>5. InboundsHold(m)
  <2>1. ASSUME NEW other \in Listen!Inbounds, NEW p \in Ports
        PROVE  /\ m.held["udp"][p] # other
               /\ m.held["tcp"][p] = other <=> m.inbound[other].open /\ m.inbound[other].addr = p
    <3>0. other # Listen!Free
      BY <2>1
    <3>1. /\ n.held["udp"][p] # other
          /\ n.held["tcp"][p] = other <=> n.inbound[other].open /\ n.inbound[other].addr = p
      BY <2>1 DEF Sound, InboundsHold
    <3>2. m.held["udp"][p] = n.held["udp"][p]
      BY <1>2, <2>1
    <3>3. m.inbound[other] = IF other = name THEN s ELSE n.inbound[other]
      BY <2>1 DEF SetsInbound
    <3>4. m.held["tcp"][p] = IF s.open /\ s.addr = p THEN name
                        ELSE IF n.held["tcp"][p] = name THEN Listen!Free ELSE n.held["tcp"][p]
      BY <1>2, <2>1
    <3>5. s.open /\ s.addr = p => n.held["tcp"][p] \in {name, Listen!Free}
      OBVIOUS
    <3> QED
      BY <3>0, <3>1, <3>2, <3>3, <3>4, <3>5
  <2> QED
    BY <2>1 DEF InboundsHold
<1>6. \A x \in Listen!Protos, p \in Ports :
         m.held[x][p] = Listen!Tunnel <=> n.held[x][p] = Listen!Tunnel
  <2>1. Listen!Tunnel # name
    OBVIOUS
  <2> QED
    BY <1>3, <2>1
<1>7. TunnelsHold(m)
  BY <1>6 DEF Sound, TunnelsHold, SetsInbound
<1>8. Beside(n, m, {name, Listen!Free})
  BY <1>2 DEF Beside, SetsInbound
<1> QED
  BY <1>1, <1>4, <1>5, <1>7, <1>8 DEF Sound

LEMMA PatchInboundSound ==
    ASSUME NEW n, Sound(n), NEW name \in Listen!Inbounds, NEW p \in Ports,
           NEW m, m = Listen!PatchInbound(n, name, p), NEW own, own = {name, Listen!Free}
    PROVE  /\ Sound(m) /\ Beside(n, m, own) /\ m.tunnels = n.tunnels
           /\ \A q \in Ports : m.held["tcp"][q] = name => q = p
<1> USE OwnersDiffer, ProtosAre
<1>t. NetType(n)
  BY DEF Sound
<1>i. n.inbound \in [Listen!Inbounds -> Socket] /\ n.held \in [Listen!Protos -> [Ports -> Owners]]
  BY <1>t DEF NetType
<1>o. Listen!Free \in Owners /\ name \in Owners
  BY DEF Owners
<1>1. PICK was \in Socket : was = n.inbound[name]
  BY <1>i
<1>h. \A q \in Ports : n.held["tcp"][q] = name <=> was.open /\ was.addr = q
  BY <1>1 DEF Sound, InboundsHold
<1>2. PICK c : c = IF was.open
                   THEN [n EXCEPT !.held["tcp"][was.addr] = Listen!Free, !.inbound[name].open = FALSE]
                   ELSE n
  OBVIOUS
<1>3. PICK s \in Socket : s = [was EXCEPT !.open = FALSE] /\ ~s.open /\ s.addr = was.addr
  <2>1. was \in [addr : Ports \cup {0}, open : BOOLEAN]
    BY DEF Socket
  <2>2. /\ [was EXCEPT !.open = FALSE] \in [addr : Ports \cup {0}, open : BOOLEAN]
        /\ ~[was EXCEPT !.open = FALSE].open /\ [was EXCEPT !.open = FALSE].addr = was.addr
    BY <2>1
  <2>3. [was EXCEPT !.open = FALSE] \in Socket
    BY <2>2 DEF Socket
  <2> QED
    BY <2>2, <2>3
<1>4. SetsInbound(n, c, name, s)
  <2>1. CASE was.open
    <3>0. was.addr \in Ports
      BY <2>1, SocketIs
    <3>1. PICK h : h = [n.held["tcp"] EXCEPT ![was.addr] = Listen!Free]
      OBVIOUS
    <3>2. /\ DOMAIN c = NetFields
          /\ c.held = [n.held EXCEPT !["tcp"] = h]
          /\ c.inbound = [n.inbound EXCEPT ![name] = s]
          /\ c.lis = n.lis /\ c.lastTuic = n.lastTuic /\ c.tunnels = n.tunnels
      BY <1>t, <1>1, <1>2, <1>3, <2>1, <3>1 DEF NetType, NetFields
    <3>3. h \in [Ports -> Owners]
      BY <1>i, <1>o, <3>1
    <3>4. c.held \in [Listen!Protos -> [Ports -> Owners]]
      BY <1>i, <3>2, <3>3
    <3>5. c.inbound \in [Listen!Inbounds -> Socket]
      BY <1>i, <3>2
    <3>6. \A other \in Listen!Inbounds :
             c.inbound[other] = IF other = name THEN s ELSE n.inbound[other]
      BY <1>i, <3>2
    <3>7. ASSUME NEW y \in Listen!Protos, NEW q \in Ports
          PROVE  c.held[y][q] = IF y # "tcp" THEN n.held[y][q]
                        ELSE IF n.held[y][q] = name THEN Listen!Free ELSE n.held[y][q]
      <4>1. c.held[y] = IF y = "tcp" THEN h ELSE n.held[y]
        BY <1>i, <3>2
      <4>2. h[q] = IF q = was.addr THEN Listen!Free ELSE n.held["tcp"][q]
        BY <1>i, <3>1
      <4>3. n.held["tcp"][q] = name <=> was.addr = q
        BY <1>h, <2>1
      <4> QED
        BY <4>1, <4>2, <4>3
    <3> QED
      BY <1>3, <3>2, <3>4, <3>5, <3>6, <3>7 DEF SetsInbound
  <2>2. CASE ~was.open
    <3>1. c = n
      BY <1>2, <2>2
    <3>2. s = was
      <4>1. was = [addr |-> was.addr, open |-> was.open] /\ s = [addr |-> s.addr, open |-> s.open]
        BY SocketIs
      <4>2. was.open \in BOOLEAN /\ s.open \in BOOLEAN
        BY SocketIs
      <4> QED
        BY <1>3, <2>2, <4>1, <4>2
    <3>3. \A q \in Ports : n.held["tcp"][q] # name
      BY <1>h, <2>2
    <3> QED
      BY <1>t, <1>1, <1>i, <2>2, <3>1, <3>2, <3>3 DEF SetsInbound, NetType
  <2> QED
    BY <2>1, <2>2
<1>5. Sound(c) /\ Beside(n, c, {name, Listen!Free})
  BY <1>3, <1>4, SetsInboundKeeps
<1>6. c.tunnels = n.tunnels /\ \A q \in Ports : c.held["tcp"][q] # name
  BY <1>3, <1>4 DEF SetsInbound
<1>7. CASE was.addr = p
  <2>1. m = n
    BY <1>1, <1>7 DEF Listen!PatchInbound
  <2> QED
    BY <1>h, <1>7, <2>1 DEF Beside
<1>8. CASE was.addr # p /\ ~Listen!CanListen(c, "tcp", p)
  <2>1. m = c
    BY <1>1, <1>2, <1>8 DEF Listen!PatchInbound
  <2> QED
    BY <1>5, <1>6, <2>1
<1>9. CASE was.addr # p /\ Listen!CanListen(c, "tcp", p)
  <2>0. PICK z : z = Opened2(p)
    OBVIOUS
  <2>z. z \in Socket /\ z.open /\ z.addr = p
    BY <2>0, OpenedIs
  <2>1. m = [c EXCEPT !.held["tcp"][p] = name, !.inbound[name] = z]
    BY <1>1, <1>2, <1>9, <2>0 DEF Listen!PatchInbound, Opened2
  <2>2. PICK h : h = [c.held["tcp"] EXCEPT ![p] = name]
    OBVIOUS
  <2>i. c.inbound \in [Listen!Inbounds -> Socket] /\ c.held \in [Listen!Protos -> [Ports -> Owners]]
    BY <1>5 DEF Sound, NetType
  <2>3. /\ DOMAIN m = NetFields
        /\ m.held = [c.held EXCEPT !["tcp"] = h]
        /\ m.inbound = [c.inbound EXCEPT ![name] = z]
        /\ m.lis = c.lis /\ m.lastTuic = c.lastTuic /\ m.tunnels = c.tunnels
    BY <1>5, <2>1, <2>2 DEF Sound, NetType, NetFields
  <2>4. h \in [Ports -> Owners]
    BY <1>o, <2>2, <2>i
  <2>5. m.held \in [Listen!Protos -> [Ports -> Owners]]
    BY <2>3, <2>4, <2>i
  <2>6. m.inbound \in [Listen!Inbounds -> Socket]
    BY <2>3, <2>i, <2>z
  <2>7. \A other \in Listen!Inbounds :
             m.inbound[other] = IF other = name THEN z ELSE c.inbound[other]
    BY <2>3, <2>i
  <2>8. ASSUME NEW y \in Listen!Protos, NEW q \in Ports
        PROVE  m.held[y][q] = IF y # "tcp" THEN c.held[y][q]
                        ELSE IF p = q THEN name
                        ELSE IF c.held[y][q] = name THEN Listen!Free ELSE c.held[y][q]
    <3>1. m.held[y] = IF y = "tcp" THEN h ELSE c.held[y]
      BY <2>3, <2>i
    <3>2. h[q] = IF q = p THEN name ELSE c.held["tcp"][q]
      BY <2>2, <2>i
    <3>3. c.held["tcp"][q] # name
      BY <1>6
    <3> QED
      BY <3>1, <3>2, <3>3
  <2>9. SetsInbound(c, m, name, z)
    BY <2>z, <2>3, <2>5, <2>6, <2>7, <2>8 DEF SetsInbound
  <2>10. z.open => c.held["tcp"][z.addr] \in {name, Listen!Free}
    BY <1>9, <2>z DEF Listen!CanListen
  <2>11. Sound(m) /\ Beside(c, m, {name, Listen!Free})
    BY <1>5, <2>z, <2>9, <2>10, SetsInboundKeeps
  <2>12. Beside(n, m, {name, Listen!Free})
    BY <1>5, <2>11 DEF Beside
  <2>13. \A q \in Ports : m.held["tcp"][q] = name => q = p
    BY <1>6, <2>8
  <2> QED
    BY <1>6, <2>3, <2>11, <2>12, <2>13
<1> QED
  BY <1>7, <1>8, <1>9

LEMMA DropInboundSound ==
    ASSUME NEW n, Sound(n), NEW names, NEW m, m = Listen!DropInbound(n, names)
    PROVE  /\ Sound(m) /\ Beside(n, m, Listen!Inbounds \cup {Listen!Free}) /\ m.tunnels = n.tunnels
           /\ \A q \in Ports : m.held["tcp"][q] = n.held["tcp"][q] \/ m.held["tcp"][q] = Listen!Free
           /\ \A q \in Ports : m.held["tcp"][q] \in Listen!Inbounds => m.held["tcp"][q] \in names
<1> USE OwnersDiffer, ProtosAre, NilIsSocket
<1>t. NetType(n)
  BY DEF Sound
<1>i. n.inbound \in [Listen!Inbounds -> Socket] /\ n.held \in [Listen!Protos -> [Ports -> Owners]]
  BY <1>t DEF NetType
<1>o. Listen!Free \in Owners
  BY DEF Owners
<1>1. PICK h : h = [q \in Ports |-> IF n.held["tcp"][q] \in Listen!Inbounds \ names
                                     THEN Listen!Free ELSE n.held["tcp"][q]]
  OBVIOUS
<1>2. /\ DOMAIN m = NetFields
      /\ m.held = [n.held EXCEPT !["tcp"] = h]
      /\ m.inbound = [name \in Listen!Inbounds |-> IF name \in names THEN n.inbound[name] ELSE Listen!Nil]
      /\ m.lis = n.lis /\ m.lastTuic = n.lastTuic /\ m.tunnels = n.tunnels
  BY <1>t, <1>i, <1>1 DEF NetType, NetFields, Listen!DropInbound
<1>3. h \in [Ports -> Owners]
  BY <1>i, <1>o, <1>1
<1>4. m.held \in [Listen!Protos -> [Ports -> Owners]]
  BY <1>i, <1>2, <1>3
<1>5. m.inbound \in [Listen!Inbounds -> Socket]
  BY <1>i, <1>2
<1>6. NetType(m)
  BY <1>t, <1>2, <1>4, <1>5 DEF NetType
<1>7. \A y \in Listen!Protos, q \in Ports :
        m.held[y][q] = IF y = "tcp" /\ n.held[y][q] \in Listen!Inbounds \ names
                       THEN Listen!Free ELSE n.held[y][q]
  BY <1>i, <1>1, <1>2
<1>8. ASSUME NEW y \in Listen!Protos, NEW q \in Ports, NEW o, o \notin Listen!Inbounds, o # Listen!Free
      PROVE  m.held[y][q] = o <=> n.held[y][q] = o
  BY <1>7, <1>8
<1>9. ServersHold(m)
  <2>1. ASSUME NEW k \in Listen!Kinds, NEW x \in Listen!Protos, NEW p \in Ports
        PROVE  m.held[x][p] = k <=> m.lis[k][x].open /\ m.lis[k][x].addr = p
    <3>1. k \notin Listen!Inbounds /\ k # Listen!Free
      BY <2>1
    <3>2. m.held[x][p] = k <=> n.held[x][p] = k
      BY <1>8, <2>1, <3>1
    <3> QED
      BY <1>2, <2>1, <3>2 DEF Sound, ServersHold
  <2> QED
    BY <2>1 DEF ServersHold
<1>10. InboundsHold(m)
  <2>1. ASSUME NEW name \in Listen!Inbounds, NEW p \in Ports
        PROVE  /\ m.held["udp"][p] # name
               /\ m.held["tcp"][p] = name <=> m.inbound[name].open /\ m.inbound[name].addr = p
    <3>1. /\ n.held["udp"][p] # name
          /\ n.held["tcp"][p] = name <=> n.inbound[name].open /\ n.inbound[name].addr = p
      BY <2>1 DEF Sound, InboundsHold
    <3>2. m.held["udp"][p] = n.held["udp"][p]
      BY <1>7, <2>1
    <3>3. m.inbound[name] = IF name \in names THEN n.inbound[name] ELSE Listen!Nil
      BY <1>2, <2>1
    <3>4. m.held["tcp"][p] = name <=> n.held["tcp"][p] = name /\ name \in names
      BY <1>7, <2>1
    <3> QED
      BY <3>1, <3>2, <3>3, <3>4
  <2> QED
    BY <2>1 DEF InboundsHold
<1>11. \A x \in Listen!Protos, p \in Ports :
         m.held[x][p] = Listen!Tunnel <=> n.held[x][p] = Listen!Tunnel
  BY <1>8
<1>12. TunnelsHold(m)
  BY <1>2, <1>11 DEF Sound, TunnelsHold
<1>13. Beside(n, m, Listen!Inbounds \cup {Listen!Free})
  BY <1>2, <1>7 DEF Beside
<1>14. \A q \in Ports : m.held["tcp"][q] \in Listen!Inbounds => m.held["tcp"][q] \in names
  BY <1>7
<1>15. \A q \in Ports : m.held["tcp"][q] = n.held["tcp"][q] \/ m.held["tcp"][q] = Listen!Free
  BY <1>7
<1> QED
  BY <1>2, <1>6, <1>9, <1>10, <1>12, <1>13, <1>14, <1>15 DEF Sound

(* Ports that change hands between a tunnel and nobody, for the tunnels set.*)
SetsTunnels(n, m, set) ==
    /\ DOMAIN m = NetFields
    /\ m.held \in [Listen!Protos -> [Ports -> Owners]]
    /\ \A x \in Listen!Protos, q \in Ports :
         \/ m.held[x][q] = n.held[x][q]
         \/ n.held[x][q] \in {Listen!Tunnel, Listen!Free} /\ m.held[x][q] \in {Listen!Tunnel, Listen!Free}
    /\ \A x \in Listen!Protos, q \in Ports :
         m.held[x][q] = Listen!Tunnel <=> \E t \in set : Listen!SamePort(t, <<x, q>>)
    /\ m.tunnels = set
    /\ m.lis = n.lis /\ m.lastTuic = n.lastTuic /\ m.inbound = n.inbound

LEMMA SetsTunnelsKeeps ==
    ASSUME NEW n, Sound(n), NEW set,
           \A t \in set : t[1] \in Listen!Protos /\ t[2] \in Ports,
           \A t, u \in set : Listen!SamePort(t, u) => t = u,
           NEW m, SetsTunnels(n, m, set)
    PROVE  Sound(m) /\ Beside(n, m, {Listen!Tunnel, Listen!Free})
<1> USE OwnersDiffer, ProtosAre
<1>1. NetType(m)
  BY DEF Sound, NetType, SetsTunnels
<1>2. ASSUME NEW y \in Listen!Protos, NEW q \in Ports, NEW o, o # Listen!Tunnel, o # Listen!Free
      PROVE  m.held[y][q] = o <=> n.held[y][q] = o
  BY <1>2 DEF SetsTunnels
<1>3. ServersHold(m)
  <2>1. ASSUME NEW k \in Listen!Kinds, NEW x \in Listen!Protos, NEW p \in Ports
        PROVE  m.held[x][p] = k <=> m.lis[k][x].open /\ m.lis[k][x].addr = p
    <3>1. k # Listen!Tunnel /\ k # Listen!Free
      BY <2>1
    <3>2. m.held[x][p] = k <=> n.held[x][p] = k
      BY <1>2, <2>1, <3>1
    <3> QED
      BY <2>1, <3>2 DEF Sound, ServersHold, SetsTunnels
  <2> QED
    BY <2>1 DEF ServersHold
<1>4. InboundsHold(m)
  <2>1. ASSUME NEW name \in Listen!Inbounds, NEW p \in Ports
        PROVE  /\ m.held["udp"][p] # name
               /\ m.held["tcp"][p] = name <=> m.inbound[name].open /\ m.inbound[name].addr = p
    <3>1. name # Listen!Tunnel /\ name # Listen!Free
      BY <2>1
    <3>2. /\ m.held["udp"][p] = name <=> n.held["udp"][p] = name
          /\ m.held["tcp"][p] = name <=> n.held["tcp"][p] = name
      BY <1>2, <2>1, <3>1
    <3>3. m.inbound = n.inbound
      BY DEF SetsTunnels
    <3> QED
      BY <2>1, <3>2, <3>3 DEF Sound, InboundsHold
  <2> QED
    BY <2>1 DEF InboundsHold
<1>5. TunnelsHold(m)
  BY DEF TunnelsHold, SetsTunnels
<1>6. Beside(n, m, {Listen!Tunnel, Listen!Free})
  BY DEF Beside, SetsTunnels
<1> QED
  BY <1>1, <1>3, <1>4, <1>5, <1>6 DEF Sound

LEMMA PatchTunnelSound ==
    ASSUME NEW n, Sound(n), NEW new, \A t \in new : t[1] \in Listen!Protos /\ t[2] \in Ports,
           NEW m \in Listen!PatchTunnel(n, new)
    PROVE  /\ Sound(m) /\ Beside(n, m, {Listen!Tunnel, Listen!Free}) /\ m.inbound = n.inbound
           /\ m.tunnels \subseteq new
<1> USE OwnersDiffer, ProtosAre
<1>1. PICK close : close = n.tunnels \ new
  OBVIOUS
<1>2. PICK c : c = Listen!CloseTunnels(n, close)
  OBVIOUS
<1>3. PICK able : able = Listen!Startable(c, new)
  OBVIOUS
<1>4. PICK made \in Listen!Started(able) : m = Listen!OpenTunnels(c, made)
  BY <1>1, <1>2, <1>3 DEF Listen!PatchTunnel
<1>t. NetType(n)
  BY DEF Sound
<1>o. Listen!Free \in Owners /\ Listen!Tunnel \in Owners
  BY DEF Owners
<1>5. /\ DOMAIN c = NetFields
      /\ c.tunnels = n.tunnels \ close
      /\ c.held = [x \in Listen!Protos |-> [p \in Ports |->
                     IF \E t \in close : Listen!SamePort(t, <<x, p>>) THEN Listen!Free ELSE n.held[x][p]]]
      /\ c.lis = n.lis /\ c.lastTuic = n.lastTuic /\ c.inbound = n.inbound
  BY <1>t, <1>2 DEF NetType, NetFields, Listen!CloseTunnels
<1>6. SetsTunnels(n, c, n.tunnels \ close)
  <2>1. \A x \in Listen!Protos, p \in Ports :
          c.held[x][p] = IF \E t \in close : Listen!SamePort(t, <<x, p>>) THEN Listen!Free ELSE n.held[x][p]
    BY <1>5
  <2>2. c.held \in [Listen!Protos -> [Ports -> Owners]]
    BY <1>t, <1>5, <1>o DEF NetType
  <2>3. ASSUME NEW x \in Listen!Protos, NEW p \in Ports
        PROVE  /\ \/ c.held[x][p] = n.held[x][p]
                  \/ n.held[x][p] = Listen!Tunnel /\ c.held[x][p] = Listen!Free
               /\ c.held[x][p] = Listen!Tunnel <=>
                     \E t \in n.tunnels \ close : Listen!SamePort(t, <<x, p>>)
    <3>1. n.held[x][p] = Listen!Tunnel <=> \E t \in n.tunnels : Listen!SamePort(t, <<x, p>>)
      BY <2>3 DEF Sound, TunnelsHold
    <3>2. \A t, u \in n.tunnels : Listen!SamePort(t, u) => t = u
      BY DEF Sound, TunnelsHold
    <3>3. \A t, u : Listen!SamePort(t, <<x, p>>) /\ Listen!SamePort(u, <<x, p>>) => Listen!SamePort(t, u)
      BY DEF Listen!SamePort
    <3>4. CASE \E t \in close : Listen!SamePort(t, <<x, p>>)
      <4>1. PICK t \in close : Listen!SamePort(t, <<x, p>>)
        BY <3>4
      <4>2. n.held[x][p] = Listen!Tunnel /\ c.held[x][p] = Listen!Free
        BY <1>1, <2>1, <2>3, <3>1, <4>1
      <4>3. ASSUME NEW u \in n.tunnels \ close, Listen!SamePort(u, <<x, p>>) PROVE FALSE
        BY <1>1, <3>2, <3>3, <4>1, <4>3
      <4> QED
        BY <4>2, <4>3
    <3>5. CASE ~ \E t \in close : Listen!SamePort(t, <<x, p>>)
      <4>1. c.held[x][p] = n.held[x][p]
        BY <2>1, <2>3, <3>5
      <4> QED
        BY <3>1, <3>5, <4>1
    <3> QED
      BY <3>4, <3>5
  <2> QED
    BY <1>5, <2>2, <2>3 DEF SetsTunnels
<1>7. Sound(c) /\ Beside(n, c, {Listen!Tunnel, Listen!Free})
  <2>1. /\ \A t \in n.tunnels \ close : t[1] \in Listen!Protos /\ t[2] \in Ports
        /\ \A t, u \in n.tunnels \ close : Listen!SamePort(t, u) => t = u
    BY <1>t DEF NetType, Sound, TunnelsHold
  <2> QED
    BY <1>6, <2>1, SetsTunnelsKeeps
<1>8. /\ made \subseteq able
      /\ \A t, u \in made : Listen!SamePort(t, u) => t = u
  BY DEF Listen!Started
<1>9. \A t \in made : t \in new /\ t \notin c.tunnels /\ c.held[t[1]][t[2]] = Listen!Free
  BY <1>3, <1>8 DEF Listen!Startable, Listen!CanListen
<1>10. /\ DOMAIN m = NetFields
       /\ m.tunnels = c.tunnels \cup made
       /\ m.held = [x \in Listen!Protos |-> [p \in Ports |->
                      IF \E t \in made : Listen!SamePort(t, <<x, p>>) THEN Listen!Tunnel ELSE c.held[x][p]]]
       /\ m.lis = c.lis /\ m.lastTuic = c.lastTuic /\ m.inbound = c.inbound
  BY <1>4, <1>5 DEF NetFields, Listen!OpenTunnels
<1>11. SetsTunnels(c, m, c.tunnels \cup made)
  <2>1. \A x \in Listen!Protos, p \in Ports :
          m.held[x][p] = IF \E t \in made : Listen!SamePort(t, <<x, p>>) THEN Listen!Tunnel ELSE c.held[x][p]
    BY <1>10
  <2>2. m.held \in [Listen!Protos -> [Ports -> Owners]]
    BY <1>7, <1>10, <1>o DEF Sound, NetType
  <2>3. ASSUME NEW x \in Listen!Protos, NEW p \in Ports
        PROVE  /\ \/ m.held[x][p] = c.held[x][p]
                  \/ c.held[x][p] = Listen!Free /\ m.held[x][p] = Listen!Tunnel
               /\ m.held[x][p] = Listen!Tunnel <=>
                     \E t \in c.tunnels \cup made : Listen!SamePort(t, <<x, p>>)
    <3>1. c.held[x][p] = Listen!Tunnel <=> \E t \in c.tunnels : Listen!SamePort(t, <<x, p>>)
      BY <1>7, <2>3 DEF Sound, TunnelsHold
    <3>2. \A t \in made : Listen!SamePort(t, <<x, p>>) => c.held[x][p] = Listen!Free
      BY <1>9 DEF Listen!SamePort
    <3> QED
      BY <2>1, <2>3, <3>1, <3>2
  <2> QED
    BY <1>10, <2>2, <2>3, SMTT(30) DEF SetsTunnels
<1>12. \A t \in c.tunnels \cup made : t[1] \in Listen!Protos /\ t[2] \in Ports
  BY <1>7, <1>9 DEF Sound, NetType
<1>13. ASSUME NEW t \in c.tunnels \cup made, NEW u \in c.tunnels \cup made, Listen!SamePort(t, u)
       PROVE  t = u
  <2>0. t[1] = u[1] /\ t[2] = u[2]
    BY <1>13 DEF Listen!SamePort
  <2>1. \A w \in c.tunnels : c.held[w[1]][w[2]] = Listen!Tunnel
    <3>1. ASSUME NEW w \in c.tunnels PROVE c.held[w[1]][w[2]] = Listen!Tunnel
      <4>1. w[1] \in Listen!Protos /\ w[2] \in Ports
        BY <1>7 DEF Sound, NetType
      <4>2. Listen!SamePort(w, <<w[1], w[2]>>)
        BY DEF Listen!SamePort
      <4> QED
        BY <1>7, <4>1, <4>2 DEF Sound, TunnelsHold
    <3> QED
      BY <3>1
  <2>2. \A v, w \in c.tunnels : Listen!SamePort(v, w) => v = w
    BY <1>7 DEF Sound, TunnelsHold
  <2> QED
    BY <1>8, <1>9, <1>13, <2>0, <2>1, <2>2
<1>14. Sound(m) /\ Beside(c, m, {Listen!Tunnel, Listen!Free})
  BY <1>7, <1>11, <1>12, <1>13, SetsTunnelsKeeps
<1>15. Beside(n, m, {Listen!Tunnel, Listen!Free})
  BY <1>7, <1>14 DEF Beside
<1>16. m.tunnels \subseteq new
  BY <1>1, <1>5, <1>9, <1>10
<1> QED
  BY <1>5, <1>10, <1>14, <1>15, <1>16

(* ---- What a request has done and has still to do. -----------------------*)
Calls == Listen!Kinds \cup {"inbound", "tun", "tunnels"}
ReqFields == {"state", "solo", "force", "conf", "named", "before", "todo", "left"}
Elems(s) == {s[i] : i \in 1 .. Len(s)}
Distinct(s) == \A i, j \in 1 .. Len(s) : s[i] = s[j] => i = j
Ahead(r) == Elems(req[r].todo)
Runs(r) == req[r].state \in {"put", "patch"}

ReqType(r) ==
    /\ DOMAIN req[r] = ReqFields
    /\ req[r].state \in {"idle", "put", "patch", "done"} /\ req[r].solo \in BOOLEAN
    /\ req[r].todo \in Seq(Calls) /\ Distinct(req[r].todo)
    /\ ~Runs(r) => req[r].todo = <<>> /\ ~req[r].solo
    /\ req[r].state = "put" => req[r].conf \in Confs /\ req[r].left \subseteq DOMAIN req[r].conf.inbound
    /\ req[r].state = "patch" =>
         /\ req[r].conf.ports \in [Listen!Kinds -> Ports \cup {0}]
         /\ req[r].conf.tunnels = {} /\ req[r].left = {}
Solo(r) == req[r].solo => \A q \in Requests : q # r => ~Runs(q)

(* What a configuration applied alone has reached: servers, inbound         *)
(* listeners and tunnels whose call is over are as it says.                 *)
SoloPut(r) ==
    req[r].solo /\ req[r].state = "put" =>
        /\ req[r].force =>
             \A k \in Listen!Kinds, x \in Listen!Protos, p \in Ports :
                 k \notin Ahead(r) /\ net.held[x][p] = k => req[r].conf.ports[k] = p
        /\ \A name \in DOMAIN req[r].conf.inbound, p \in Ports :
             name \notin req[r].left /\ net.held["tcp"][p] = name => req[r].conf.inbound[name] = p
        /\ "inbound" \notin Ahead(r) =>
             /\ req[r].left = {}
             /\ \A p \in Ports : net.held["tcp"][p] \in Listen!Inbounds
                                    => net.held["tcp"][p] \in DOMAIN req[r].conf.inbound
        /\ "tunnels" \notin Ahead(r) => net.tunnels \subseteq req[r].conf.tunnels

(* What a patch has kept: a server that it does not name and whose          *)
(* configuration can be parsed is asked for where it is, until its turn     *)
(* comes, and holds what it held.                                           *)
SoloPatch(r) ==
    req[r].solo /\ req[r].state = "patch" =>
        \A k \in Listen!Kinds : k \notin req[r].named \cup Listen!Unparsable =>
            /\ k \in Ahead(r) /\ k # "tuic" => req[r].conf.ports[k] = net.lis[k]["tcp"].addr
            /\ \A x \in Listen!Protos, p \in Ports :
                 req[r].before[x][p] = k => net.held[x][p] = k

ListenersInv ==
    /\ Sound(net) /\ (\A k \in Listen!Kinds : Paired(net, k))
    /\ DOMAIN req = Requests
    /\ \A r \in Requests : ReqType(r) /\ Solo(r) /\ SoloPut(r) /\ SoloPatch(r)

LEMMA TailElems ==
    ASSUME NEW S, NEW s \in Seq(S), s # <<>>, Distinct(s)
    PROVE  /\ Tail(s) \in Seq(S) /\ Distinct(Tail(s))
           /\ Head(s) \in S
           /\ Elems(Tail(s)) = Elems(s) \ {Head(s)} /\ Head(s) \in Elems(s)
<1>0. Len(s) \in Nat /\ Len(s) # 0 /\ Head(s) = s[1] /\ Head(s) \in S
  OBVIOUS
<1>1. Tail(s) \in Seq(S) /\ Len(Tail(s)) = Len(s) - 1
  OBVIOUS
<1>2. \A i \in 1 .. Len(Tail(s)) : Tail(s)[i] = s[i + 1]
  BY <1>0, <1>1
<1>3. Distinct(Tail(s))
  BY <1>0, <1>1, <1>2 DEF Distinct
<1>4. ASSUME NEW e PROVE e \in Elems(Tail(s)) <=> e \in Elems(s) /\ e # Head(s)
  <2>1. ASSUME e \in Elems(Tail(s)) PROVE e \in Elems(s) /\ e # Head(s)
    <3>1. PICK i \in 1 .. Len(Tail(s)) : e = Tail(s)[i]
      BY <2>1 DEF Elems
    <3>2. e = s[i + 1] /\ i + 1 \in 1 .. Len(s) /\ i + 1 # 1 /\ 1 \in 1 .. Len(s)
      BY <1>0, <1>1, <1>2, <3>1
    <3> QED
      BY <1>0, <3>2 DEF Elems, Distinct
  <2>2. ASSUME e \in Elems(s), e # Head(s) PROVE e \in Elems(Tail(s))
    <3>1. PICK i \in 1 .. Len(s) : e = s[i]
      BY <2>2 DEF Elems
    <3>2. i # 1
      BY <1>0, <2>2, <3>1
    <3>3. i - 1 \in 1 .. Len(Tail(s)) /\ Tail(s)[i - 1] = e
      <4>1. i - 1 \in 1 .. Len(Tail(s)) /\ (i - 1) + 1 = i
        BY <1>0, <1>1, <3>1, <3>2
      <4> QED
        BY <1>2, <3>1, <4>1
    <3> QED
      BY <3>3 DEF Elems
  <2> QED
    BY <2>1, <2>2
<1>5. Head(s) \in Elems(s)
  BY <1>0 DEF Elems
<1> QED
  BY <1>0, <1>1, <1>3, <1>4, <1>5

LEMMA ConfIs ==
    \A c \in Confs :
        /\ c.ports \in [Listen!Kinds -> Ports \cup {0}]
        /\ c.inbound \in [DOMAIN c.inbound -> Ports]
        /\ DOMAIN c.inbound \subseteq Listen!Inbounds
        /\ \A t \in c.tunnels : t[1] \in Listen!Protos /\ t[2] \in Ports
BY ListenersAssumption DEF Listen!Sane, Listen!Inbounds

(* While r runs no other request is alone; whatever r does, the others keep.*)
LEMMA OthersKeep ==
    ASSUME ListenersInv, NEW r \in Requests, Runs(r),
           \A q \in Requests : q # r => req'[q] = req[q]
    PROVE  \A q \in Requests : q # r => SoloPut(q)' /\ SoloPatch(q)'
<1> SUFFICES ASSUME NEW q \in Requests, q # r PROVE SoloPut(q)' /\ SoloPatch(q)'
  OBVIOUS
<1>1. ~req[q].solo
  BY DEF ListenersInv, Solo
<1>2. req'[q] = req[q]
  OBVIOUS
<1>3. ~req[q]'.solo
  BY <1>1, <1>2
<1> QED
  BY <1>3 DEF SoloPut, SoloPatch

(* One call of r is over. *)
LEMMA CallOver ==
    ASSUME ListenersInv, NEW r \in Requests, req[r].todo # <<>>,
           req' = [req EXCEPT ![r].todo = Tail(@)]
    PROVE  /\ Runs(r) /\ Head(req[r].todo) \in Calls /\ Head(req[r].todo) \in Ahead(r)
           /\ DOMAIN req' = Requests
           /\ \A q \in Requests : q # r => req'[q] = req[q]
           /\ req'[r].state = req[r].state /\ req'[r].solo = req[r].solo
           /\ req'[r].force = req[r].force /\ req'[r].conf = req[r].conf
           /\ req'[r].named = req[r].named /\ req'[r].before = req[r].before
           /\ req'[r].left = req[r].left
           /\ Ahead(r)' = Ahead(r) \ {Head(req[r].todo)}
           /\ \A q \in Requests : ReqType(q)' /\ Solo(q)'
<1>1. ReqType(r) /\ DOMAIN req = Requests
  BY DEF ListenersInv
<1>2. Runs(r)
  BY <1>1 DEF ReqType
<1>3. PICK s \in Seq(Calls) : s = req[r].todo /\ Distinct(s) /\ s # <<>>
  BY <1>1 DEF ReqType
<1>4. /\ Tail(s) \in Seq(Calls) /\ Distinct(Tail(s)) /\ Head(s) \in Calls
      /\ Elems(Tail(s)) = Elems(s) \ {Head(s)} /\ Head(s) \in Elems(s)
  BY <1>3, TailElems
<1>5. PICK t : t = Tail(s)
  OBVIOUS
<1>6. req' = [req EXCEPT ![r] = [req[r] EXCEPT !.todo = t]]
  BY <1>3, <1>5
<1>7. DOMAIN req' = Requests /\ \A q \in Requests : q # r => req'[q] = req[q]
  BY <1>1, <1>6
<1>8. req'[r] = [req[r] EXCEPT !.todo = t]
  BY <1>1, <1>6
<1>9. /\ DOMAIN req'[r] = ReqFields /\ req'[r].todo = t
      /\ req'[r].state = req[r].state /\ req'[r].solo = req[r].solo
      /\ req'[r].force = req[r].force /\ req'[r].conf = req[r].conf
      /\ req'[r].named = req[r].named /\ req'[r].before = req[r].before
      /\ req'[r].left = req[r].left
  BY <1>1, <1>8 DEF ReqType, ReqFields
<1>10. \A q \in Requests : Runs(q)' <=> Runs(q)
  BY <1>7, <1>9 DEF Runs
<1>11. ReqType(r)'
  BY <1>1, <1>2, <1>4, <1>5, <1>9, <1>10 DEF ReqType, Runs
<1>12. ASSUME NEW q \in Requests, q # r PROVE ReqType(q)'
  <2>1. ReqType(q) /\ req'[q] = req[q]
    BY <1>7, <1>12 DEF ListenersInv
  <2> QED
    BY <2>1 DEF ReqType, Runs
<1>13. ASSUME NEW q \in Requests PROVE Solo(q)'
  <2>1. Solo(q) /\ req'[q].solo = req[q].solo
    BY <1>7, <1>9, <1>13 DEF ListenersInv
  <2> QED
    BY <1>10, <2>1 DEF Solo
<1>14. Ahead(r)' = Ahead(r) \ {Head(req[r].todo)}
  BY <1>3, <1>4, <1>5, <1>9 DEF Ahead
<1>15. Head(req[r].todo) \in Calls /\ Head(req[r].todo) \in Ahead(r)
  BY <1>3, <1>4 DEF Ahead
<1> QED
  BY <1>2, <1>7, <1>9, <1>11, <1>12, <1>13, <1>14, <1>15

(* What the invariant says of the ports, after a step of r. *)
LEMMA ListenersGoOn ==
    ASSUME ListenersInv, NEW r \in Requests, Runs(r),
           DOMAIN req' = Requests, \A q \in Requests : q # r => req'[q] = req[q],
           \A q \in Requests : ReqType(q)' /\ Solo(q)',
           Sound(net'), \A k \in Listen!Kinds : Paired(net', k),
           SoloPut(r)', SoloPatch(r)'
    PROVE  ListenersInv'
<1>1. \A q \in Requests : q # r => SoloPut(q)' /\ SoloPatch(q)'
  BY OthersKeep
<1>2. \A q \in Requests : SoloPut(q)' /\ SoloPatch(q)'
  BY <1>1
<1>3. Sound(net)' /\ \A k \in Listen!Kinds : Paired(net, k)'
  BY DEF Sound, NetType, ServersHold, InboundsHold, TunnelsHold, Paired
<1> QED
  BY <1>2, <1>3 DEF ListenersInv

LEMMA BesideHolds ==
    ASSUME NEW n, NEW m, NEW own, Beside(n, m, own), NEW o, o \notin own,
           NEW x \in Listen!Protos, NEW p \in Ports
    PROVE  m.held[x][p] = o <=> n.held[x][p] = o
BY DEF Beside

LEMMA ServerStep ==
    ASSUME ListenersInv, NEW r \in Requests, req[r].todo # <<>>,
           NEW k \in Listen!Kinds, k = Head(req[r].todo),
           net' = Listen!ReCreate(net, k, Listen!Target(r, k)),
           req' = [req EXCEPT ![r].todo = Tail(@)]
    PROVE  ListenersInv'
<1> USE OwnersDiffer, ProtosAre
<1>1. /\ Runs(r) /\ k \in Ahead(r)
      /\ DOMAIN req' = Requests
      /\ \A q \in Requests : q # r => req'[q] = req[q]
      /\ req'[r].state = req[r].state /\ req'[r].solo = req[r].solo
      /\ req'[r].force = req[r].force /\ req'[r].conf = req[r].conf
      /\ req'[r].named = req[r].named /\ req'[r].before = req[r].before
      /\ req'[r].left = req[r].left
      /\ Ahead(r)' = Ahead(r) \ {k}
      /\ \A q \in Requests : ReqType(q)' /\ Solo(q)'
  BY CallOver
<1>n. PICK n : n = net
  OBVIOUS
<1>m. PICK m : m = net'
  OBVIOUS
<1>2. Sound(n) /\ Paired(n, k) /\ (\A j \in Listen!Kinds : Paired(n, j)) /\ ReqType(r)
  BY <1>n DEF ListenersInv
<1>p. PICK p : p = Listen!Target(r, k)
  OBVIOUS
<1>3. p \in Ports \cup {0}
  <2>1. n.lastTuic \in Ports \cup {0}
    BY <1>2 DEF Sound, NetType
  <2>2. req[r].conf.ports[k] \in Ports \cup {0}
    BY <1>1, <1>2, ConfIs DEF Runs, ReqType
  <2> QED
    BY <1>n, <1>p, <2>1, <2>2 DEF Listen!Target
<1>4. m = Listen!ReCreate(n, k, p)
  BY <1>n, <1>m, <1>p
<1>5. ReCreated(n, m, k, p)
  BY <1>2, <1>3, <1>4, AllReCreated, SMTT(30)
<1>6. Sound(m) /\ Own(n, m, k) /\ Paired(m, k)
  BY <1>5 DEF ReCreated
<1>7. ASSUME NEW j \in Listen!Kinds PROVE Paired(m, j)
  <2>1. CASE j # k
    <3>1. Paired(n, j) /\ m.lis[j]["tcp"] = n.lis[j]["tcp"] /\ m.lis[j]["udp"] = n.lis[j]["udp"]
      BY <1>2, <1>6, <1>7, <2>1 DEF Own
    <3>2. j = "tuic" => m.lastTuic = n.lastTuic
      BY <1>6, <2>1 DEF Own
    <3> QED
      BY <3>1, <3>2 DEF Paired
  <2> QED
    BY <1>6, <2>1
<1>8. ASSUME NEW x \in Listen!Protos, NEW q \in Ports, NEW o,
             o # k, o # Listen!Free, o # Listen!Lost
      PROVE  m.held[x][q] = o <=> n.held[x][q] = o
  BY <1>6, <1>8, SMTT(30) DEF Own
<1>9. ASSUME NEW x \in Listen!Protos, NEW q \in Ports, m.held[x][q] = k
      PROVE  q = p
  <2>1. m.lis[k][x].open /\ m.lis[k][x].addr = q
    BY <1>6, <1>9 DEF Sound, ServersHold
  <2> QED
    BY <1>5, <2>1 DEF ReCreated
<1>10. SoloPut(r)'
  <2> SUFFICES ASSUME req[r].solo, req[r].state = "put"
               PROVE  /\ req[r].force =>
                           \A j \in Listen!Kinds, x \in Listen!Protos, q \in Ports :
                               j \notin Ahead(r)' /\ m.held[x][q] = j => req[r].conf.ports[j] = q
                      /\ \A name \in DOMAIN req[r].conf.inbound, q \in Ports :
                           name \notin req[r].left /\ m.held["tcp"][q] = name => req[r].conf.inbound[name] = q
                      /\ "inbound" \notin Ahead(r)' =>
                           /\ req[r].left = {}
                           /\ \A q \in Ports : m.held["tcp"][q] \in Listen!Inbounds
                                                  => m.held["tcp"][q] \in DOMAIN req[r].conf.inbound
                      /\ "tunnels" \notin Ahead(r)' => m.tunnels \subseteq req[r].conf.tunnels
    BY <1>1, <1>m DEF SoloPut
  <2>1. SoloPut(r)
    BY DEF ListenersInv
  <2>f. req[r].force =>
             \A j \in Listen!Kinds, x \in Listen!Protos, q \in Ports :
                 j \notin Ahead(r) /\ n.held[x][q] = j => req[r].conf.ports[j] = q
    BY <1>n, <2>1 DEF SoloPut
  <2>2. p = req[r].conf.ports[k]
    BY <1>p DEF Listen!Target
  <2>3. ASSUME req[r].force, NEW j \in Listen!Kinds, NEW x \in Listen!Protos, NEW q \in Ports,
               j \notin Ahead(r)', m.held[x][q] = j
        PROVE  req[r].conf.ports[j] = q
    <3>1. CASE j = k
      BY <1>9, <2>2, <2>3, <3>1
    <3>2. CASE j # k
      <4>0. j # Listen!Free /\ j # Listen!Lost
        BY <2>3
      <4>1. n.held[x][q] = j
        BY <1>8, <2>3, <3>2, <4>0
      <4>2. j \notin Ahead(r)
        BY <1>1, <2>3, <3>2
      <4> QED
        BY <2>f, <2>3, <4>1, <4>2
    <3> QED
      BY <3>1, <3>2
  <2>4. \A name \in Listen!Inbounds : name # k /\ name # Listen!Free /\ name # Listen!Lost
    OBVIOUS
  <2>5. DOMAIN req[r].conf.inbound \subseteq Listen!Inbounds
    BY <1>2, ConfIs DEF ReqType
  <2>6. "inbound" # k /\ "tunnels" # k
    BY DEF Listen!Kinds
  <2>7. m.tunnels = n.tunnels
    BY <1>6 DEF Own
  <2>8. ASSUME NEW name \in DOMAIN req[r].conf.inbound, NEW q \in Ports,
               name \notin req[r].left, m.held["tcp"][q] = name
        PROVE  req[r].conf.inbound[name] = q
    <3>1. n.held["tcp"][q] = name
      BY <1>8, <2>4, <2>5, <2>8
    <3> QED
      BY <1>n, <2>1, <2>8, <3>1 DEF SoloPut
  <2>9. ASSUME "inbound" \notin Ahead(r)'
        PROVE  /\ req[r].left = {}
               /\ \A q \in Ports : m.held["tcp"][q] \in Listen!Inbounds
                                       => m.held["tcp"][q] \in DOMAIN req[r].conf.inbound
    <3>1. "inbound" \notin Ahead(r)
      BY <1>1, <2>6, <2>9
    <3>2. /\ req[r].left = {}
          /\ \A q \in Ports : n.held["tcp"][q] \in Listen!Inbounds
                                       => n.held["tcp"][q] \in DOMAIN req[r].conf.inbound
      BY <1>n, <2>1, <3>1 DEF SoloPut
    <3>3. \A q \in Ports : m.held["tcp"][q] \in Listen!Inbounds => m.held["tcp"][q] = n.held["tcp"][q]
      BY <1>8, <2>4, ZenonT(30)
    <3> QED
      BY <3>2, <3>3
  <2>10. "tunnels" \notin Ahead(r)' => m.tunnels \subseteq req[r].conf.tunnels
    BY <1>1, <1>n, <2>1, <2>6, <2>7 DEF SoloPut
  <2> QED
    BY <2>3, <2>8, <2>9, <2>10
<1>11. SoloPatch(r)'
  <2> SUFFICES ASSUME req[r].solo, req[r].state = "patch", NEW j \in Listen!Kinds,
                      j \notin req[r].named \cup Listen!Unparsable
               PROVE  /\ j \in Ahead(r)' /\ j # "tuic" => req[r].conf.ports[j] = m.lis[j]["tcp"].addr
                      /\ \A x \in Listen!Protos, q \in Ports :
                           req[r].before[x][q] = j => m.held[x][q] = j
    BY <1>1, <1>m DEF SoloPatch
  <2>1. /\ j \in Ahead(r) /\ j # "tuic" => req[r].conf.ports[j] = n.lis[j]["tcp"].addr
        /\ \A x \in Listen!Protos, q \in Ports :
                           req[r].before[x][q] = j => n.held[x][q] = j
    <3>1. SoloPatch(r)
      BY DEF ListenersInv
    <3> QED
      BY <1>n, <3>1 DEF SoloPatch
  <2>2. CASE j # k
    <3>1. m.lis[j]["tcp"] = n.lis[j]["tcp"]
      BY <1>6, <2>2 DEF Own
    <3>0. j # Listen!Free /\ j # Listen!Lost
      OBVIOUS
    <3>2. ASSUME NEW x \in Listen!Protos, NEW q \in Ports
          PROVE  m.held[x][q] = j <=> n.held[x][q] = j
      BY <1>8, <2>2, <3>0
    <3> QED
      BY <1>1, <2>1, <3>1, <3>2
  <2>3. CASE j = k
    <3>1. ASSUME NEW x \in Listen!Protos, NEW q \in Ports, req[r].before[x][q] = j
          PROVE  m.held[x][q] = j
      <4>1. n.lis[k][x].open /\ n.lis[k][x].addr = q
        BY <1>2, <2>1, <2>3, <3>1 DEF Sound, ServersHold
      <4>2. n.lis[k][Leads(k)].addr = p
        <5>1. CASE k = "tuic"
          <6>1. p = n.lastTuic
            BY <1>n, <1>p, <2>3, <5>1 DEF Listen!Target
          <6>2. n.lis[k]["tcp"] \in Socket
            BY <1>2, SocketTypes, SMTT(30)
          <6>3. x = "udp"
            BY <1>2, <4>1, <5>1, <6>2, SocketIs, XProtos DEF Paired
          <6> QED
            BY <1>2, <4>1, <5>1, <6>1, <6>3 DEF Paired, Leads
        <5>2. CASE k # "tuic"
          BY <1>1, <1>p, <2>1, <2>3, <5>2, SMTT(30) DEF Listen!Target, Leads
        <5> QED
          BY <5>1, <5>2, SMTT(30)
      <4>3. m.lis[k][x] = n.lis[k][x]
        BY <1>5, <4>1, <4>2 DEF ReCreated
      <4>4. m.lis[k][x].open /\ m.lis[k][x].addr = q
        BY <4>1, <4>3
      <4>5. ServersHold(m)
        BY <1>6 DEF Sound
      <4> QED
        BY <2>3, <3>1, <4>4, <4>5 DEF ServersHold
    <3> QED
      BY <1>1, <2>3, <3>1
  <2> QED
    BY <2>2, <2>3
<1> QED
  BY <1>1, <1>m, <1>6, <1>7, <1>10, <1>11, ListenersGoOn

(* The steps beside the servers: a patch loses nothing by them. *)
LEMMA PatchBeside ==
    ASSUME ListenersInv, NEW r \in Requests, NEW own, own \cap Listen!Kinds = {},
           Beside(net, net', own),
           req'[r].state = req[r].state, req'[r].solo = req[r].solo, req'[r].conf = req[r].conf,
           req'[r].named = req[r].named, req'[r].before = req[r].before,
           Ahead(r)' \subseteq Ahead(r)
    PROVE  SoloPatch(r)'
<1> SUFFICES ASSUME req[r].solo, req[r].state = "patch", NEW j \in Listen!Kinds,
                      j \notin req[r].named \cup Listen!Unparsable
             PROVE  /\ j \in Ahead(r)' /\ j # "tuic" => req[r].conf.ports[j] = net'.lis[j]["tcp"].addr
                    /\ \A x \in Listen!Protos, q \in Ports :
                         req[r].before[x][q] = j => net'.held[x][q] = j
  BY DEF SoloPatch
<1>1. /\ j \in Ahead(r) /\ j # "tuic" => req[r].conf.ports[j] = net.lis[j]["tcp"].addr
      /\ \A x \in Listen!Protos, q \in Ports :
                         req[r].before[x][q] = j => net.held[x][q] = j
  <2>1. SoloPatch(r)
    BY DEF ListenersInv
  <2> QED
    BY <2>1 DEF SoloPatch
<1>2. net'.lis = net.lis
  BY DEF Beside
<1>3. \A x \in Listen!Protos, q \in Ports : net'.held[x][q] = j <=> net.held[x][q] = j
  BY BesideHolds
<1> QED
  BY <1>1, <1>2, <1>3

(* What of SoloPut a step beside the servers leaves, part by part. *)
PutServers(r) ==
    req[r].force =>
        \A k \in Listen!Kinds, x \in Listen!Protos, p \in Ports :
            k \notin Ahead(r) /\ net.held[x][p] = k => req[r].conf.ports[k] = p
PutInbound(r) ==
    \A name \in DOMAIN req[r].conf.inbound, p \in Ports :
        name \notin req[r].left /\ net.held["tcp"][p] = name => req[r].conf.inbound[name] = p
PutDropped(r) ==
    "inbound" \notin Ahead(r) =>
        /\ req[r].left = {}
        /\ \A p \in Ports : net.held["tcp"][p] \in Listen!Inbounds
                               => net.held["tcp"][p] \in DOMAIN req[r].conf.inbound
PutTunnels(r) == "tunnels" \notin Ahead(r) => net.tunnels \subseteq req[r].conf.tunnels

LEMMA SoloPutIs ==
    ASSUME NEW r
    PROVE  SoloPut(r) <=> (req[r].solo /\ req[r].state = "put" =>
                              PutServers(r) /\ PutInbound(r) /\ PutDropped(r) /\ PutTunnels(r))
BY DEF SoloPut, PutServers, PutInbound, PutDropped, PutTunnels

LEMMA ServersBeside ==
    ASSUME NEW r, NEW own, own \cap Listen!Kinds = {}, Beside(net, net', own),
           req'[r].force = req[r].force, req'[r].conf = req[r].conf,
           NEW past, past \notin Listen!Kinds, Ahead(r)' = Ahead(r) \/ Ahead(r)' = Ahead(r) \ {past},
           PutServers(r)
    PROVE  PutServers(r)'
<1> SUFFICES ASSUME req[r].force, NEW k \in Listen!Kinds, NEW x \in Listen!Protos, NEW p \in Ports,
                    k \notin Ahead(r)', net'.held[x][p] = k
             PROVE  req[r].conf.ports[k] = p
  BY DEF PutServers
<1>1. k \notin Ahead(r)
  OBVIOUS
<1>2. net.held[x][p] = k
  BY BesideHolds
<1> QED
  BY <1>1, <1>2 DEF PutServers

LEMMA InboundBeside ==
    ASSUME NEW r, NEW own, own \cap Listen!Inbounds = {}, Beside(net, net', own),
           req'[r].left = req[r].left, req'[r].conf = req[r].conf,
           DOMAIN req[r].conf.inbound \subseteq Listen!Inbounds,
           NEW past, past # "inbound", Ahead(r)' = Ahead(r) \/ Ahead(r)' = Ahead(r) \ {past}
    PROVE  /\ PutInbound(r) => PutInbound(r)'
           /\ PutDropped(r) => PutDropped(r)'
<1>1. \A p \in Ports, name \in Listen!Inbounds : net'.held["tcp"][p] = name <=> net.held["tcp"][p] = name
  BY BesideHolds, ProtosAre
<1>2. "inbound" \in Ahead(r)' <=> "inbound" \in Ahead(r)
  OBVIOUS
<1>3. ASSUME PutInbound(r) PROVE PutInbound(r)'
  <2>1. \A name \in DOMAIN req[r].conf.inbound, p \in Ports :
          name \notin req[r].left /\ net'.held["tcp"][p] = name => req[r].conf.inbound[name] = p
    BY <1>1, <1>3 DEF PutInbound
  <2> QED
    BY <2>1 DEF PutInbound
<1>4. ASSUME PutDropped(r) PROVE PutDropped(r)'
  <2>1. "inbound" \notin Ahead(r)' =>
          /\ req[r].left = {}
          /\ \A p \in Ports : net'.held["tcp"][p] \in Listen!Inbounds
                               => net'.held["tcp"][p] \in DOMAIN req[r].conf.inbound
    BY <1>1, <1>2, <1>4 DEF PutDropped
  <2> QED
    BY <2>1 DEF PutDropped
<1> QED
  BY <1>3, <1>4

LEMMA TunStep ==
    ASSUME ListenersInv, NEW r \in Requests, req[r].todo # <<>>, "tun" = Head(req[r].todo),
           NEW starts, net' = Listen!ReCreateTun(net, Listen!TunTarget(r), starts),
           req' = [req EXCEPT ![r].todo = Tail(@)]
    PROVE  ListenersInv'
<1>c. PICK past : past = Head(req[r].todo) /\ past = "tun"
  OBVIOUS
<1>k. past \notin Listen!Kinds /\ past # "inbound" /\ past # "tunnels"
  BY <1>c DEF Listen!Kinds
<1>1. /\ Runs(r)
      /\ DOMAIN req' = Requests
      /\ \A q \in Requests : q # r => req'[q] = req[q]
      /\ req'[r].state = req[r].state /\ req'[r].solo = req[r].solo
      /\ req'[r].force = req[r].force /\ req'[r].conf = req[r].conf
      /\ req'[r].named = req[r].named /\ req'[r].before = req[r].before
      /\ req'[r].left = req[r].left
      /\ Ahead(r)' = Ahead(r) \ {past}
      /\ \A q \in Requests : ReqType(q)' /\ Solo(q)'
  BY <1>c, CallOver
<1>2. Sound(net) /\ (\A j \in Listen!Kinds : Paired(net, j)) /\ ReqType(r) /\ SoloPut(r)
  BY DEF ListenersInv
<1>3. Sound(net') /\ Beside(net, net', {}) /\ net'.tunnels = net.tunnels
  BY <1>2, TunSound
<1>4. \A j \in Listen!Kinds : Paired(net', j)
  BY <1>2, <1>3, PairedBeside
<1>5. SoloPatch(r)'
  BY <1>1, <1>3, PatchBeside
<1>6. SoloPut(r)'
  <2> SUFFICES ASSUME req[r].solo, req[r].state = "put"
               PROVE  PutServers(r)' /\ PutInbound(r)' /\ PutDropped(r)' /\ PutTunnels(r)'
    BY <1>1, SoloPutIs DEF SoloPut, PutServers, PutInbound, PutDropped, PutTunnels
  <2>1. PutServers(r) /\ PutInbound(r) /\ PutDropped(r) /\ PutTunnels(r)
    BY <1>2, SoloPutIs
  <2>2. DOMAIN req[r].conf.inbound \subseteq Listen!Inbounds
    BY <1>2, ConfIs DEF ReqType
  <2>3. PutServers(r)'
    BY <1>1, <1>3, <1>k, <2>1, ServersBeside
  <2>4. PutInbound(r)' /\ PutDropped(r)'
    BY <1>1, <1>3, <1>k, <2>1, <2>2, InboundBeside
  <2>5. PutTunnels(r)'
    BY <1>1, <1>3, <1>k, <2>1 DEF PutTunnels
  <2> QED
    BY <2>3, <2>4, <2>5
<1> QED
  BY <1>1, <1>3, <1>4, <1>5, <1>6, ListenersGoOn

LEMMA TunnelsStep ==
    ASSUME ListenersInv, NEW r \in Requests, req[r].todo # <<>>, "tunnels" = Head(req[r].todo),
           net' \in Listen!PatchTunnel(net, req[r].conf.tunnels),
           req' = [req EXCEPT ![r].todo = Tail(@)]
    PROVE  ListenersInv'
<1> USE OwnersDiffer
<1>c. PICK past : past = Head(req[r].todo) /\ past = "tunnels"
  OBVIOUS
<1>k. past \notin Listen!Kinds /\ past # "inbound"
  BY <1>c DEF Listen!Kinds
<1>1. /\ Runs(r)
      /\ DOMAIN req' = Requests
      /\ \A q \in Requests : q # r => req'[q] = req[q]
      /\ req'[r].state = req[r].state /\ req'[r].solo = req[r].solo
      /\ req'[r].force = req[r].force /\ req'[r].conf = req[r].conf
      /\ req'[r].named = req[r].named /\ req'[r].before = req[r].before
      /\ req'[r].left = req[r].left
      /\ Ahead(r)' = Ahead(r) \ {past}
      /\ \A q \in Requests : ReqType(q)' /\ Solo(q)'
  BY <1>c, CallOver
<1>2. Sound(net) /\ (\A j \in Listen!Kinds : Paired(net, j)) /\ ReqType(r) /\ SoloPut(r)
  BY DEF ListenersInv
<1>t. \A t \in req[r].conf.tunnels : t[1] \in Listen!Protos /\ t[2] \in Ports
  BY <1>1, <1>2, ConfIs DEF ReqType, Runs
<1>3. /\ Sound(net') /\ Beside(net, net', {Listen!Tunnel, Listen!Free})
      /\ net'.tunnels \subseteq req[r].conf.tunnels
  <2>1. PICK n : n = net
    OBVIOUS
  <2>2. PICK new : new = req[r].conf.tunnels
    OBVIOUS
  <2>3. PICK m \in Listen!PatchTunnel(n, new) : m = net'
    BY <2>1, <2>2
  <2>4. Sound(n) /\ \A t \in new : t[1] \in Listen!Protos /\ t[2] \in Ports
    BY <1>2, <1>t, <2>1, <2>2
  <2>5. Sound(m) /\ Beside(n, m, {Listen!Tunnel, Listen!Free}) /\ m.tunnels \subseteq new
    BY <2>4, PatchTunnelSound
  <2> QED
    BY <2>1, <2>2, <2>3, <2>5
<1>own. PICK own : own = {Listen!Tunnel, Listen!Free}
  OBVIOUS
<1>b. Beside(net, net', own) /\ own \cap Listen!Kinds = {} /\ own \cap Listen!Inbounds = {}
  BY <1>3, <1>own
<1>4. \A j \in Listen!Kinds : Paired(net', j)
  BY <1>2, <1>3, PairedBeside
<1>5. SoloPatch(r)'
  BY <1>1, <1>b, PatchBeside
<1>6. SoloPut(r)'
  <2> SUFFICES ASSUME req[r].solo, req[r].state = "put"
               PROVE  PutServers(r)' /\ PutInbound(r)' /\ PutDropped(r)' /\ PutTunnels(r)'
    BY <1>1, SoloPutIs DEF SoloPut, PutServers, PutInbound, PutDropped, PutTunnels
  <2>1. PutServers(r) /\ PutInbound(r) /\ PutDropped(r) /\ PutTunnels(r)
    BY <1>2, SoloPutIs
  <2>2. DOMAIN req[r].conf.inbound \subseteq Listen!Inbounds
    BY <1>2, ConfIs DEF ReqType
  <2>3. PutServers(r)'
    BY <1>1, <1>b, <1>k, <2>1, ServersBeside
  <2>4. PutInbound(r)' /\ PutDropped(r)'
    BY <1>1, <1>b, <1>k, <2>1, <2>2, InboundBeside
  <2>5. PutTunnels(r)'
    BY <1>1, <1>3 DEF PutTunnels
  <2> QED
    BY <2>3, <2>4, <2>5
<1> QED
  BY <1>1, <1>3, <1>4, <1>5, <1>6, ListenersGoOn

LEMMA DropInboundStep ==
    ASSUME ListenersInv, NEW r \in Requests, req[r].todo # <<>>, "inbound" = Head(req[r].todo),
           req[r].left = {}, net' = Listen!DropInbound(net, DOMAIN req[r].conf.inbound),
           req' = [req EXCEPT ![r].todo = Tail(@)]
    PROVE  ListenersInv'
<1> USE OwnersDiffer
<1>c. PICK past : past = Head(req[r].todo) /\ past = "inbound"
  OBVIOUS
<1>k. past \notin Listen!Kinds /\ past # "tunnels"
  BY <1>c DEF Listen!Kinds
<1>1. /\ Runs(r)
      /\ DOMAIN req' = Requests
      /\ \A q \in Requests : q # r => req'[q] = req[q]
      /\ req'[r].state = req[r].state /\ req'[r].solo = req[r].solo
      /\ req'[r].force = req[r].force /\ req'[r].conf = req[r].conf
      /\ req'[r].named = req[r].named /\ req'[r].before = req[r].before
      /\ req'[r].left = req[r].left
      /\ Ahead(r)' = Ahead(r) \ {past}
      /\ \A q \in Requests : ReqType(q)' /\ Solo(q)'
  BY <1>c, CallOver
<1>2. Sound(net) /\ (\A j \in Listen!Kinds : Paired(net, j)) /\ ReqType(r) /\ SoloPut(r)
  BY SMTT(30) DEF ListenersInv
<1>3. /\ Sound(net') /\ Beside(net, net', Listen!Inbounds \cup {Listen!Free})
      /\ net'.tunnels = net.tunnels
      /\ \A q \in Ports : net'.held["tcp"][q] = net.held["tcp"][q] \/ net'.held["tcp"][q] = Listen!Free
      /\ \A q \in Ports : net'.held["tcp"][q] \in Listen!Inbounds
                             => net'.held["tcp"][q] \in DOMAIN req[r].conf.inbound
  <2>1. PICK n : n = net
    OBVIOUS
  <2>2. PICK names : names = DOMAIN req[r].conf.inbound
    OBVIOUS
  <2>3. PICK m : m = net' /\ m = Listen!DropInbound(n, names)
    BY <2>1, <2>2
  <2>4. Sound(n)
    BY <1>2, <2>1
  <2>5. /\ Sound(m) /\ Beside(n, m, Listen!Inbounds \cup {Listen!Free}) /\ m.tunnels = n.tunnels
        /\ \A q \in Ports : m.held["tcp"][q] = n.held["tcp"][q] \/ m.held["tcp"][q] = Listen!Free
        /\ \A q \in Ports : m.held["tcp"][q] \in Listen!Inbounds => m.held["tcp"][q] \in names
    BY <2>3, <2>4, DropInboundSound
  <2> QED
    BY <2>1, <2>2, <2>3, <2>5
<1>own. PICK own : own = Listen!Inbounds \cup {Listen!Free}
  OBVIOUS
<1>b. Beside(net, net', own) /\ own \cap Listen!Kinds = {}
  BY <1>3, <1>own
<1>4. \A j \in Listen!Kinds : Paired(net', j)
  BY <1>2, <1>3, PairedBeside
<1>5. SoloPatch(r)'
  BY <1>1, <1>b, PatchBeside
<1>6. SoloPut(r)'
  <2> SUFFICES ASSUME req[r].solo, req[r].state = "put"
               PROVE  PutServers(r)' /\ PutInbound(r)' /\ PutDropped(r)' /\ PutTunnels(r)'
    BY <1>1, SoloPutIs DEF SoloPut, PutServers, PutInbound, PutDropped, PutTunnels
  <2>1. PutServers(r) /\ PutInbound(r) /\ PutDropped(r) /\ PutTunnels(r)
    BY <1>2, SoloPutIs
  <2>2. DOMAIN req[r].conf.inbound \subseteq Listen!Inbounds
    BY <1>2, ConfIs DEF ReqType
  <2>3. PutServers(r)'
    BY <1>1, <1>b, <1>k, <2>1, ServersBeside
  <2>4. PutInbound(r)'
    <3>1. \A name \in DOMAIN req[r].conf.inbound, p \in Ports :
            net'.held["tcp"][p] = name => net.held["tcp"][p] = name
      BY <1>3, <2>2
    <3> QED
      BY <1>1, <2>1, <3>1 DEF PutInbound
  <2>5. PutDropped(r)'
    BY <1>1, <1>3 DEF PutDropped
  <2>6. PutTunnels(r)'
    BY <1>1, <1>3, <1>k, <2>1 DEF PutTunnels
  <2> QED
    BY <2>3, <2>4, <2>5, <2>6
<1> QED
  BY <1>1, <1>3, <1>4, <1>5, <1>6, ListenersGoOn

LEMMA WalkStep ==
    ASSUME ListenersInv, NEW r \in Requests, req[r].todo # <<>>, "inbound" = Head(req[r].todo),
           NEW name \in req[r].left,
           net' = Listen!PatchInbound(net, name, req[r].conf.inbound[name]),
           req' = [req EXCEPT ![r].left = @ \ {name}]
    PROVE  ListenersInv'
<1> USE OwnersDiffer
<1>2. /\ Sound(net) /\ (\A j \in Listen!Kinds : Paired(net, j)) /\ SoloPut(r)
      /\ DOMAIN req = Requests
      /\ \A q \in Requests : ReqType(q) /\ Solo(q)
  BY DEF ListenersInv
<1>s. req[r].state = "put"
  BY <1>2 DEF ReqType, Runs
<1>1. /\ DOMAIN req' = Requests
      /\ \A q \in Requests : q # r => req'[q] = req[q]
      /\ DOMAIN req'[r] = ReqFields /\ req'[r].todo = req[r].todo
      /\ req'[r].state = req[r].state /\ req'[r].solo = req[r].solo
      /\ req'[r].force = req[r].force /\ req'[r].conf = req[r].conf
      /\ req'[r].named = req[r].named /\ req'[r].before = req[r].before
      /\ req'[r].left = req[r].left \ {name}
  <2>1. PICK left : left = req[r].left \ {name}
    OBVIOUS
  <2>2. req' = [req EXCEPT ![r] = [req[r] EXCEPT !.left = left]]
    BY <2>1
  <2>3. req'[r] = [req[r] EXCEPT !.left = left]
    BY <1>2, <2>2
  <2> QED
    BY <1>2, <2>1, <2>2, <2>3 DEF ReqType, ReqFields
<1>a. Ahead(r)' = Ahead(r)
  BY <1>1 DEF Ahead
<1>r. \A q \in Requests : Runs(q)' <=> Runs(q)
  BY <1>1 DEF Runs
<1>q. ASSUME NEW q \in Requests PROVE ReqType(q)' /\ Solo(q)'
  <2>1. ReqType(q)'
    <3>1. CASE q = r
      <4>1. ReqType(r)
        BY <1>2
      <4> QED
        BY <1>1, <1>r, <1>s, <3>1, <4>1 DEF ReqType, Runs
    <3>2. CASE q # r
      <4>1. ReqType(q) /\ req'[q] = req[q]
        BY <1>1, <1>2, <1>q, <3>2
      <4> QED
        BY <1>r, <4>1 DEF ReqType, Runs
    <3> QED
      BY <3>1, <3>2
  <2>2. Solo(q) /\ req'[q].solo = req[q].solo
    BY <1>1, <1>2, <1>q
  <2>3. Solo(q)'
    BY <1>r, <2>2 DEF Solo
  <2> QED
    BY <2>1, <2>3
<1>i. req[r].conf \in Confs /\ name \in DOMAIN req[r].conf.inbound
  BY <1>2, <1>s DEF ReqType
<1>p. PICK p \in Ports : p = req[r].conf.inbound[name]
  BY <1>i, ConfIs
<1>n. name \in Listen!Inbounds /\ DOMAIN req[r].conf.inbound \subseteq Listen!Inbounds
  BY <1>i, ConfIs
<1>3. /\ Sound(net') /\ Beside(net, net', {name, Listen!Free})
      /\ net'.tunnels = net.tunnels
      /\ \A q \in Ports : net'.held["tcp"][q] = name => q = p
  <2>1. PICK n : n = net
    OBVIOUS
  <2>2. PICK e \in Listen!Inbounds : e = name
    BY <1>n
  <2>3. PICK m : m = net' /\ m = Listen!PatchInbound(n, e, p)
    BY <1>p, <2>1, <2>2
  <2>4. Sound(n) /\ m = Listen!PatchInbound(n, e, p)
    BY <1>2, <2>1, <2>3
  <2>5. PICK own : own = {e, Listen!Free}
    OBVIOUS
  <2>6. /\ Sound(m) /\ Beside(n, m, own) /\ m.tunnels = n.tunnels
        /\ \A q \in Ports : m.held["tcp"][q] = e => q = p
    BY <2>4, <2>5, PatchInboundSound
  <2> QED
    BY <2>1, <2>2, <2>3, <2>5, <2>6
<1>own. PICK own : own = {name, Listen!Free}
  OBVIOUS
<1>b. Beside(net, net', own) /\ own \cap Listen!Kinds = {}
  BY <1>3, <1>n, <1>own
<1>4. \A j \in Listen!Kinds : Paired(net', j)
  BY <1>2, <1>3, PairedBeside
<1>5. SoloPatch(r)'
  BY <1>1, <1>s DEF SoloPatch
<1>6. SoloPut(r)'
  <2> SUFFICES ASSUME req[r].solo, req[r].state = "put"
               PROVE  PutServers(r)' /\ PutInbound(r)' /\ PutDropped(r)' /\ PutTunnels(r)'
    BY <1>1, SoloPutIs DEF SoloPut, PutServers, PutInbound, PutDropped, PutTunnels
  <2>1. PutServers(r) /\ PutInbound(r) /\ PutDropped(r) /\ PutTunnels(r)
    BY <1>2, SoloPutIs
  <2>2. "inbound" \in Ahead(r)
    <3>1. PICK s \in Seq(Calls) : s = req[r].todo /\ Distinct(s) /\ s # <<>>
      BY <1>2 DEF ReqType
    <3> QED
      BY <3>1, TailElems DEF Ahead
  <2>3. PutServers(r)'
    BY <1>1, <1>a, <1>b, <2>1, ServersBeside, "inbound" \notin Listen!Kinds DEF Listen!Kinds
  <2>4. PutInbound(r)'
    <3>1. ASSUME NEW other \in DOMAIN req[r].conf.inbound, NEW q \in Ports,
                 other \notin req[r].left \ {name}, net'.held["tcp"][q] = other
          PROVE  req[r].conf.inbound[other] = q
      <4>1. CASE other = name
        BY <1>3, <1>p, <3>1, <4>1
      <4>2. CASE other # name
        <5>1. other # Listen!Free
          BY <1>n, <3>1, SMTT(30)
        <5>2. net.held["tcp"][q] = other
          BY <1>3, <3>1, <4>2, <5>1, ProtosAre DEF Beside
        <5> QED
          BY <2>1, <3>1, <4>2, <5>2 DEF PutInbound
      <4> QED
        BY <4>1, <4>2
    <3> QED
      BY <1>1, <3>1 DEF PutInbound
  <2>5. PutDropped(r)'
    BY <1>a, <2>2 DEF PutDropped
  <2>6. PutTunnels(r)'
    BY <1>1, <1>a, <1>3, <2>1 DEF PutTunnels
  <2> QED
    BY <2>3, <2>4, <2>5, <2>6
<1>7. Runs(r)
  BY <1>s DEF Runs
<1> QED
  BY <1>1, <1>q, <1>3, <1>4, <1>5, <1>6, <1>7, ListenersGoOn

LEMMA DoneStep ==
    ASSUME ListenersInv, NEW r \in Requests, Runs(r),
           req' = [req EXCEPT ![r] = Listen!Resting("done")], net' = net
    PROVE  ListenersInv'
<1>1. DOMAIN req = Requests /\ \A q \in Requests : ReqType(q) /\ Solo(q)
  BY DEF ListenersInv
<1>2. /\ DOMAIN req' = Requests
      /\ req'[r] = Listen!Resting("done")
      /\ \A q \in Requests : q # r => req'[q] = req[q]
  BY <1>1
<1>3. /\ DOMAIN req'[r] = ReqFields /\ req'[r].state = "done" /\ req'[r].solo = FALSE
      /\ req'[r].todo = <<>>
  BY <1>2 DEF Listen!Resting, ReqFields
<1>4. ReqType(r)'
  <2>1. <<>> \in Seq(Calls) /\ Distinct(<<>>)
    BY DEF Distinct
  <2> QED
    BY <1>3, <2>1 DEF ReqType, Runs
<1>5. ASSUME NEW q \in Requests PROVE ReqType(q)' /\ Solo(q)'
  <2>1. CASE q = r
    BY <1>3, <1>4, <2>1 DEF Solo
  <2>2. CASE q # r
    <3>1. ReqType(q) /\ ~req[q].solo /\ req'[q] = req[q]
      BY <1>1, <1>2, <2>2 DEF Solo
    <3> QED
      BY <3>1 DEF ReqType, Solo, Runs
  <2> QED
    BY <2>1, <2>2
<1>6. Sound(net') /\ \A k \in Listen!Kinds : Paired(net', k)
  BY DEF ListenersInv
<1>7. SoloPut(r)' /\ SoloPatch(r)'
  BY <1>3 DEF SoloPut, SoloPatch
<1> QED
  BY <1>2, <1>5, <1>6, <1>7, ListenersGoOn

(* Another program's step, whoever is at work. *)
LEMMA ToggleStep ==
    ASSUME ListenersInv, NEW x \in Listen!Protos, NEW p \in Ports, Listen!Toggle(x, p)
    PROVE  ListenersInv'
<1> USE OwnersDiffer
<1>1. Sound(net) /\ (\A j \in Listen!Kinds : Paired(net, j)) /\ req' = req
  BY DEF ListenersInv, Listen!Toggle
<1>own. PICK own : own = {Listen!Free, Listen!Other}
  OBVIOUS
<1>2. PICK o \in own : net' = [net EXCEPT !.held[x][p] = o]
  BY <1>own DEF Listen!Toggle
<1>3. Sound(net') /\ Beside(net, net', own) /\ net'.tunnels = net.tunnels
  <2>1. PICK n : n = net
    OBVIOUS
  <2>2. PICK m : m = net' /\ m = [n EXCEPT !.held[x][p] = o]
    BY <1>2, <2>1
  <2>3. n.held[x][p] \in own /\ Sound(n)
    BY <1>1, <1>own, <2>1 DEF Listen!Toggle
  <2>4. Sound(m) /\ Beside(n, m, own) /\ m.tunnels = n.tunnels
    BY <1>own, <2>2, <2>3, ToggleSound
  <2> QED
    BY <2>1, <2>2, <2>4
<1>4. \A j \in Listen!Kinds : Paired(net', j)
  BY <1>1, <1>3, PairedBeside
<1>5. ASSUME NEW r \in Requests PROVE ReqType(r)' /\ Solo(r)' /\ SoloPatch(r)' /\ SoloPut(r)'
  <2>1. ReqType(r) /\ Solo(r) /\ SoloPut(r)
    BY DEF ListenersInv
  <2>2. ReqType(r)' /\ Solo(r)' /\ Ahead(r)' = Ahead(r)
    BY <1>1, <2>1 DEF ReqType, Solo, Runs, Ahead
  <2>3. own \cap Listen!Kinds = {} /\ own \cap Listen!Inbounds = {}
    BY <1>own
  <2>4. SoloPatch(r)'
    BY <1>1, <1>3, <2>2, <2>3, PatchBeside
  <2>5. ASSUME req[r].solo, req[r].state = "put"
        PROVE  PutServers(r)' /\ PutInbound(r)' /\ PutDropped(r)' /\ PutTunnels(r)'
    <3>1. PutServers(r) /\ PutInbound(r) /\ PutDropped(r) /\ PutTunnels(r)
      BY <2>1, <2>5, SoloPutIs
    <3>2. DOMAIN req[r].conf.inbound \subseteq Listen!Inbounds
      BY <2>1, <2>5, ConfIs DEF ReqType
    <3>3. PICK past : past = "tun" /\ past \notin Listen!Kinds /\ past # "inbound"
      BY DEF Listen!Kinds
    <3>4. PutServers(r)'
      BY <1>1, <1>3, <2>2, <2>3, <3>1, <3>3, ServersBeside
    <3>5. PutInbound(r)' /\ PutDropped(r)'
      BY <1>1, <1>3, <2>2, <2>3, <3>1, <3>2, <3>3, InboundBeside
    <3>6. PutTunnels(r)'
      BY <1>1, <1>3, <2>2, <3>1 DEF PutTunnels
    <3> QED
      BY <3>4, <3>5, <3>6
  <2>6. SoloPut(r)'
    BY <1>1, <2>5, SoloPutIs DEF SoloPut, PutServers, PutInbound, PutDropped, PutTunnels
  <2> QED
    BY <2>2, <2>4, <2>6
<1>6. DOMAIN req' = Requests
  BY <1>1 DEF ListenersInv
<1>7. Sound(net)' /\ \A k \in Listen!Kinds : Paired(net, k)'
  BY <1>3, <1>4 DEF Sound, NetType, ServersHold, InboundsHold, TunnelsHold, Paired
<1> QED
  BY <1>5, <1>6, <1>7 DEF ListenersInv

(* A request arrives: who was at work is no more alone. *)
LEMMA AskStep ==
    ASSUME ListenersInv, NEW r \in Requests, ~Runs(r), NEW asks,
           req' = [Listen!Overlap EXCEPT ![r] = asks], net' = net,
           DOMAIN asks = ReqFields, asks.state \in {"put", "patch"}, asks.solo \in BOOLEAN,
           asks.todo \in Seq(Calls), Distinct(asks.todo),
           asks.solo => Listen!Active = {},
           asks.state = "put" =>
             /\ asks.conf \in Confs /\ asks.left = DOMAIN asks.conf.inbound
             /\ {"inbound", "tunnels"} \subseteq Elems(asks.todo)
             /\ asks.force => Listen!Kinds \subseteq Elems(asks.todo),
           asks.state = "patch" =>
             /\ asks.conf.ports \in [Listen!Kinds -> Ports \cup {0}]
             /\ asks.conf.tunnels = {} /\ asks.left = {} /\ asks.before = net.held
             /\ \A k \in Listen!Kinds :
                  k \notin asks.named \cup Listen!Unparsable => asks.conf.ports[k] = net.lis[k]["tcp"].addr
    PROVE  ListenersInv'
<1>1. DOMAIN req = Requests /\ \A q \in Requests : ReqType(q) /\ Solo(q)
  BY DEF ListenersInv
<1>2. DOMAIN req' = Requests /\ req'[r] = asks
  BY DEF Listen!Overlap
<1>3. ASSUME NEW q \in Requests, q # r
      PROVE  /\ DOMAIN req'[q] = ReqFields /\ req'[q].solo = FALSE
             /\ req'[q].state = req[q].state /\ req'[q].todo = req[q].todo
             /\ req'[q].conf = req[q].conf /\ req'[q].left = req[q].left
  <2>1. req'[q] = IF q \in Listen!Active THEN [req[q] EXCEPT !.solo = FALSE] ELSE req[q]
    BY <1>3 DEF Listen!Overlap
  <2>2. ReqType(q)
    BY <1>1
  <2>3. CASE q \in Listen!Active
    BY <2>1, <2>2, <2>3 DEF ReqType, ReqFields
  <2>4. CASE q \notin Listen!Active
    <3>1. ~req[q].solo /\ DOMAIN req[q] = ReqFields
      BY <2>2, <2>4 DEF ReqType, Runs, Listen!Active
    <3>2. req[q].solo \in BOOLEAN
      BY <2>2 DEF ReqType
    <3> QED
      BY <2>1, <2>4, <3>1, <3>2
  <2> QED
    BY <2>3, <2>4
<1>4. \A q \in Requests : q # r => (Runs(q)' <=> Runs(q))
  BY <1>3 DEF Runs
<1>5. Runs(r)'
  BY <1>2 DEF Runs
<1>6. ASSUME NEW q \in Requests, q # r
      PROVE  ReqType(q)' /\ Solo(q)' /\ SoloPut(q)' /\ SoloPatch(q)'
  <2>1. ReqType(q)
    BY <1>1
  <2>2. ReqType(q)'
    BY <1>3, <1>4, <1>6, <2>1 DEF ReqType
  <2> QED
    BY <1>3, <1>6, <2>2 DEF Solo, SoloPut, SoloPatch
<1>7. ReqType(r)'
  BY <1>2, <1>5 DEF ReqType
<1>8. Solo(r)'
  <2>1. SUFFICES ASSUME asks.solo, NEW q \in Requests, q # r PROVE ~Runs(q)'
    BY <1>2 DEF Solo
  <2>2. ~Runs(q)
    BY <2>1 DEF Runs, Listen!Active
  <2> QED
    BY <1>4, <2>1, <2>2
<1>9. Sound(net) /\ \A k \in Listen!Kinds : Paired(net, k)
  BY DEF ListenersInv
<1>10. Sound(net)' /\ \A k \in Listen!Kinds : Paired(net, k)'
  BY <1>9 DEF Sound, NetType, ServersHold, InboundsHold, TunnelsHold, Paired
<1>11. Ahead(r)' = Elems(asks.todo)
  BY <1>2 DEF Ahead
<1>12. SoloPut(r)'
  BY <1>2, <1>11 DEF SoloPut
<1>13. SoloPatch(r)'
  BY <1>2, <1>11 DEF SoloPatch
<1> QED
  BY <1>2, <1>6, <1>7, <1>8, <1>10, <1>12, <1>13 DEF ListenersInv

LEMMA StepsAre ==
    /\ \A force \in BOOLEAN :
         /\ Listen!PutSteps(force) \in Seq(Calls) /\ Distinct(Listen!PutSteps(force))
         /\ {"inbound", "tunnels"} \subseteq Elems(Listen!PutSteps(force))
         /\ force => Listen!Kinds \subseteq Elems(Listen!PutSteps(force))
    /\ Listen!PatchSteps \in Seq(Calls) /\ Distinct(Listen!PatchSteps)
<1>1. PICK few : few = <<"inbound", "tun", "tunnels">>
  OBVIOUS
<1>2. PICK all : all = <<"inbound", "http", "socks", "redir", "tproxy", "mixed", "ss", "vmess", "tuic",
                         "tun", "tunnels">>
  OBVIOUS
<1>3. PICK some : some = <<"http", "socks", "redir", "tproxy", "mixed", "tun", "ss", "vmess", "tuic">>
  OBVIOUS
<1>4. few \in Seq(Calls) /\ Len(few) = 3 /\ few[1] = "inbound" /\ few[2] = "tun" /\ few[3] = "tunnels"
  BY <1>1 DEF Calls
<1>5. /\ all \in Seq(Calls) /\ Len(all) = 11
      /\ all[1] = "inbound" /\ all[2] = "http" /\ all[3] = "socks" /\ all[4] = "redir"
      /\ all[5] = "tproxy" /\ all[6] = "mixed" /\ all[7] = "ss" /\ all[8] = "vmess"
      /\ all[9] = "tuic" /\ all[10] = "tun" /\ all[11] = "tunnels"
  BY <1>2 DEF Calls, Listen!Kinds
<1>6. /\ some \in Seq(Calls) /\ Len(some) = 9
      /\ some[1] = "http" /\ some[2] = "socks" /\ some[3] = "redir" /\ some[4] = "tproxy"
      /\ some[5] = "mixed" /\ some[6] = "tun" /\ some[7] = "ss" /\ some[8] = "vmess"
      /\ some[9] = "tuic"
  BY <1>3 DEF Calls, Listen!Kinds
<1>7. Distinct(few) /\ {"inbound", "tunnels"} \subseteq Elems(few)
  BY <1>4 DEF Distinct, Elems
<1>8. Distinct(all)
  BY <1>5 DEF Distinct
<1>9. \A i \in 1 .. 11 : all[i] \in Elems(all)
  BY <1>5 DEF Elems
<1>10. {"inbound", "tunnels"} \subseteq Elems(all) /\ Listen!Kinds \subseteq Elems(all)
  BY <1>5, <1>9 DEF Listen!Kinds
<1>11. Distinct(some)
  BY <1>6 DEF Distinct
<1>12. \A force \in BOOLEAN : Listen!PutSteps(force) = IF force THEN all ELSE few
  BY <1>1, <1>2 DEF Listen!PutSteps
<1>13. Listen!PatchSteps = some
  BY <1>3 DEF Listen!PatchSteps
<1> QED
  BY <1>4, <1>5, <1>6, <1>7, <1>8, <1>10, <1>11, <1>12, <1>13

LEMMA ApplyStep ==
    ASSUME ListenersInv, NEW r \in Requests, Listen!ApplyConfig(r)
    PROVE  ListenersInv'
<1>1. PICK conf \in Confs, force \in BOOLEAN :
        req' = [Listen!Overlap EXCEPT ![r] =
             [state |-> "put", solo |-> Listen!Active = {}, force |-> force, conf |-> conf, named |-> {},
              before |-> net.held, todo |-> Listen!PutSteps(force), left |-> DOMAIN conf.inbound]]
  BY DEF Listen!ApplyConfig
<1>2. PICK asks :
        asks = [state |-> "put", solo |-> Listen!Active = {}, force |-> force, conf |-> conf, named |-> {},
                before |-> net.held, todo |-> Listen!PutSteps(force), left |-> DOMAIN conf.inbound]
  OBVIOUS
<1>3. req' = [Listen!Overlap EXCEPT ![r] = asks] /\ net' = net /\ ~Runs(r)
  BY <1>1, <1>2 DEF Listen!ApplyConfig, Listen!Idle, Runs
<1>4. /\ DOMAIN asks = ReqFields /\ asks.state = "put" /\ asks.solo = (Listen!Active = {})
      /\ asks.conf = conf /\ asks.left = DOMAIN conf.inbound /\ asks.force = force
      /\ asks.todo = Listen!PutSteps(force)
  BY <1>2 DEF ReqFields
<1>5. /\ asks.todo \in Seq(Calls) /\ Distinct(asks.todo)
      /\ {"inbound", "tunnels"} \subseteq Elems(asks.todo)
      /\ asks.force => Listen!Kinds \subseteq Elems(asks.todo)
  BY <1>4, StepsAre
<1>6. asks.solo \in BOOLEAN /\ (asks.solo => Listen!Active = {})
  BY <1>4
<1> QED
  BY <1>3, <1>4, <1>5, <1>6, AskStep

LEMMA AskPatchStep ==
    ASSUME ListenersInv, NEW r \in Requests, Listen!PatchConfigs(r)
    PROVE  ListenersInv'
<1>1. PICK change \in Changes :
        req' = [Listen!Overlap EXCEPT ![r] =
             [state |-> "patch", solo |-> Listen!Active = {}, force |-> FALSE,
              conf |-> [Listen!NoConf EXCEPT !.ports =
                          [k \in Listen!Kinds |-> IF k \in DOMAIN change THEN change[k]
                                                  ELSE Listen!GetPorts[k]]],
              named |-> DOMAIN change,
              before |-> net.held, todo |-> Listen!PatchSteps, left |-> {}]]
  BY DEF Listen!PatchConfigs
<1>2. PICK ports : ports = [k \in Listen!Kinds |-> IF k \in DOMAIN change THEN change[k]
                                                   ELSE Listen!GetPorts[k]]
  OBVIOUS
<1>3. PICK conf : conf = [Listen!NoConf EXCEPT !.ports = ports]
  OBVIOUS
<1>4. PICK asks :
        asks = [state |-> "patch", solo |-> Listen!Active = {}, force |-> FALSE, conf |-> conf,
                named |-> DOMAIN change,
                before |-> net.held, todo |-> Listen!PatchSteps, left |-> {}]
  OBVIOUS
<1>5. req' = [Listen!Overlap EXCEPT ![r] = asks] /\ net' = net /\ ~Runs(r)
  BY <1>1, <1>2, <1>3, <1>4 DEF Listen!PatchConfigs, Listen!Idle, Runs
<1>6. /\ DOMAIN asks = ReqFields /\ asks.state = "patch" /\ asks.solo = (Listen!Active = {})
      /\ asks.conf = conf /\ asks.left = {} /\ asks.named = DOMAIN change
      /\ asks.before = net.held /\ asks.todo = Listen!PatchSteps
  BY <1>4 DEF ReqFields
<1>7. conf.ports = ports /\ conf.tunnels = {}
  BY <1>3 DEF Listen!NoConf
<1>8. \A k \in Listen!Kinds :
        Listen!GetPorts[k] = IF k \in Listen!Unparsable THEN 0 ELSE net.lis[k]["tcp"].addr
  BY DEF Listen!GetPorts
<1>9. \A k \in Listen!Kinds : net.lis[k]["tcp"].addr \in Ports \cup {0}
  <2>1. net.lis \in [Listen!Kinds -> [Listen!Protos -> Socket]]
    BY DEF ListenersInv, Sound, NetType
  <2>2. \A k \in Listen!Kinds : net.lis[k]["tcp"] \in Socket
    BY <2>1, ProtosAre
  <2> QED
    BY <2>2, SocketIs
<1>10. DOMAIN change \subseteq Listen!Kinds /\ \A k \in DOMAIN change : change[k] \in Ports \cup {0}
  BY ListenersAssumption DEF Listen!Sane
<1>11. /\ ports \in [Listen!Kinds -> Ports \cup {0}]
       /\ \A k \in Listen!Kinds :
            k \notin DOMAIN change \cup Listen!Unparsable => ports[k] = net.lis[k]["tcp"].addr
  BY <1>2, <1>8, <1>9, <1>10
<1>12. asks.todo \in Seq(Calls) /\ Distinct(asks.todo)
  BY <1>6, StepsAre
<1>13. asks.solo \in BOOLEAN /\ (asks.solo => Listen!Active = {})
  BY <1>6
<1> QED
  BY <1>5, <1>6, <1>7, <1>11, <1>12, <1>13, AskStep

LEMMA ListenersInit ==
    ASSUME Listen!Init PROVE ListenersInv
<1> USE OwnersDiffer, ProtosAre
<1>1. /\ DOMAIN net = NetFields /\ net.held = Listen!FreePorts
      /\ net.lis = [k \in Listen!Kinds |-> [x \in Listen!Protos |-> Listen!Nil]]
      /\ net.lastTuic = 0 /\ net.inbound = [name \in Listen!Inbounds |-> Listen!Nil]
      /\ net.tunnels = {}
  BY DEF Listen!Init, NetFields
<1>2. Listen!Free \in Owners
  BY DEF Owners
<1>3. \A x \in Listen!Protos, p \in Ports : net.held[x][p] = Listen!Free
  BY <1>1 DEF Listen!FreePorts
<1>4. net.held \in [Listen!Protos -> [Ports -> Owners]]
  BY <1>1, <1>2 DEF Listen!FreePorts
<1>5. net.lis \in [Listen!Kinds -> [Listen!Protos -> Socket]]
  BY <1>1, NilIsSocket
<1>6. net.inbound \in [Listen!Inbounds -> Socket]
  BY <1>1, NilIsSocket
<1>7. NetType(net)
  BY <1>1, <1>4, <1>5, <1>6 DEF NetType
<1>8. Listen!Nil.open = FALSE /\ Listen!Nil.addr = 0
  BY DEF Listen!Nil
<1>9. \A k \in Listen!Kinds, x \in Listen!Protos : net.lis[k][x] = Listen!Nil
  BY <1>1
<1>10. ServersHold(net)
  BY <1>3, <1>8, <1>9 DEF ServersHold
<1>11. \A name \in Listen!Inbounds : net.inbound[name] = Listen!Nil
  BY <1>1
<1>12. InboundsHold(net)
  BY <1>3, <1>8, <1>11 DEF InboundsHold
<1>13. TunnelsHold(net)
  BY <1>1, <1>3 DEF TunnelsHold
<1>14. \A k \in Listen!Kinds : Paired(net, k)
  BY <1>1, <1>8, <1>9 DEF Paired
<1>15. DOMAIN req = Requests /\ \A r \in Requests : req[r] = Listen!Resting("idle")
  BY DEF Listen!Init
<1>16. ASSUME NEW r \in Requests PROVE ReqType(r) /\ Solo(r) /\ SoloPut(r) /\ SoloPatch(r)
  <2>1. /\ DOMAIN req[r] = ReqFields /\ req[r].state = "idle" /\ req[r].solo = FALSE
        /\ req[r].todo = <<>>
    BY <1>15 DEF Listen!Resting, ReqFields
  <2>2. <<>> \in Seq(Calls) /\ Distinct(<<>>)
    BY DEF Distinct
  <2>3. ReqType(r)
    BY <2>1, <2>2 DEF ReqType, Runs
  <2> QED
    BY <2>1, <2>3 DEF Solo, SoloPut, SoloPatch
<1> QED
  BY <1>7, <1>10, <1>12, <1>13, <1>14, <1>15, <1>16 DEF ListenersInv, Sound

LEMMA ListenersStep ==
    ASSUME ListenersInv, [CoreNext]_allVars PROVE ListenersInv'
<1>1. CASE UNCHANGED listenerVars
  <2>1. net' = net /\ req' = req
    BY <1>1 DEF listenerVars
  <2> QED
    BY <2>1 DEF ListenersInv, Sound, NetType, ServersHold, InboundsHold, TunnelsHold, Paired,
                ReqType, Runs, Solo, SoloPut, SoloPatch, Ahead
<1>2. ASSUME NEW r \in Requests, Listen!Step(r) PROVE ListenersInv'
  <2>1. req[r].todo # <<>> /\ req' = [req EXCEPT ![r].todo = Tail(@)]
    BY <1>2 DEF Listen!Step
  <2>2. \/ /\ Head(req[r].todo) \in Listen!Kinds
            /\ net' = Listen!ReCreate(net, Head(req[r].todo), Listen!Target(r, Head(req[r].todo)))
        \/ /\ Head(req[r].todo) = "tun"
            /\ \E starts \in BOOLEAN : net' = Listen!ReCreateTun(net, Listen!TunTarget(r), starts)
        \/ /\ Head(req[r].todo) = "tunnels"
            /\ net' \in Listen!PatchTunnel(net, req[r].conf.tunnels)
        \/ /\ Head(req[r].todo) = "inbound" /\ req[r].left = {}
            /\ net' = Listen!DropInbound(net, DOMAIN req[r].conf.inbound)
    BY <1>2 DEF Listen!Step
  <2>3. CASE /\ Head(req[r].todo) \in Listen!Kinds
             /\ net' = Listen!ReCreate(net, Head(req[r].todo), Listen!Target(r, Head(req[r].todo)))
    <3>1. PICK k \in Listen!Kinds : k = Head(req[r].todo)
      BY <2>3
    <3>2. net' = Listen!ReCreate(net, k, Listen!Target(r, k))
      BY <2>3, <3>1
    <3> QED
      BY <2>1, <3>1, <3>2, ServerStep
  <2>4. CASE /\ Head(req[r].todo) = "tun"
             /\ \E starts \in BOOLEAN : net' = Listen!ReCreateTun(net, Listen!TunTarget(r), starts)
    BY <2>1, <2>4, TunStep
  <2>5. CASE /\ Head(req[r].todo) = "tunnels"
             /\ net' \in Listen!PatchTunnel(net, req[r].conf.tunnels)
    BY <2>1, <2>5, TunnelsStep
  <2>6. CASE /\ Head(req[r].todo) = "inbound" /\ req[r].left = {}
             /\ net' = Listen!DropInbound(net, DOMAIN req[r].conf.inbound)
    BY <2>1, <2>6, DropInboundStep
  <2> QED
    BY <2>2, <2>3, <2>4, <2>5, <2>6
<1>3. ASSUME NEW r \in Requests, Listen!Walk(r) PROVE ListenersInv'
  <2>1. PICK name \in req[r].left :
          /\ net' = Listen!PatchInbound(net, name, req[r].conf.inbound[name])
          /\ req' = [req EXCEPT ![r].left = @ \ {name}]
    BY <1>3 DEF Listen!Walk
  <2>2. req[r].todo # <<>> /\ "inbound" = Head(req[r].todo)
    BY <1>3 DEF Listen!Walk
  <2> QED
    BY <2>1, <2>2, WalkStep
<1>4. ASSUME NEW r \in Requests, Listen!Done(r) PROVE ListenersInv'
  <2>1. Runs(r) /\ req' = [req EXCEPT ![r] = Listen!Resting("done")] /\ net' = net
    BY <1>4 DEF Listen!Done, Listen!Active, Runs
  <2> QED
    BY <2>1, DoneStep
<1>5. \/ UNCHANGED listenerVars
      \/ \E r \in Requests :
           \/ Listen!ApplyConfig(r) \/ Listen!PatchConfigs(r) \/ Listen!Walk(r)
           \/ Listen!Step(r) \/ Listen!Done(r)
      \/ \E x \in Listen!Protos, p \in Ports : Listen!Toggle(x, p)
  BY DEF CoreNext, allVars, listenerVars, D, A, M, L, G, R, N
<1> QED
  BY <1>1, <1>2, <1>3, <1>4, <1>5, ApplyStep, AskPatchStep, ToggleStep

LEMMA NoSocketLeaksHere ==
    ASSUME ListenersInv PROVE Listen!NoSocketLeaks
<1>1. Sound(net)
  BY DEF ListenersInv
<1> SUFFICES ASSUME NEW x \in Listen!Protos, NEW p \in Ports, NEW k, k = net.held[x][p]
             PROVE  /\ k \in Listen!Kinds => net.lis[k][x] = [addr |-> p, open |-> TRUE]
                    /\ k = Listen!Tunnel => \E t \in net.tunnels : Listen!SamePort(t, <<x, p>>)
                    /\ k \in Listen!Inbounds => net.inbound[k] = [addr |-> p, open |-> TRUE]
  BY DEF Listen!NoSocketLeaks
<1>2. \A s \in Socket : s.open /\ s.addr = p => s = [addr |-> p, open |-> TRUE]
  BY DEF Socket
<1>3. ASSUME k \in Listen!Kinds PROVE net.lis[k][x] = [addr |-> p, open |-> TRUE]
  <2>1. net.lis[k][x].open /\ net.lis[k][x].addr = p
    BY <1>1, <1>3 DEF Sound, ServersHold
  <2>2. net.lis[k][x] \in Socket
    BY <1>1, <1>3 DEF Sound, NetType
  <2> QED
    BY <1>2, <2>1, <2>2
<1>4. ASSUME k = Listen!Tunnel PROVE \E t \in net.tunnels : Listen!SamePort(t, <<x, p>>)
  BY <1>1, <1>4 DEF Sound, TunnelsHold
<1>5. ASSUME k \in Listen!Inbounds PROVE net.inbound[k] = [addr |-> p, open |-> TRUE]
  <2>1. x = "tcp"
    BY <1>1, <1>5, XProtos DEF Sound, InboundsHold
  <2>2. net.inbound[k].open /\ net.inbound[k].addr = p
    BY <1>1, <1>5, <2>1 DEF Sound, InboundsHold
  <2>3. net.inbound[k] \in Socket
    BY <1>1, <1>5 DEF Sound, NetType
  <2> QED
    BY <1>2, <2>2, <2>3
<1> QED
  BY <1>3, <1>4, <1>5

(* What was alone and has nothing left to do has left open what it says. *)
LEMMA AllDoneAsSaid ==
    ASSUME ListenersInv, NEW r \in Requests, req[r].solo, req[r].todo = <<>>
    PROVE  Listen!LeftAsSaid(r)
<1>1. Sound(net) /\ SoloPut(r) /\ SoloPatch(r)
  BY DEF ListenersInv
<1>2. Ahead(r) = {}
  BY DEF Ahead, Elems
<1> SUFFICES ASSUME NEW x \in Listen!Protos, NEW p \in Ports, NEW k, k = net.held[x][p],
                    NEW before, before = req[r].before[x][p]
             PROVE  /\ req[r].state = "put" =>
                         /\ req[r].force /\ k \in Listen!Kinds => req[r].conf.ports[k] = p
                         /\ k = Listen!Tunnel => \E t \in req[r].conf.tunnels : Listen!SamePort(t, <<x, p>>)
                         /\ k \in Listen!Inbounds =>
                              k \in DOMAIN req[r].conf.inbound /\ req[r].conf.inbound[k] = p
                    /\ req[r].state = "patch" /\ before \in Listen!Kinds \ (req[r].named \cup Listen!Unparsable)
                         => k = before
  BY DEF Listen!LeftAsSaid
<1>3. ASSUME req[r].state = "put"
      PROVE  /\ req[r].force /\ k \in Listen!Kinds => req[r].conf.ports[k] = p
             /\ k = Listen!Tunnel => \E t \in req[r].conf.tunnels : Listen!SamePort(t, <<x, p>>)
             /\ k \in Listen!Inbounds =>
                  k \in DOMAIN req[r].conf.inbound /\ req[r].conf.inbound[k] = p
  <2>1. PutServers(r) /\ PutInbound(r) /\ PutDropped(r) /\ PutTunnels(r)
    BY <1>1, <1>3, SoloPutIs
  <2>2. req[r].force /\ k \in Listen!Kinds => req[r].conf.ports[k] = p
    BY <1>2, <2>1 DEF PutServers
  <2>3. k = Listen!Tunnel => \E t \in req[r].conf.tunnels : Listen!SamePort(t, <<x, p>>)
    BY <1>1, <1>2, <2>1 DEF Sound, TunnelsHold, PutTunnels
  <2>4. ASSUME k \in Listen!Inbounds
        PROVE  k \in DOMAIN req[r].conf.inbound /\ req[r].conf.inbound[k] = p
    <3>1. x = "tcp"
      BY <1>1, <2>4, XProtos DEF Sound, InboundsHold
    <3>2. req[r].left = {} /\ k \in DOMAIN req[r].conf.inbound
      BY <1>2, <2>1, <2>4, <3>1 DEF PutDropped
    <3> QED
      BY <2>1, <3>1, <3>2 DEF PutInbound
  <2> QED
    BY <2>2, <2>3, <2>4
<1>4. ASSUME req[r].state = "patch", before \in Listen!Kinds \ (req[r].named \cup Listen!Unparsable)
      PROVE  k = before
  BY <1>1, <1>4 DEF SoloPatch
<1> QED
  BY <1>3, <1>4

LEMMA OnlyTheDoneEnd ==
    ASSUME ListenersInv, [CoreNext]_allVars, NEW r \in Requests,
           req[r].solo, req'[r].state = "done"
    PROVE  req[r].todo = <<>>
<1>1. DOMAIN req = Requests /\ (\A q \in Requests : ReqType(q)) /\ Runs(r)
  BY DEF ListenersInv, ReqType
<1>2. req[r].state # "done"
  BY <1>1 DEF Runs
<1>3. CASE UNCHANGED listenerVars
  BY <1>2, <1>3 DEF listenerVars
<1>4. ASSUME NEW q \in Requests, Listen!Step(q) \/ Listen!Walk(q) PROVE req'[r].state = req[r].state
  <2>1. \/ req' = [req EXCEPT ![q].todo = Tail(@)]
        \/ \E name \in req[q].left : req' = [req EXCEPT ![q].left = @ \ {name}]
    BY <1>4 DEF Listen!Step, Listen!Walk
  <2>2. DOMAIN req[q] = ReqFields
    BY <1>1 DEF ReqType
  <2> QED
    BY <1>1, <2>1, <2>2 DEF ReqFields
<1>5. ASSUME NEW q \in Requests, Listen!ApplyConfig(q) \/ Listen!PatchConfigs(q)
      PROVE  req'[r].state # "done"
  <2>1. PICK asks : req' = [Listen!Overlap EXCEPT ![q] = asks] /\ asks.state \in {"put", "patch"}
    <3>1. CASE Listen!ApplyConfig(q)
      <4>1. PICK conf \in Confs, force \in BOOLEAN :
              req' = [Listen!Overlap EXCEPT ![q] =
                [state |-> "put", solo |-> Listen!Active = {}, force |-> force, conf |-> conf,
                 named |-> {}, before |-> net.held, todo |-> Listen!PutSteps(force),
                 left |-> DOMAIN conf.inbound]]
        BY <3>1 DEF Listen!ApplyConfig
      <4>2. PICK asks :
              asks = [state |-> "put", solo |-> Listen!Active = {}, force |-> force, conf |-> conf,
                      named |-> {}, before |-> net.held, todo |-> Listen!PutSteps(force),
                      left |-> DOMAIN conf.inbound]
        OBVIOUS
      <4>3. asks.state = "put"
        BY <4>2
      <4> QED
        BY <4>1, <4>2, <4>3
    <3>2. CASE Listen!PatchConfigs(q)
      <4>1. PICK change \in Changes :
              req' = [Listen!Overlap EXCEPT ![q] =
                [state |-> "patch", solo |-> Listen!Active = {}, force |-> FALSE,
                 conf |-> [Listen!NoConf EXCEPT !.ports =
                   [k \in Listen!Kinds |-> IF k \in DOMAIN change THEN change[k]
                                           ELSE Listen!GetPorts[k]]],
                 named |-> DOMAIN change,
                 before |-> net.held, todo |-> Listen!PatchSteps, left |-> {}]]
        BY <3>2 DEF Listen!PatchConfigs
      <4>2. PICK asks :
              asks = [state |-> "patch", solo |-> Listen!Active = {}, force |-> FALSE,
                      conf |-> [Listen!NoConf EXCEPT !.ports =
                        [k \in Listen!Kinds |-> IF k \in DOMAIN change THEN change[k]
                                                ELSE Listen!GetPorts[k]]],
                      named |-> DOMAIN change,
                      before |-> net.held, todo |-> Listen!PatchSteps, left |-> {}]
        OBVIOUS
      <4>3. asks.state = "patch"
        BY <4>2
      <4> QED
        BY <4>1, <4>2, <4>3
    <3> QED
      BY <1>5, <3>1, <3>2
  <2>2. Listen!Overlap[r].state = req[r].state
    <3>1. DOMAIN req[r] = ReqFields
      BY <1>1 DEF ReqType
    <3>2. Listen!Overlap[r] = IF r \in Listen!Active THEN [req[r] EXCEPT !.solo = FALSE] ELSE req[r]
      BY DEF Listen!Overlap
    <3> QED
      BY <3>1, <3>2 DEF ReqFields
  <2>3. DOMAIN Listen!Overlap = Requests
    BY DEF Listen!Overlap
  <2>4. q = r => req'[r] = asks
    BY <2>1, <2>3
  <2>5. q # r => req'[r] = Listen!Overlap[r]
    BY <2>1, <2>3
  <2> QED
    BY <1>2, <2>1, <2>2, <2>4, <2>5
<1>6. ASSUME NEW q \in Requests, Listen!Done(q) PROVE req[r].todo = <<>>
  <2>1. req' = [req EXCEPT ![q] = Listen!Resting("done")] /\ req[q].todo = <<>>
    BY <1>6 DEF Listen!Done
  <2>2. q # r => req'[r] = req[r]
    BY <1>1, <2>1
  <2> QED
    BY <1>2, <2>1, <2>2
<1>7. \A x \in Listen!Protos, p \in Ports : Listen!Toggle(x, p) => req' = req
  BY DEF Listen!Toggle
<1>8. \/ UNCHANGED listenerVars
      \/ \E q \in Requests :
           \/ Listen!ApplyConfig(q) \/ Listen!PatchConfigs(q) \/ Listen!Walk(q)
           \/ Listen!Step(q) \/ Listen!Done(q)
      \/ \E x \in Listen!Protos, p \in Ports : Listen!Toggle(x, p)
  BY DEF CoreNext, allVars, listenerVars, D, A, M, L, G, R, N
<1> QED
  BY <1>2, <1>3, <1>4, <1>5, <1>6, <1>7, <1>8

Obeyed ==
    /\ net' # net => Listen!NoSocketLeaks'
    /\ \A r \in Requests :
         req'[r].state = "done" /\ req[r].solo => Listen!LeftAsSaid(r)

LEMMA ObeyedStep ==
    ASSUME ListenersInv, [CoreNext]_allVars, Listen!NoSocketLeaks' PROVE [Obeyed]_(Listen!vars)
<1>1. ASSUME NEW r \in Requests, req'[r].state = "done", req[r].solo PROVE Listen!LeftAsSaid(r)
  <2>1. req[r].todo = <<>>
    BY <1>1, OnlyTheDoneEnd
  <2> QED
    BY <1>1, <2>1, AllDoneAsSaid
<1> QED
  BY <1>1 DEF Obeyed

(* Whatever configurations, patches and failures to listen overlap, every   *)
(* port the program holds is that of a listener that it can still close, but*)
(* for the one Shadowsocks loses; and a request with nothing beside it      *)
(* leaves open what it says: for any configurations, patches and ports.     *)
THEOREM RequestsObeyed == CoreSpec => RequestsAreObeyed
<1>1. CoreInit => ListenersInv
  BY ListenersInit DEF CoreInit
<1>2. ListenersInv /\ [CoreNext]_allVars => ListenersInv'
  BY ListenersStep
<1>3. ListenersInv => Listen!NoSocketLeaks
  BY NoSocketLeaksHere
<1>4. ListenersInv /\ [CoreNext]_allVars /\ Listen!NoSocketLeaks' => [Obeyed]_(Listen!vars)
  BY ObeyedStep
<1>5. RequestsAreObeyed <=> [][Obeyed]_(Listen!vars)
  BY DEF RequestsAreObeyed, Listen!RequestsAreObeyed, Obeyed
<1> QED
  BY <1>1, <1>2, <1>3, <1>4, <1>5, PTL DEF CoreSpec
=============================================================================
