------------------------------- MODULE MapProofs -------------------------------
(***************************************************************************)
(* For its callers the concurrent map is one map, for any number of        *)
(* goroutines, keys, values and calls and for tables of any size: a key is *)
(* in one slot of its bucket or in none, a writer that has passed its two  *)
(* checks is ahead of the copying, what has been copied is what a load     *)
(* finds, and the counter is off by what the calls still owe it.           *)
(***************************************************************************)
EXTENDS MCCore, FiniteSetTheorems, SequenceTheorems, WellFoundedInduction, TLAPS

(* The library's operators mean the same to the instance.                   *)
LEMMA FiniteHere == \A S : XMap!IsFiniteSet(S) <=> IsFiniteSet(S)
BY DEF XMap!IsFiniteSet, IsFiniteSet

LEMMA CardinalityHere == \A S : XMap!Cardinality(S) = Cardinality(S)
BY DEF XMap!Cardinality, Cardinality

(* ---- What a slot, a bucket with its chain and a table may hold. --------*)
Slot == {XMap!Empty} \cup (Keys \X Values)
Chain == [slots : Seq(Slot), holder : Threads \cup {Absent}]
Table == [buckets : Seq(Chain), size : Int, clear : BOOLEAN]

Writing == {"checkResizing", "checkTable", "apply"}
Resizing == {"make", "copy", "publish", "finish"}
InResize == {"resize", "wait"} \cup Resizing
Points == {"idle", "attempt", "scan", "lock", "size"} \cup Writing \cup InResize

Thread ==
    [pc : Points, fn : Functions \cup {"load"}, key : Keys, val : Values \cup {Absent}, tab : Nat,
     delta : {-1, 0, 1}, hint : {"grow", "shrink", "clear"}, new : Table, copied : Nat,
     slot : Nat, found : Values \cup {Absent}, lost : BOOLEAN]

MapTyped ==
    /\ tables \in Seq(Table) /\ cur = Len(tables) /\ cur # 0
    /\ resizing \in BOOLEAN
    /\ th \in [Threads -> Thread]
    /\ abs \in [Keys -> Values \cup {Absent}]
    /\ held \in [Threads -> SUBSET (Values \cup {Absent})]
    /\ \A t \in Threads : th[t].tab \in 1 .. cur /\ (th[t].pc # "idle" => th[t].val \in Values)

(* A key is in its bucket or nowhere, and once.                             *)
GoodSlots(s, b, n) ==
    /\ Len(s) # 0
    /\ \A i \in 1 .. Len(s) : s[i] # XMap!Empty => XMap!Bucket(n, s[i][1]) = b
    /\ \A i, j \in 1 .. Len(s) : s[i] # XMap!Empty /\ s[j] # XMap!Empty /\ s[i][1] = s[j][1] => i = j

GoodTable(T) ==
    /\ Len(T.buckets) # 0
    /\ \A b \in 1 .. Len(T.buckets) : GoodSlots(T.buckets[b].slots, b, Len(T.buckets))

Lookup(T, k) == XMap!Found(T.buckets[XMap!Bucket(Len(T.buckets), k)].slots, k)
Present(T) == {k \in Keys : Lookup(T, k) # Absent}

(* MinLen and what doubling makes of it.                                    *)
Doubling(S) == MinLen \in S /\ \A n \in S : 2 * n \in S
Lens == {n \in Nat : \A S \in SUBSET Nat : Doubling(S) => n \in S}

TablesGood == \A i \in 1 .. cur : GoodTable(tables[i]) /\ XMap!TableLen(i) \in Lens

HolderOk(t) ==
    /\ th[t].pc \in Writing => tables[th[t].tab].buckets[XMap!Mine(t)].holder = t
    /\ th[t].pc = "copy" /\ th[t].slot # 0 => tables[cur].buckets[th[t].copied + 1].holder = t

FlagInv ==
    /\ \A t \in Threads : th[t].pc \in Resizing => resizing
    /\ \A t, u \in Threads : th[t].pc \in Resizing /\ th[u].pc \in Resizing => t = u

(* The resize of u, if it keeps the contents, is not past bucket b.         *)
Open(u, b) ==
    /\ th[u].pc = "copy" => th[u].copied < b
    /\ th[u].pc = "publish" => th[u].hint = "clear"

(* A writer past its checks is ahead of any copying, or a Clear has         *)
(* overtaken it.                                                            *)
WriterOk(t) ==
    /\ th[t].pc \in {"checkTable", "apply"} /\ th[t].tab = cur => \A u \in Threads : Open(u, XMap!Mine(t))
    /\ th[t].pc = "apply" /\ th[t].tab # cur => XMap!Overtaken(t)

Part(s, j, k) == IF \E i \in 1 .. j : s[i] # XMap!Empty /\ s[i][1] = k THEN XMap!Found(s, k) ELSE Absent

(* What table T holds up to slot j of bucket c + 1.                         *)
UpTo(T, c, j, k) ==
    CASE XMap!Bucket(Len(T.buckets), k) <= c -> Lookup(T, k)
      [] XMap!Bucket(Len(T.buckets), k) = c + 1 -> Part(T.buckets[c + 1].slots, j, k)
      [] OTHER -> Absent

CopyOk(t) ==
    /\ th[t].pc = "make" => th[t].copied = 0 /\ th[t].slot = 0
    /\ th[t].pc \in {"copy", "publish"} =>
         /\ GoodTable(th[t].new) /\ Len(th[t].new.buckets) \in Lens
         /\ th[t].new.clear = (th[t].hint = "clear")
         /\ th[t].new.size = Cardinality(Present(th[t].new))
    /\ th[t].pc = "copy" =>
         /\ th[t].hint # "clear"
         /\ th[t].copied < XMap!TableLen(cur)
         /\ th[t].slot < Len(tables[cur].buckets[th[t].copied + 1].slots)
         /\ \A k \in Keys : Lookup(th[t].new, k) = UpTo(tables[cur], th[t].copied, th[t].slot, k)
    /\ th[t].pc = "publish" =>
         \A k \in Keys :
           Lookup(th[t].new, k) = IF th[t].hint = "clear" THEN Absent ELSE Lookup(tables[cur], k)

NothingLost == \A k \in Keys : abs[k] = Lookup(tables[cur], k)

HistoryOk(t) ==
    /\ th[t].pc # "idle" => abs[th[t].key] \in held[t]
    /\ th[t].pc \notin {"idle", "attempt"} => Lookup(tables[th[t].tab], th[t].key) \in held[t]

FoundOk(t) ==
    /\ th[t].hint = "clear" => th[t].fn = "clear"
    /\ th[t].pc \in {"scan", "lock"} \cup Writing => th[t].hint = "grow"
    /\ th[t].pc = "size" => th[t].hint # "clear" /\ th[t].found \in held[t] /\ th[t].delta # 0
    /\ th[t].pc \in InResize /\ th[t].hint = "shrink" => th[t].found \in held[t]
    /\ th[t].pc \notin {"idle", "size"} /\ (th[t].pc \in InResize => th[t].hint # "shrink")
         => th[t].found = Absent
    /\ th[t].pc = "finish" /\ th[t].hint = "clear" => th[t].found \in held[t]
    /\ th[t].pc = "idle" => th[t].found \in held[t] \/ (th[t].fn = "clear" /\ th[t].lost)

(* What the calls still owe to the counter of the published table.          *)
Owing(d) == {t \in Threads : th[t].pc = "size" /\ th[t].tab = cur /\ th[t].delta = d}
SizeInv ==
    tables[cur].size + Cardinality(Owing(1)) = Cardinality(Present(tables[cur])) + Cardinality(Owing(-1))

MapInv ==
    /\ MapTyped /\ TablesGood /\ FlagInv /\ NothingLost /\ SizeInv
    /\ \A t \in Threads : HolderOk(t) /\ WriterOk(t) /\ CopyOk(t) /\ HistoryOk(t) /\ FoundOk(t)

(* ---- The least place. --------------------------------------------------*)
LEMMA FirstIs ==
  ASSUME NEW S \in SUBSET Nat, S # {}
  PROVE  XMap!First(S) \in S
<1>1. PICK x \in S : \A y \in S : ~ (<<y, x>> \in OpToRel(<, Nat))
  BY NatLessThanWellFounded, WFMin, Zenon
<1>2. \A y \in S : x <= y
  <2> TAKE y \in S
  <2>1. x \in Nat /\ y \in Nat
    OBVIOUS
  <2>2. ~(y < x)
    <3> SUFFICES ASSUME y < x PROVE FALSE
      OBVIOUS
    <3>1. <<y, x>> \in Nat \X Nat /\ <<y, x>>[1] < <<y, x>>[2]
      BY <2>1
    <3> QED
      BY <1>1, <3>1, Zenon DEF OpToRel
  <2> QED
    BY <2>1, <2>2
<1> QED
  BY <1>2 DEF XMap!First

LEMMA EmptyIsNone == XMap!Empty \notin Keys \X Values
BY DEF XMap!Empty

LEMMA SlotIs ==
  ASSUME NEW e \in Slot, e # XMap!Empty
  PROVE  e[1] \in Keys /\ e[2] \in Values /\ e = <<e[1], e[2]>> /\ e[2] # Absent
BY MapAssumption DEF Slot, XMap!Sane

(* ---- What is found in a chain of slots. ---------------------------------*)
LEMMA FoundAt ==
  ASSUME NEW s \in Seq(Slot), NEW b, NEW n, GoodSlots(s, b, n), NEW i \in 1 .. Len(s), s[i] # XMap!Empty
  PROVE  XMap!Found(s, s[i][1]) = s[i][2] /\ XMap!Places(s, s[i][1]) = {i}
<1>1. XMap!Places(s, s[i][1]) = {i}
  BY DEF XMap!Places, GoodSlots
<1>2. XMap!First({i}) \in {i}
  <2>1. {i} \in SUBSET Nat /\ {i} # {}
    OBVIOUS
  <2> QED
    BY <2>1, FirstIs
<1> QED
  BY <1>1, <1>2 DEF XMap!Found

LEMMA FoundOr ==
  ASSUME NEW s \in Seq(Slot), NEW k
  PROVE  \/ XMap!Places(s, k) = {} /\ XMap!Found(s, k) = Absent
         \/ /\ XMap!First(XMap!Places(s, k)) \in 1 .. Len(s) /\ s[XMap!First(XMap!Places(s, k))] # XMap!Empty
            /\ s[XMap!First(XMap!Places(s, k))][1] = k /\ XMap!Found(s, k) = s[XMap!First(XMap!Places(s, k))][2]
            /\ XMap!Found(s, k) # Absent /\ XMap!Places(s, k) # {}
<1>1. CASE XMap!Places(s, k) = {}
  BY <1>1 DEF XMap!Found
<1>2. CASE XMap!Places(s, k) # {}
  <2>1. XMap!Places(s, k) \in SUBSET Nat
    BY LenProperties DEF XMap!Places
  <2>2. XMap!First(XMap!Places(s, k)) \in XMap!Places(s, k)
    BY <1>2, <2>1, FirstIs
  <2>3. XMap!First(XMap!Places(s, k)) \in 1 .. Len(s) /\ s[XMap!First(XMap!Places(s, k))] # XMap!Empty
        /\ s[XMap!First(XMap!Places(s, k))][1] = k
    BY <2>2 DEF XMap!Places
  <2>4. s[XMap!First(XMap!Places(s, k))] \in Slot
    BY <2>3, ElementOfSeq
  <2>5. s[XMap!First(XMap!Places(s, k))][2] # Absent
    BY <2>3, <2>4, SlotIs
  <2> QED
    BY <1>2, <2>3, <2>5 DEF XMap!Found
<1> QED
  BY <1>1, <1>2

LEMMA FoundNone ==
  ASSUME NEW s \in Seq(Slot), NEW k
  PROVE  XMap!Found(s, k) = Absent <=> \A i \in 1 .. Len(s) : s[i] = XMap!Empty \/ s[i][1] # k
<1>1. XMap!Places(s, k) = {} <=> \A i \in 1 .. Len(s) : s[i] = XMap!Empty \/ s[i][1] # k
  BY DEF XMap!Places
<1>2. XMap!Places(s, k) = {} <=> XMap!Found(s, k) = Absent
  BY FoundOr
<1> QED
  BY <1>1, <1>2

LEMMA FoundSome ==
  ASSUME NEW s \in Seq(Slot), NEW k, XMap!Found(s, k) # Absent
  PROVE  \E i \in 1 .. Len(s) : s[i] # XMap!Empty /\ s[i][1] = k /\ s[i][2] = XMap!Found(s, k)
<1>1. /\ XMap!First(XMap!Places(s, k)) \in 1 .. Len(s) /\ s[XMap!First(XMap!Places(s, k))] # XMap!Empty
      /\ s[XMap!First(XMap!Places(s, k))][1] = k /\ XMap!Found(s, k) = s[XMap!First(XMap!Places(s, k))][2]
  BY FoundOr
<1> QED
  BY <1>1

LEMMA FoundType ==
  ASSUME NEW s \in Seq(Slot), NEW k
  PROVE  XMap!Found(s, k) \in Values \cup {Absent}
<1>1. CASE XMap!Places(s, k) = {} /\ XMap!Found(s, k) = Absent
  BY <1>1
<1>2. CASE /\ XMap!First(XMap!Places(s, k)) \in 1 .. Len(s) /\ s[XMap!First(XMap!Places(s, k))] # XMap!Empty
           /\ XMap!Found(s, k) = s[XMap!First(XMap!Places(s, k))][2]
  BY <1>2, ElementOfSeq, SlotIs
<1> QED
  BY <1>1, <1>2, FoundOr

(* One place changes. *)
(* q is s with value v under key k.                                         *)
Replaces(s, q, b, n, k, v) ==
    /\ q \in Seq(Slot) /\ GoodSlots(q, b, n)
    /\ \A j \in Keys : XMap!Found(q, j) = IF j = k THEN v ELSE XMap!Found(s, j)
Over(s, i, e) == [s EXCEPT ![i] = e]
Fits(s, b, n, i, k) ==
    /\ GoodSlots(s, b, n) /\ i \in 1 .. Len(s) /\ XMap!Bucket(n, k) = b
    /\ (s[i] # XMap!Empty /\ s[i][1] = k) \/ (s[i] = XMap!Empty /\ XMap!Found(s, k) = Absent)

LEMMA PutAt ==
  ASSUME NEW s \in Seq(Slot), NEW b, NEW n, NEW i, NEW k \in Keys, NEW v \in Values, Fits(s, b, n, i, k)
  PROVE  Replaces(s, Over(s, i, <<k, v>>), b, n, k, v)
<1> DEFINE e == <<k, v>>
           r == [s EXCEPT ![i] = e]
<1>0. /\ GoodSlots(s, b, n) /\ i \in 1 .. Len(s) /\ XMap!Bucket(n, k) = b
      /\ s[i] # XMap!Empty => s[i][1] = k
      /\ s[i] = XMap!Empty => XMap!Found(s, k) = Absent
  BY DEF Fits
<1>1. e \in Slot /\ e # XMap!Empty /\ e[1] = k /\ e[2] = v
  BY EmptyIsNone DEF Slot
<1> HIDE DEF e
<1>2. r \in Seq(Slot) /\ Len(r) = Len(s) /\ \A j \in 1 .. Len(s) : r[j] = IF j = i THEN e ELSE s[j]
  BY <1>0, <1>1, ExceptSeq
<1> HIDE DEF r
<1>3. \A j \in 1 .. Len(s) : s[j] # XMap!Empty /\ s[j][1] = k => j = i
  BY <1>0, FoundNone DEF GoodSlots
<1>4. GoodSlots(r, b, n)
  BY <1>0, <1>1, <1>2, <1>3 DEF GoodSlots
<1>5. XMap!Found(r, k) = v
  BY <1>0, <1>1, <1>2, <1>4, FoundAt
<1>6. ASSUME NEW j \in Keys, j # k PROVE XMap!Found(r, j) = XMap!Found(s, j)
  <2>1. \A m \in 1 .. Len(s) : r[m] # XMap!Empty /\ r[m][1] = j <=> s[m] # XMap!Empty /\ s[m][1] = j
    BY <1>0, <1>1, <1>2, <1>6
  <2>2. \A m \in 1 .. Len(s) : r[m] # XMap!Empty /\ r[m][1] = j => r[m] = s[m]
    BY <1>0, <1>1, <1>2, <1>6
  <2>3. CASE XMap!Found(s, j) = Absent
    BY <1>0, <1>2, <2>1, <2>3, FoundNone
  <2>4. CASE XMap!Found(s, j) # Absent
    <3>1. PICK m \in 1 .. Len(s) : s[m] # XMap!Empty /\ s[m][1] = j /\ s[m][2] = XMap!Found(s, j)
      BY <1>0, <2>4, FoundSome
    <3>2. r[m] # XMap!Empty /\ r[m][1] = j /\ r[m] = s[m] /\ m \in 1 .. Len(r)
      BY <1>0, <1>2, <2>1, <2>2, <3>1
    <3> QED
      BY <1>0, <1>2, <1>4, <3>1, <3>2, FoundAt
  <2> QED
    BY <1>0, <2>3, <2>4
<1> QED
  BY <1>0, <1>2, <1>4, <1>5, <1>6 DEF r, e, Over, Replaces

LEMMA RemoveAt ==
  ASSUME NEW s \in Seq(Slot), NEW b, NEW n, GoodSlots(s, b, n), NEW i \in 1 .. Len(s),
         NEW k \in Keys, s[i] # XMap!Empty, s[i][1] = k
  PROVE  /\ [s EXCEPT ![i] = XMap!Empty] \in Seq(Slot)
         /\ GoodSlots([s EXCEPT ![i] = XMap!Empty], b, n)
         /\ \A j \in Keys : XMap!Found([s EXCEPT ![i] = XMap!Empty], j) = IF j = k THEN Absent ELSE XMap!Found(s, j)
<1> DEFINE r == [s EXCEPT ![i] = XMap!Empty]
<1>1. r \in Seq(Slot) /\ Len(r) = Len(s) /\ \A j \in 1 .. Len(s) : r[j] = IF j = i THEN XMap!Empty ELSE s[j]
  BY ExceptSeq DEF Slot
<1> HIDE DEF r
<1>2. \A j \in 1 .. Len(s) : s[j] # XMap!Empty /\ s[j][1] = k => j = i
  BY DEF GoodSlots
<1>3. GoodSlots(r, b, n)
  BY <1>1 DEF GoodSlots
<1>4. XMap!Found(r, k) = Absent
  BY <1>1, <1>2, FoundNone
<1>5. ASSUME NEW j \in Keys, j # k PROVE XMap!Found(r, j) = XMap!Found(s, j)
  <2>1. CASE XMap!Found(s, j) = Absent
    BY <1>1, <2>1, FoundNone
  <2>2. CASE XMap!Found(s, j) # Absent
    <3>1. PICK m \in 1 .. Len(s) : s[m] # XMap!Empty /\ s[m][1] = j /\ s[m][2] = XMap!Found(s, j)
      BY <2>2, FoundSome
    <3>2. r[m] = s[m] /\ m \in 1 .. Len(r)
      BY <1>1, <3>1, <1>5
    <3> QED
      BY <1>1, <1>3, <3>1, <3>2, FoundAt
  <2> QED
    BY <2>1, <2>2
<1> QED
  BY <1>1, <1>3, <1>4, <1>5 DEF r

(* A bucket is appended to the chain. *)
Longer(s, e) == Append(s, e) \o [i \in 1 .. Entries - 1 |-> XMap!Empty]

LEMMA Chained ==
  ASSUME NEW s \in Seq(Slot), NEW b, NEW n, GoodSlots(s, b, n), NEW k \in Keys, XMap!Bucket(n, k) = b,
         NEW v \in Values, XMap!Found(s, k) = Absent
  PROVE  /\ Longer(s, <<k, v>>) \in Seq(Slot) /\ GoodSlots(Longer(s, <<k, v>>), b, n)
         /\ \A j \in Keys : XMap!Found(Longer(s, <<k, v>>), j) = IF j = k THEN v ELSE XMap!Found(s, j)
<1> DEFINE e == <<k, v>>
           p == [i \in 1 .. Entries - 1 |-> XMap!Empty]
           q == Append(s, e)
           r == Longer(s, e)
<1>1. e \in Slot /\ e # XMap!Empty /\ e[1] = k /\ e[2] = v
  BY EmptyIsNone DEF Slot
<1>2. Entries - 1 \in Nat
  BY MapAssumption DEF XMap!Sane
<1>3. p \in Seq(Slot) /\ Len(p) = Entries - 1 /\ \A i \in 1 .. Entries - 1 : p[i] = XMap!Empty
  BY <1>2 DEF Slot
<1> HIDE DEF e
<1>4. q \in Seq(Slot) /\ Len(q) = Len(s) + 1 /\ \A i \in 1 .. Len(s) + 1 : q[i] = IF i <= Len(s) THEN s[i] ELSE e
  BY <1>1
<1>0. r = q \o p
  BY DEF Longer
<1> HIDE DEF p, q, r
<1>12. /\ q \o p \in Seq(Slot) /\ Len(q \o p) = Len(q) + Len(p)
        /\ \A i \in 1 .. Len(q) + Len(p) : (q \o p)[i] = IF i <= Len(q) THEN q[i] ELSE p[i - Len(q)]
  BY <1>3, <1>4, ConcatProperties, Zenon
<1>5. r \in Seq(Slot) /\ Len(r) = Len(s) + 1 + (Entries - 1)
  BY <1>3, <1>4, <1>0, <1>12
<1>6. ASSUME NEW i \in 1 .. Len(r)
      PROVE  r[i] = IF i <= Len(s) THEN s[i] ELSE IF i = Len(s) + 1 THEN e ELSE XMap!Empty
  <2>1. r[i] = IF i <= Len(q) THEN q[i] ELSE p[i - Len(q)]
    BY <1>3, <1>4, <1>5, <1>0, <1>12
  <2>2. Len(s) \in Nat /\ Len(q) = Len(s) + 1
    BY <1>4, LenProperties
  <2>3. CASE i <= Len(q)
    BY <1>4, <2>1, <2>2, <2>3
  <2>4. CASE ~(i <= Len(q))
    <3>1. i - Len(q) \in 1 .. Entries - 1
      BY <1>2, <1>5, <2>2, <2>4
    <3> QED
      BY <1>3, <2>1, <2>2, <2>4, <3>1
  <2> QED
    BY <2>3, <2>4
<1>7. Len(s) \in Nat /\ Len(s) + 1 \in 1 .. Len(r) /\ Len(s) <= Len(r)
  BY <1>2, <1>5, LenProperties
<1>8. \A i \in 1 .. Len(s) : s[i] = XMap!Empty \/ s[i][1] # k
  BY FoundNone
<1>9. GoodSlots(r, b, n)
  <2>1. Len(r) # 0
    BY <1>7
  <2>2. ASSUME NEW i \in 1 .. Len(r), r[i] # XMap!Empty PROVE XMap!Bucket(n, r[i][1]) = b
    BY <1>1, <1>6, <1>7, <2>2 DEF GoodSlots
  <2>3. ASSUME NEW i \in 1 .. Len(r), NEW j \in 1 .. Len(r), r[i] # XMap!Empty, r[j] # XMap!Empty, r[i][1] = r[j][1]
        PROVE  i = j
    <3>1. i <= Len(s) + 1 /\ j <= Len(s) + 1
      BY <1>6, <1>7, <2>3
    <3>2. CASE i = Len(s) + 1 \/ j = Len(s) + 1
      BY <1>1, <1>6, <1>7, <1>8, <2>3, <3>1, <3>2
    <3>3. CASE i # Len(s) + 1 /\ j # Len(s) + 1
      <4>1. i \in 1 .. Len(s) /\ j \in 1 .. Len(s)
        BY <1>7, <3>1, <3>3
      <4> QED
        BY <1>6, <2>3, <4>1 DEF GoodSlots
    <3> QED
      BY <3>2, <3>3
  <2> QED
    BY <2>1, <2>2, <2>3 DEF GoodSlots
<1>10. XMap!Found(r, k) = v
  <2>1. r[Len(s) + 1] = e
    BY <1>6, <1>7
  <2> QED
    BY <1>1, <1>5, <1>7, <1>9, <2>1, FoundAt
<1>11. ASSUME NEW j \in Keys, j # k PROVE XMap!Found(r, j) = XMap!Found(s, j)
  <2>1. CASE XMap!Found(s, j) = Absent
    <3>1. \A i \in 1 .. Len(s) : s[i] = XMap!Empty \/ s[i][1] # j
      BY <2>1, FoundNone
    <3>2. \A i \in 1 .. Len(r) : r[i] = XMap!Empty \/ r[i][1] # j
      <4> TAKE i \in 1 .. Len(r)
      <4>1. CASE i <= Len(s)
        BY <1>6, <1>7, <3>1, <4>1
      <4>2. CASE ~(i <= Len(s))
        BY <1>1, <1>6, <1>11, <4>2
      <4> QED
        BY <4>1, <4>2
    <3> QED
      BY <1>5, <2>1, <3>2, FoundNone
  <2>2. CASE XMap!Found(s, j) # Absent
    <3>1. PICK m \in 1 .. Len(s) : s[m] # XMap!Empty /\ s[m][1] = j /\ s[m][2] = XMap!Found(s, j)
      BY <2>2, FoundSome
    <3>2. m \in 1 .. Len(r) /\ r[m] = s[m]
      BY <1>6, <1>7, <3>1
    <3> QED
      BY <1>5, <1>9, <3>1, <3>2, FoundAt
  <2> QED
    BY <2>1, <2>2
<1> QED
  BY <1>5, <1>9, <1>10, <1>11 DEF r, e

LEMMA InsertIs ==
  ASSUME NEW s \in Seq(Slot), NEW b, NEW n, GoodSlots(s, b, n), NEW k \in Keys, XMap!Bucket(n, k) = b,
         NEW v \in Values, XMap!Found(s, k) = Absent
  PROVE  /\ XMap!Insert(s, <<k, v>>) \in Seq(Slot)
         /\ GoodSlots(XMap!Insert(s, <<k, v>>), b, n)
         /\ \A j \in Keys : XMap!Found(XMap!Insert(s, <<k, v>>), j) = IF j = k THEN v ELSE XMap!Found(s, j)
<1>1. CASE XMap!EmptySlots(s) # {}
  <2>1. XMap!EmptySlots(s) \in SUBSET Nat
    BY LenProperties DEF XMap!EmptySlots
  <2>2. XMap!First(XMap!EmptySlots(s)) \in XMap!EmptySlots(s)
    BY <1>1, <2>1, FirstIs
  <2>3. XMap!First(XMap!EmptySlots(s)) \in 1 .. Len(s) /\ s[XMap!First(XMap!EmptySlots(s))] = XMap!Empty
    BY <2>2 DEF XMap!EmptySlots
  <2>4. XMap!Insert(s, <<k, v>>) = Over(s, XMap!First(XMap!EmptySlots(s)), <<k, v>>)
    BY <1>1 DEF XMap!Insert, Over
  <2> QED
    BY <2>3, <2>4, PutAt DEF Fits, Replaces
<1>2. CASE XMap!EmptySlots(s) = {}
  <2>1. XMap!Insert(s, <<k, v>>) = Longer(s, <<k, v>>)
    BY <1>2 DEF XMap!Insert, Longer
  <2>2. /\ Longer(s, <<k, v>>) \in Seq(Slot) /\ GoodSlots(Longer(s, <<k, v>>), b, n)
        /\ \A j \in Keys : XMap!Found(Longer(s, <<k, v>>), j) = IF j = k THEN v ELSE XMap!Found(s, j)
    BY Chained
  <2> QED
    BY <2>1, <2>2, Zenon
<1> QED
  BY <1>1, <1>2

(* ---- Tables. ------------------------------------------------------------*)
LEMMA BucketIn ==
  ASSUME NEW n \in Nat, n # 0, NEW k \in Keys
  PROVE  XMap!Bucket(n, k) \in 1 .. n
BY MapAssumption DEF XMap!Bucket, XMap!Sane

LEMMA NewTableType ==
  ASSUME NEW n \in Nat, NEW c \in BOOLEAN
  PROVE  /\ XMap!NewTable(n, c) \in Table /\ Len(XMap!NewTable(n, c).buckets) = n
         /\ XMap!NewTable(n, c).size = 0 /\ XMap!NewTable(n, c).clear = c
         /\ \A b \in 1 .. n : XMap!NewTable(n, c).buckets[b] = XMap!NewBucket
<1>1. XMap!NewBucket \in Chain
  BY MapAssumption DEF XMap!NewBucket, Chain, Slot, XMap!Sane
<1> QED
  BY <1>1 DEF XMap!NewTable, Table

LEMMA NewSlots == Len(XMap!NewBucket.slots) = Entries /\ \A i \in 1 .. Entries : XMap!NewBucket.slots[i] = XMap!Empty
BY MapAssumption DEF XMap!NewBucket, XMap!Sane

LEMMA NewTableIs ==
  ASSUME NEW n \in Nat, n # 0, NEW c \in BOOLEAN
  PROVE  /\ GoodTable(XMap!NewTable(n, c))
         /\ \A k \in Keys : Lookup(XMap!NewTable(n, c), k) = Absent
<1>1. /\ XMap!NewTable(n, c) \in Table /\ Len(XMap!NewTable(n, c).buckets) = n
      /\ \A b \in 1 .. n : XMap!NewTable(n, c).buckets[b] = XMap!NewBucket
  BY NewTableType
<1>2. Entries \in Nat \ {0}
  BY MapAssumption DEF XMap!Sane
<1>3. GoodTable(XMap!NewTable(n, c))
  <2>1. \A b : GoodSlots(XMap!NewBucket.slots, b, n)
    BY <1>2, NewSlots DEF GoodSlots
  <2> QED
    BY <1>1, <2>1 DEF GoodTable
<1>4. \A k \in Keys : Lookup(XMap!NewTable(n, c), k) = Absent
  <2> TAKE k \in Keys
  <2>1. XMap!NewTable(n, c).buckets[XMap!Bucket(n, k)] = XMap!NewBucket
    BY <1>1, BucketIn
  <2>2. XMap!Places(XMap!NewBucket.slots, k) = {}
    BY <1>2, NewSlots DEF XMap!Places
  <2> QED
    BY <1>1, <2>1, <2>2 DEF Lookup, XMap!Found
<1> QED
  BY <1>3, <1>4

LEMMA ChainOf ==
  ASSUME NEW T \in Table, NEW b \in 1 .. Len(T.buckets)
  PROVE  T.buckets[b] \in Chain /\ T.buckets[b].slots \in Seq(Slot)
<1>1. T.buckets \in Seq(Chain)
  BY DEF Table
<1>2. T.buckets[b] \in Chain
  BY <1>1, ElementOfSeq
<1> QED
  BY <1>2 DEF Chain

LEMMA LenOf ==
  ASSUME NEW T \in Table, GoodTable(T)
  PROVE  /\ Len(T.buckets) \in Nat \ {0}
         /\ \A k \in Keys : /\ XMap!Bucket(Len(T.buckets), k) \in 1 .. Len(T.buckets)
                            /\ T.buckets[XMap!Bucket(Len(T.buckets), k)].slots \in Seq(Slot)
<1>1. Len(T.buckets) \in Nat \ {0}
  BY DEF Table, GoodTable
<1> QED
  BY <1>1, BucketIn, ChainOf

LEMMA LookupType ==
  ASSUME NEW T \in Table, GoodTable(T), NEW k \in Keys
  PROVE  Lookup(T, k) \in Values \cup {Absent}
BY LenOf, FoundType DEF Lookup

(* Table U is T with the slots of the bucket of k replaced: k has value v.  *)
PutIn(T, U, k, v) ==
    LET n == Len(T.buckets)
        b == XMap!Bucket(n, k)
    IN /\ Len(U.buckets) = n
       /\ GoodSlots(U.buckets[b].slots, b, n)
       /\ \A j \in Keys :
            XMap!Found(U.buckets[b].slots, j) = IF j = k THEN v ELSE XMap!Found(T.buckets[b].slots, j)
       /\ \A c \in 1 .. n : c # b => U.buckets[c].slots = T.buckets[c].slots

LEMMA PutChain ==
  ASSUME NEW T \in Table, GoodTable(T), NEW U \in Table, NEW k \in Keys, NEW v, PutIn(T, U, k, v)
  PROVE  GoodTable(U) /\ \A j \in Keys : Lookup(U, j) = IF j = k THEN v ELSE Lookup(T, j)
<1>1. GoodTable(U)
  BY DEF GoodTable, PutIn
<1>2. ASSUME NEW j \in Keys PROVE Lookup(U, j) = IF j = k THEN v ELSE Lookup(T, j)
  <2>1. XMap!Bucket(Len(T.buckets), j) \in 1 .. Len(T.buckets)
    BY LenOf
  <2> QED
    BY <2>1 DEF Lookup, PutIn
<1> QED
  BY <1>1, <1>2

(* A table is what its slots are.                                           *)
LEMMA SameSlots ==
  ASSUME NEW T \in Table, GoodTable(T), NEW U \in Table, Len(U.buckets) = Len(T.buckets),
         \A b \in 1 .. Len(T.buckets) : U.buckets[b].slots = T.buckets[b].slots
  PROVE  GoodTable(U) /\ \A j \in Keys : Lookup(U, j) = Lookup(T, j)
<1>1. GoodTable(U)
  BY DEF GoodTable
<1>2. ASSUME NEW j \in Keys PROVE Lookup(U, j) = Lookup(T, j)
  <2>1. XMap!Bucket(Len(T.buckets), j) \in 1 .. Len(T.buckets)
    BY LenOf
  <2> QED
    BY <2>1 DEF Lookup
<1> QED
  BY <1>1, <1>2

LEMMA PresentFinite ==
  ASSUME NEW T PROVE IsFiniteSet(Present(T)) /\ Cardinality(Present(T)) \in Nat
<1>1. Present(T) \in SUBSET Keys
  BY DEF Present
<1> QED
  BY <1>1, MapAssumption, FiniteHere, FS_Subset, FS_CardinalityType DEF XMap!Sane

LEMMA PresentSame ==
  ASSUME NEW T, NEW U, \A j \in Keys : Lookup(U, j) = Lookup(T, j)
  PROVE  Present(U) = Present(T)
BY DEF Present

(* One more key, one less, or another value.                                *)
LEMMA PresentPut ==
  ASSUME NEW T, NEW U, NEW k \in Keys, NEW v,
         \A j \in Keys : Lookup(U, j) = IF j = k THEN v ELSE Lookup(T, j)
  PROVE  /\ v # Absent /\ Lookup(T, k) = Absent => Cardinality(Present(U)) = Cardinality(Present(T)) + 1
         /\ v = Absent /\ Lookup(T, k) # Absent => Cardinality(Present(U)) = Cardinality(Present(T)) - 1
         /\ v # Absent /\ Lookup(T, k) # Absent => Present(U) = Present(T)
<1>1. ASSUME v # Absent, Lookup(T, k) = Absent
      PROVE Cardinality(Present(U)) = Cardinality(Present(T)) + 1
  <2>1. Present(U) = Present(T) \cup {k} /\ k \notin Present(T)
    BY <1>1 DEF Present
  <2> QED
    BY <2>1, PresentFinite, FS_AddElement
<1>2. ASSUME v = Absent, Lookup(T, k) # Absent
      PROVE Cardinality(Present(U)) = Cardinality(Present(T)) - 1
  <2>1. Present(U) = Present(T) \ {k} /\ k \in Present(T)
    BY <1>2 DEF Present
  <2> QED
    BY <2>1, PresentFinite, FS_RemoveElement
<1>3. ASSUME v # Absent, Lookup(T, k) # Absent PROVE Present(U) = Present(T)
  BY <1>3 DEF Present
<1> QED
  BY <1>1, <1>2, <1>3

LEMMA AddIs ==
  ASSUME NEW T \in Table, GoodTable(T), NEW k \in Keys, NEW v \in Values, Lookup(T, k) = Absent
  PROVE  /\ XMap!Add(T, <<k, v>>) \in Table /\ GoodTable(XMap!Add(T, <<k, v>>))
         /\ XMap!Add(T, <<k, v>>).clear = T.clear /\ XMap!Add(T, <<k, v>>).size = T.size + 1
         /\ Len(XMap!Add(T, <<k, v>>).buckets) = Len(T.buckets)
         /\ \A j \in Keys : Lookup(XMap!Add(T, <<k, v>>), j) = IF j = k THEN v ELSE Lookup(T, j)
<1> DEFINE n == Len(T.buckets)
           b == XMap!Bucket(n, k)
           s == T.buckets[b].slots
           r == XMap!Insert(s, <<k, v>>)
           U == XMap!Add(T, <<k, v>>)
           c0 == [T.buckets[b] EXCEPT !.slots = r]
           w == [T.buckets EXCEPT ![b] = c0]
<1>2. n \in Nat \ {0} /\ b \in 1 .. n /\ s \in Seq(Slot) /\ GoodSlots(s, b, n)
  BY LenOf DEF GoodTable
<1>3. XMap!Found(s, k) = Absent
  BY DEF Lookup
<1>4. /\ r \in Seq(Slot) /\ GoodSlots(r, b, n)
      /\ \A j \in Keys : XMap!Found(r, j) = IF j = k THEN v ELSE XMap!Found(s, j)
  <2>1. XMap!Bucket(n, k) = b
    OBVIOUS
  <2> HIDE DEF b, n, s
  <2> QED
    BY <1>2, <1>3, <2>1, InsertIs
<1>5. T \in [buckets : Seq(Chain), size : Int, clear : BOOLEAN]
  BY DEF Table
<1>6. U = [T EXCEPT !.size = @ + 1, !.buckets = w]
  BY <1>5 DEF XMap!Add
<1> HIDE DEF r, U
<1>7. T.buckets \in Seq(Chain) /\ T.buckets[b] \in Chain /\ b \in 1 .. Len(T.buckets)
  BY <1>2, <1>5, ElementOfSeq
<1>8. c0 \in Chain /\ c0.slots = r
  BY <1>4, <1>7 DEF Chain
<1> HIDE DEF c0
<1>9. w \in Seq(Chain) /\ Len(w) = n /\ \A c \in 1 .. n : w[c] = IF c = b THEN c0 ELSE T.buckets[c]
  BY <1>7, <1>8, ExceptSeq
<1> HIDE DEF w
<1>10. U \in Table /\ U.size = T.size + 1 /\ U.clear = T.clear /\ U.buckets = w
  <2>1. U.size = T.size + 1 /\ U.clear = T.clear /\ U.buckets = w
    BY <1>5, <1>6
  <2>2. U = [buckets |-> w, size |-> T.size + 1, clear |-> T.clear]
    BY <1>5, <1>6
  <2>3. T.size + 1 \in Int /\ T.clear \in BOOLEAN
    BY <1>5
  <2> QED
    BY <1>9, <2>1, <2>2, <2>3 DEF Table
<1>11. \A c \in 1 .. n : U.buckets[c].slots = IF c = b THEN r ELSE T.buckets[c].slots
  BY <1>8, <1>9, <1>10
<1>12. GoodTable(U) /\ \A j \in Keys : Lookup(U, j) = IF j = k THEN v ELSE Lookup(T, j)
  <2>1. PutIn(T, U, k, v)
    BY <1>2, <1>4, <1>9, <1>10, <1>11 DEF PutIn
  <2> QED
    BY <1>10, <2>1, PutChain
<1> QED
  BY <1>9, <1>10, <1>12 DEF U

(* ---- Lengths. -----------------------------------------------------------*)
LEMMA LensAre ==
  /\ MinLen \in Lens
  /\ \A n \in Lens : n \in Nat \ {0} /\ 2 * n \in Lens /\ (n # MinLen => n \div 2 \in Lens)
<1>1. MinLen \in Nat \ {0}
  BY MapAssumption DEF XMap!Sane
<1>2. MinLen \in Lens
  BY <1>1 DEF Lens, Doubling
<1>3. \A n \in Lens : 2 * n \in Lens
  BY DEF Lens, Doubling
<1>4. \A n \in Lens : n # 0
  <2>1. Nat \ {0} \in SUBSET Nat /\ Doubling(Nat \ {0})
    BY <1>1 DEF Doubling
  <2> QED
    BY <2>1 DEF Lens
<1>5. \A n \in Lens : n # MinLen => n \div 2 \in Lens
  <2> DEFINE S == {n \in Lens : n = MinLen \/ \E m \in Lens : n = 2 * m}
  <2>1. S \in SUBSET Nat /\ Doubling(S)
    BY <1>2, <1>3 DEF Doubling, Lens
  <2>2. \A n \in Lens : n \in S
    BY <2>1 DEF Lens
  <2>3. \A m \in Lens : (2 * m) \div 2 = m
    BY DEF Lens
  <2> QED
    BY <2>2, <2>3
<1> QED
  BY <1>2, <1>3, <1>4, <1>5 DEF Lens

(* ---- What is typed. -----------------------------------------------------*)
LEMMA TableAt ==
  ASSUME MapTyped, NEW i \in 1 .. cur
  PROVE  tables[i] \in Table
BY ElementOfSeq DEF MapTyped

LEMMA CurIs ==
  ASSUME MapTyped
  PROVE  cur \in Nat \ {0} /\ cur \in 1 .. cur /\ cur = Len(tables)
BY DEF MapTyped

LEMMA ThreadIs ==
  ASSUME MapTyped, NEW t \in Threads
  PROVE  /\ th[t] \in Thread /\ th[t].key \in Keys /\ th[t].tab \in 1 .. cur
         /\ th[t].pc # "idle" => th[t].val \in Values
         /\ th[t].copied \in Nat /\ th[t].slot \in Nat /\ th[t].new \in Table
         /\ held[t] \subseteq Values \cup {Absent}
         /\ t # Absent
BY MapAssumption DEF MapTyped, Thread, XMap!Sane

LEMMA MineIs ==
  ASSUME MapTyped, TablesGood, NEW t \in Threads
  PROVE  /\ XMap!Mine(t) \in 1 .. XMap!TableLen(th[t].tab)
         /\ XMap!TableLen(th[t].tab) \in Nat \ {0}
         /\ XMap!Slots(t) \in Seq(Slot) /\ GoodSlots(XMap!Slots(t), XMap!Mine(t), XMap!TableLen(th[t].tab))
         /\ XMap!Mine(t) = XMap!Bucket(XMap!TableLen(th[t].tab), th[t].key)
         /\ XMap!Found(XMap!Slots(t), th[t].key) = Lookup(tables[th[t].tab], th[t].key)
<1>1. /\ tables[th[t].tab] \in Table /\ GoodTable(tables[th[t].tab]) /\ th[t].key \in Keys
  BY ThreadIs, TableAt DEF TablesGood
<1>2. /\ Len(tables[th[t].tab].buckets) \in Nat \ {0}
      /\ XMap!Bucket(Len(tables[th[t].tab].buckets), th[t].key) \in 1 .. Len(tables[th[t].tab].buckets)
      /\ tables[th[t].tab].buckets[XMap!Bucket(Len(tables[th[t].tab].buckets), th[t].key)].slots \in Seq(Slot)
  BY <1>1, LenOf
<1> QED
  BY <1>1, <1>2 DEF XMap!Mine, XMap!TableLen, XMap!Slots, GoodTable, Lookup

(* ---- Steps that leave what the tables hold. -----------------------------*)
Same ==
    /\ cur' = cur
    /\ \A i \in 1 .. cur :
         /\ Len(tables'[i].buckets) = Len(tables[i].buckets) /\ tables'[i].clear = tables[i].clear
         /\ \A b \in 1 .. Len(tables[i].buckets) :
              tables'[i].buckets[b].slots = tables[i].buckets[b].slots

LEMMA SameIs ==
  ASSUME MapTyped, MapTyped', TablesGood, Same
  PROVE  /\ TablesGood'
         /\ \A i \in 1 .. cur :
              /\ tables'[i] \in Table /\ XMap!TableLen(i)' = XMap!TableLen(i)
              /\ Present(tables'[i]) = Present(tables[i])
              /\ \A k \in Keys : Lookup(tables'[i], k) = Lookup(tables[i], k)
<1>1. ASSUME NEW i \in 1 .. cur
      PROVE  /\ tables'[i] \in Table /\ GoodTable(tables'[i])
             /\ \A k \in Keys : Lookup(tables'[i], k) = Lookup(tables[i], k)
  <2>1. tables[i] \in Table /\ GoodTable(tables[i])
    BY TableAt DEF TablesGood
  <2>2. tables'[i] \in Table
    BY ElementOfSeq DEF MapTyped, Same
  <2> QED
    BY <2>1, <2>2, SameSlots DEF Same
<1>2. ASSUME NEW i \in 1 .. cur PROVE XMap!TableLen(i)' = XMap!TableLen(i)
  BY DEF XMap!TableLen, Same
<1>3. TablesGood'
  BY <1>1, <1>2 DEF TablesGood, Same
<1>4. \A i \in 1 .. cur : Present(tables'[i]) = Present(tables[i])
  BY <1>1, PresentSame
<1> QED
  BY <1>1, <1>2, <1>3, <1>4

LEMMA SameUpTo ==
  ASSUME MapTyped, MapTyped', TablesGood, Same,
         NEW c \in Nat, c < XMap!TableLen(cur), NEW j \in Nat, NEW k \in Keys
  PROVE  UpTo(tables'[cur], c, j, k) = UpTo(tables[cur], c, j, k)
<1>1. cur \in 1 .. cur /\ XMap!TableLen(cur) \in Nat
  BY CurIs, TableAt, LenOf DEF TablesGood, XMap!TableLen
<1>2. c + 1 \in 1 .. Len(tables[cur].buckets)
  BY <1>1 DEF XMap!TableLen
<1>3. /\ Len(tables'[cur].buckets) = Len(tables[cur].buckets)
      /\ tables'[cur].buckets[c + 1].slots = tables[cur].buckets[c + 1].slots
  BY <1>1, <1>2 DEF Same
<1>4. Lookup(tables'[cur], k) = Lookup(tables[cur], k)
  BY <1>1, SameIs
<1> QED
  BY <1>3, <1>4 DEF UpTo

(* A step of t that moves nobody else and leaves the tables' slots alone.   *)
Alone(t) ==
    /\ th' \in [Threads -> Thread] /\ held' \in [Threads -> SUBSET (Values \cup {Absent})]
    /\ \A u \in Threads \ {t} : th'[u] = th[u] /\ held'[u] = held[u]

(* Nobody else's mutex is taken away. *)
HoldersKept(t) ==
    \A u \in Threads \ {t}, i \in 1 .. cur : \A b \in 1 .. XMap!TableLen(i) :
        tables[i].buckets[b].holder = u => tables'[i].buckets[b].holder = u

LEMMA QuietStep ==
  ASSUME MapInv, MapTyped', NEW t \in Threads, Same, Alone(t), HoldersKept(t), abs' = abs,
         FlagInv', SizeInv',
         HolderOk(t)', WriterOk(t)', CopyOk(t)', HistoryOk(t)', FoundOk(t)',
         \A u \in Threads \ {t} :
            th[u].pc \in {"checkTable", "apply"} /\ th[u].tab = cur => Open(t, XMap!Mine(u))'
  PROVE  MapInv'
<1>1. MapTyped /\ TablesGood /\ cur' = cur /\ cur \in 1 .. cur
  BY CurIs DEF MapInv, Same
<1>2. TablesGood'
  BY <1>1, SameIs
<1>3. NothingLost'
  BY <1>1, SameIs DEF MapInv, NothingLost
<1>4. ASSUME NEW u \in Threads, u # t
      PROVE  HolderOk(u)' /\ WriterOk(u)' /\ CopyOk(u)' /\ HistoryOk(u)' /\ FoundOk(u)'
  <2>1. th'[u] = th[u] /\ held'[u] = held[u]
    BY <1>4 DEF Alone
  <2>2. HolderOk(u) /\ WriterOk(u) /\ CopyOk(u) /\ HistoryOk(u) /\ FoundOk(u)
    BY DEF MapInv
  <2>3. /\ th[u].key \in Keys /\ th[u].tab \in 1 .. cur /\ th[u].copied \in Nat /\ th[u].slot \in Nat
        /\ XMap!TableLen(th[u].tab)' = XMap!TableLen(th[u].tab) /\ XMap!TableLen(cur)' = XMap!TableLen(cur)
        /\ XMap!TableLen(cur) \in Nat
    <3>1. /\ th[u].key \in Keys /\ th[u].tab \in 1 .. cur /\ th[u].copied \in Nat /\ th[u].slot \in Nat
      BY <1>1, ThreadIs
    <3>2. XMap!TableLen(cur) \in Nat
      BY <1>1, TableAt, LenOf DEF TablesGood, XMap!TableLen
    <3>3. \A i \in 1 .. cur : Len(tables'[i].buckets) = Len(tables[i].buckets)
      BY DEF Same
    <3> QED
      BY <1>1, <2>1, <3>1, <3>2, <3>3 DEF XMap!TableLen
  <2>4. XMap!Mine(u)' = XMap!Mine(u)
    BY <2>1, <2>3 DEF XMap!Mine
  <2>5. HolderOk(u)'
    <3>1. XMap!Mine(u) \in 1 .. XMap!TableLen(th[u].tab)
      BY <1>1, MineIs
    <3>2. th[u].pc = "copy" => th[u].copied + 1 \in 1 .. XMap!TableLen(cur)
      BY <2>2, <2>3 DEF CopyOk
    <3> QED
      BY <1>1, <1>4, <2>1, <2>2, <2>3, <2>4, <3>1, <3>2 DEF HolderOk, HoldersKept
  <2>6. WriterOk(u)'
    <3>1. \A v \in Threads \ {t} : th'[v] = th[v]
      BY DEF Alone
    <3>2. ASSUME th[u].pc \in {"checkTable", "apply"}, th[u].tab = cur, NEW v \in Threads
          PROVE  Open(v, XMap!Mine(u))'
      <4>1. CASE v = t
        BY <1>4, <3>2, <4>1
      <4>2. CASE v # t
        BY <2>2, <2>4, <3>1, <3>2, <4>2 DEF WriterOk, Open
      <4> QED
        BY <4>1, <4>2
    <3>3. XMap!Overtaken(u) => XMap!Overtaken(u)'
      BY <1>1, <2>1, <2>3 DEF XMap!Overtaken, Same
    <3> QED
      BY <1>1, <2>1, <2>2, <3>2, <3>3 DEF WriterOk
  <2>7. CopyOk(u)'
    <3>1. \A k \in Keys : Lookup(tables'[cur], k) = Lookup(tables[cur], k)
      BY <1>1, SameIs
    <3>2. ASSUME th[u].pc = "copy"
          PROVE  /\ th[u].copied + 1 \in 1 .. XMap!TableLen(cur) /\ th[u].copied < XMap!TableLen(cur)
                 /\ Len(tables'[cur].buckets[th[u].copied + 1].slots) = Len(tables[cur].buckets[th[u].copied + 1].slots)
                 /\ \A k \in Keys : UpTo(tables'[cur], th[u].copied, th[u].slot, k)
                                      = UpTo(tables[cur], th[u].copied, th[u].slot, k)
      <4>1. th[u].copied < XMap!TableLen(cur) /\ th[u].copied + 1 \in 1 .. XMap!TableLen(cur)
        BY <2>2, <2>3, <3>2 DEF CopyOk
      <4>2. tables'[cur].buckets[th[u].copied + 1].slots = tables[cur].buckets[th[u].copied + 1].slots
        BY <1>1, <4>1 DEF Same, XMap!TableLen
      <4> QED
        BY <1>1, <2>3, <4>1, <4>2, SameUpTo
    <3> QED
      BY <1>1, <2>1, <2>2, <2>3, <3>1, <3>2 DEF CopyOk
  <2>8. HistoryOk(u)'
    <3>1. Lookup(tables'[th[u].tab], th[u].key) = Lookup(tables[th[u].tab], th[u].key)
      BY <1>1, <2>3, SameIs
    <3> QED
      BY <2>1, <2>2, <3>1 DEF HistoryOk
  <2>9. FoundOk(u)'
    BY <2>1, <2>2 DEF FoundOk
  <2> QED
    BY <2>5, <2>6, <2>7, <2>8, <2>9
<1> QED
  BY <1>2, <1>3, <1>4 DEF MapInv

LEMMA SameTables ==
  ASSUME MapTyped, NEW t \in Threads, tables' = tables, cur' = cur
  PROVE  Same /\ HoldersKept(t) /\ tables'[cur].size = tables[cur].size
BY DEF Same, HoldersKept

(* The holder of one mutex changes.                                         *)
Locking(t, i, b, h) ==
    /\ i \in 1 .. cur /\ b \in 1 .. XMap!TableLen(i) /\ h \in Threads \cup {Absent}
    /\ tables[i].buckets[b].holder \in {t, Absent}
    /\ tables' = [tables EXCEPT ![i].buckets[b].holder = h]

LEMMA HolderSet ==
  ASSUME MapTyped, NEW t \in Threads, NEW i, NEW b, NEW h, Locking(t, i, b, h), cur' = cur
  PROVE  /\ tables' \in Seq(Table) /\ Len(tables') = Len(tables)
         /\ Same /\ HoldersKept(t)
         /\ tables'[i].buckets[b].holder = h
         /\ \A j \in 1 .. cur : tables'[j].size = tables[j].size
<1> DEFINE T == tables[i]
           c == [T.buckets[b] EXCEPT !.holder = h]
           w == [T.buckets EXCEPT ![b] = c]
           U == [T EXCEPT !.buckets = w]
<1>0. /\ i \in 1 .. cur /\ b \in 1 .. XMap!TableLen(i) /\ h \in Threads \cup {Absent}
      /\ tables[i].buckets[b].holder \in {t, Absent}
      /\ tables' = [tables EXCEPT ![i].buckets[b].holder = h]
  BY DEF Locking
<1>1. T \in Table /\ T.buckets \in Seq(Chain) /\ T.buckets[b] \in Chain /\ b \in 1 .. Len(T.buckets)
  <2>1. T \in Table
    BY <1>0, TableAt
  <2>2. T.buckets \in Seq(Chain) /\ b \in 1 .. Len(T.buckets)
    BY <1>0, <2>1 DEF Table, XMap!TableLen
  <2> QED
    BY <2>1, <2>2, ElementOfSeq
<1>2. tables' = [tables EXCEPT ![i] = U]
  BY <1>0
<1>3. c \in Chain /\ c.slots = T.buckets[b].slots /\ c.holder = h
  BY <1>0, <1>1 DEF Chain
<1> HIDE DEF c
<1>4. w \in Seq(Chain) /\ Len(w) = Len(T.buckets)
      /\ \A d \in 1 .. Len(T.buckets) : w[d] = IF d = b THEN c ELSE T.buckets[d]
  BY <1>1, <1>3, ExceptSeq
<1> HIDE DEF w
<1>5. U \in Table /\ U.buckets = w /\ U.size = T.size /\ U.clear = T.clear
  BY <1>1, <1>4 DEF Table
<1> HIDE DEF U
<1>6. /\ tables' \in Seq(Table) /\ Len(tables') = Len(tables)
      /\ \A j \in 1 .. cur : tables'[j] = IF j = i THEN U ELSE tables[j]
  <2>1. tables \in Seq(Table) /\ i \in 1 .. Len(tables) /\ cur = Len(tables)
    BY <1>0 DEF MapTyped
  <2> QED
    BY <1>2, <1>5, <2>1, ExceptSeq
<1>7. Same
  BY <1>0, <1>3, <1>4, <1>5, <1>6 DEF Same
<1>8. HoldersKept(t)
  <2> SUFFICES ASSUME NEW u \in Threads \ {t}, NEW j \in 1 .. cur, NEW d \in 1 .. XMap!TableLen(j),
                      tables[j].buckets[d].holder = u
               PROVE  tables'[j].buckets[d].holder = u
    BY DEF HoldersKept
  <2>1. ~(j = i /\ d = b)
    BY <1>0, MapAssumption DEF XMap!Sane
  <2>2. CASE j # i
    BY <1>6, <2>2
  <2>3. CASE j = i /\ d # b
    BY <1>1, <1>4, <1>5, <1>6, <2>3 DEF XMap!TableLen
  <2> QED
    BY <2>1, <2>2, <2>3
<1>9. tables'[i].buckets[b].holder = h
  BY <1>0, <1>1, <1>3, <1>4, <1>5, <1>6
<1> QED
  BY <1>0, <1>5, <1>6, <1>7, <1>8, <1>9

LEMMA SizeKept ==
  ASSUME MapInv, MapTyped', NEW t \in Threads, Same, Alone(t),
         tables'[cur].size = tables[cur].size, th[t].pc # "size", th'[t].pc # "size"
  PROVE  SizeInv'
<1>1. MapTyped /\ TablesGood /\ cur' = cur /\ cur \in 1 .. cur
  BY CurIs DEF MapInv, Same
<1>2. Present(tables'[cur]) = Present(tables[cur])
  BY <1>1, SameIs
<1>3. \A d : Owing(d)' = Owing(d)
  BY <1>1 DEF Owing, Alone
<1> QED
  BY <1>1, <1>2, <1>3 DEF MapInv, SizeInv

(* The state of one thread changes.                                         *)
LEMMA OneMoves ==
  ASSUME MapTyped, NEW t \in Threads, NEW r \in Thread, th' = [th EXCEPT ![t] = r],
         cur' = cur, tables' \in Seq(Table), Len(tables') = Len(tables), resizing' \in BOOLEAN, abs' = abs,
         r.tab \in 1 .. cur, r.pc # "idle" => r.val \in Values,
         held' \in [Threads -> SUBSET (Values \cup {Absent})],
         \A u \in Threads \ {t} : held'[u] = held[u]
  PROVE  MapTyped' /\ Alone(t) /\ th'[t] = r
<1>1. th' \in [Threads -> Thread] /\ th'[t] = r /\ \A u \in Threads \ {t} : th'[u] = th[u]
  BY DEF MapTyped
<1> QED
  BY <1>1 DEF MapTyped, Alone

LEMMA IdleIs ==
  ASSUME NEW fn \in Functions \cup {"load"}, NEW k \in Keys, NEW v \in Values \cup {Absent}
  PROVE  /\ XMap!Idle(fn, k, v) \in Thread /\ XMap!Idle(fn, k, v).tab = 1 /\ XMap!Idle(fn, k, v).pc = "idle"
         /\ XMap!Idle(fn, k, v).found = v /\ XMap!Idle(fn, k, v).fn = fn /\ XMap!Idle(fn, k, v).key = k
         /\ XMap!Idle(fn, k, v).hint = "grow"
<1>1. XMap!NewTable(0, FALSE) \in Table
  BY NewTableType
<1> HIDE DEF XMap!NewTable
<1> QED
  BY <1>1 DEF XMap!Idle, Thread, Points

LEMMA QuietMove ==
  ASSUME MapInv, NEW t \in Threads, NEW r \in Thread, th' = [th EXCEPT ![t] = r],
         Same, HoldersKept(t), tables' \in Seq(Table), Len(tables') = Len(tables),
         tables'[cur].size = tables[cur].size, resizing' \in BOOLEAN, abs' = abs, held' = held,
         r.tab \in 1 .. cur, r.pc # "idle" => r.val \in Values,
         th[t].pc # "size", r.pc \notin {"size", "copy", "publish"},
         r.pc = "make" => r.copied = 0 /\ r.slot = 0,
         FlagInv', HolderOk(t)', WriterOk(t)', HistoryOk(t)', FoundOk(t)'
  PROVE  MapInv'
<1>1. MapTyped
  BY DEF MapInv
<1>2. MapTyped' /\ Alone(t) /\ th'[t] = r
  BY <1>1, OneMoves DEF MapTyped, Same
<1>3. SizeInv'
  BY <1>2, SizeKept
<1>4. CopyOk(t)' /\ \A b : Open(t, b)'
  BY <1>2 DEF CopyOk, Open
<1> QED
  BY <1>2, <1>3, <1>4, QuietStep

LEMMA TablesStay ==
  ASSUME MapInv, NEW t \in Threads, tables' = tables, cur' = cur
  PROVE  /\ Same /\ HoldersKept(t) /\ tables' \in Seq(Table) /\ Len(tables') = Len(tables)
         /\ tables'[cur].size = tables[cur].size
BY SameTables DEF MapInv, MapTyped

(* t takes the mutex of its bucket, or gives it back.                       *)
LEMMA MutexMoves ==
  ASSUME MapInv, NEW t \in Threads, NEW h \in Threads \cup {Absent}, tables' = XMap!SetHolder(t, h), cur' = cur,
         tables[th[t].tab].buckets[XMap!Mine(t)].holder \in {t, Absent}
  PROVE  /\ Same /\ HoldersKept(t) /\ tables' \in Seq(Table) /\ Len(tables') = Len(tables)
         /\ tables'[cur].size = tables[cur].size
         /\ tables'[th[t].tab].buckets[XMap!Mine(t)].holder = h
<1>1. /\ MapTyped /\ TablesGood /\ cur \in 1 .. cur /\ th[t].tab \in 1 .. cur
      /\ XMap!Mine(t) \in 1 .. XMap!TableLen(th[t].tab)
  BY CurIs, ThreadIs, MineIs DEF MapInv
<1>2. Locking(t, th[t].tab, XMap!Mine(t), h)
  BY <1>1 DEF XMap!SetHolder, Locking
<1>3. /\ tables' \in Seq(Table) /\ Len(tables') = Len(tables) /\ Same /\ HoldersKept(t)
      /\ tables'[th[t].tab].buckets[XMap!Mine(t)].holder = h
      /\ \A j \in 1 .. cur : tables'[j].size = tables[j].size
  BY <1>1, <1>2, HolderSet
<1> QED
  BY <1>1, <1>3

(* The bucket of t stays the same while its table and its key do.           *)
LEMMA MineStays ==
  ASSUME MapInv, NEW t \in Threads, Same, th'[t].tab = th[t].tab, th'[t].key = th[t].key
  PROVE  XMap!Mine(t)' = XMap!Mine(t)
BY ThreadIs DEF MapInv, XMap!Mine, XMap!TableLen, Same

LEMMA LookupStays ==
  ASSUME MapInv, Same, tables' \in Seq(Table), Len(tables') = Len(tables), NEW i \in 1 .. cur, NEW k \in Keys
  PROVE  Lookup(tables'[i], k) = Lookup(tables[i], k)
<1>1. tables[i] \in Table /\ GoodTable(tables[i])
  BY TableAt DEF MapInv, TablesGood
<1>2. tables'[i] \in Table
  BY ElementOfSeq DEF MapInv, MapTyped
<1> QED
  BY <1>1, <1>2, SameSlots DEF Same

(* What every call knows, whatever it is about to do.                       *)
LEMMA CallIs ==
  ASSUME MapInv, NEW t \in Threads
  PROVE  /\ MapTyped /\ TablesGood /\ cur \in 1 .. cur /\ cur \in Nat
         /\ th \in [Threads -> Thread] /\ th[t] \in Thread /\ t # Absent
         /\ th[t].tab \in 1 .. cur /\ th[t].key \in Keys
         /\ th[t].pc # "idle" => th[t].val \in Values
         /\ resizing \in BOOLEAN
         /\ HolderOk(t) /\ WriterOk(t) /\ CopyOk(t) /\ HistoryOk(t) /\ FoundOk(t) /\ FlagInv
BY CurIs, ThreadIs DEF MapInv, MapTyped

LEMMA IdleOf ==
  ASSUME MapTyped, NEW t \in Threads, NEW v \in Values \cup {Absent}
  PROVE  /\ XMap!Idle(th[t].fn, th[t].key, v) \in Thread /\ XMap!Idle(th[t].fn, th[t].key, v).tab = 1
         /\ XMap!Idle(th[t].fn, th[t].key, v).pc = "idle" /\ XMap!Idle(th[t].fn, th[t].key, v).found = v
         /\ XMap!Idle(th[t].fn, th[t].key, v).fn = th[t].fn /\ XMap!Idle(th[t].fn, th[t].key, v).hint = "grow"
<1>1. th[t].fn \in Functions \cup {"load"} /\ th[t].key \in Keys
  BY ThreadIs DEF Thread
<1> QED
  BY <1>1, IdleIs

(* ---- The steps of a call. -----------------------------------------------*)
LEMMA InvCall ==
  ASSUME MapInv, NEW t \in Threads, NEW fn \in Functions, NEW k \in Keys, NEW v \in Values, XMap!Call(t, fn, k, v)
  PROVE  MapInv'
<1> DEFINE r == [XMap!Idle(fn, k, Absent) EXCEPT !.pc = "attempt", !.val = v]
<1>1. MapTyped /\ TablesGood /\ cur \in 1 .. cur /\ cur \in Nat \ {0} /\ th[t] \in Thread /\ FlagInv
  BY CurIs, CallIs
<1>2. th' = [th EXCEPT ![t] = r] /\ th[t].pc = "idle"
      /\ UNCHANGED <<tables, cur, resizing, abs>> /\ held' = [held EXCEPT ![t] = {abs[k]}]
  BY DEF XMap!Call
<1>3. /\ r \in Thread /\ r.tab = 1 /\ r.key = k /\ r.found = Absent /\ r.pc = "attempt" /\ r.val = v
      /\ r.hint = "grow"
  <2>1. /\ XMap!Idle(fn, k, Absent) \in Thread /\ XMap!Idle(fn, k, Absent).tab = 1 /\ XMap!Idle(fn, k, Absent).found = Absent
        /\ XMap!Idle(fn, k, Absent).fn = fn /\ XMap!Idle(fn, k, Absent).key = k /\ XMap!Idle(fn, k, Absent).hint = "grow"
    BY IdleIs
  <2> QED
    BY <2>1 DEF Thread, Points
<1> HIDE DEF r
<1>4. /\ held' \in [Threads -> SUBSET (Values \cup {Absent})]
      /\ \A u \in Threads \ {t} : held'[u] = held[u]
      /\ held'[t] = {abs[k]}
  BY <1>1, <1>2 DEF MapTyped
<1>5. MapTyped' /\ Alone(t) /\ th'[t] = r
  <2>1. tables' \in Seq(Table) /\ Len(tables') = Len(tables) /\ cur' = cur /\ abs' = abs /\ resizing' \in BOOLEAN
    BY <1>1, <1>2 DEF MapTyped
  <2>2. r.tab \in 1 .. cur /\ r.val \in Values
    BY <1>1, <1>3
  <2> QED
    BY <1>1, <1>2, <1>3, <1>4, <2>1, <2>2, OneMoves
<1>6. Same /\ HoldersKept(t) /\ SizeInv'
  <2>1. Same /\ HoldersKept(t) /\ tables'[cur].size = tables[cur].size
    BY <1>2, TablesStay
  <2> QED
    BY <1>2, <1>3, <1>5, <2>1, SizeKept
<1>7. FlagInv'
  BY <1>1, <1>2, <1>3, <1>5 DEF FlagInv, Alone, Resizing
<1>8. HolderOk(t)' /\ WriterOk(t)' /\ CopyOk(t)' /\ \A b : Open(t, b)'
  BY <1>3, <1>5 DEF HolderOk, WriterOk, CopyOk, Open, Writing
<1>9. HistoryOk(t)'
  BY <1>2, <1>3, <1>4, <1>5 DEF HistoryOk
<1>10. FoundOk(t)'
  BY <1>3, <1>5 DEF FoundOk, Writing, InResize, Resizing
<1> QED
  BY <1>2, <1>5, <1>6, <1>7, <1>8, <1>9, <1>10, QuietStep

(* A call that returns with found, in a step that leaves the tables.        *)
LEMMA Returns ==
  ASSUME MapInv, NEW t \in Threads, NEW found, XMap!Return(t, found),
         Same, HoldersKept(t), tables' \in Seq(Table), Len(tables') = Len(tables),
         tables'[cur].size = tables[cur].size, resizing' \in BOOLEAN, abs' = abs, held' = held,
         th[t].pc # "size", found \in held[t], found \in Values \cup {Absent},
         resizing' = resizing \/ th[t].pc \in Resizing
  PROVE  MapInv'
<1> DEFINE r == XMap!Idle(th[t].fn, th[t].key, found)
<1>1. MapTyped /\ th[t] \in Thread /\ th \in [Threads -> Thread] /\ FlagInv /\ cur \in Nat \ {0}
  BY CurIs, CallIs
<1>2. /\ r \in Thread /\ r.tab = 1 /\ r.pc = "idle" /\ r.found = found /\ r.fn = th[t].fn /\ r.hint = "grow"
  BY <1>1, IdleOf
<1>3. th' = [th EXCEPT ![t] = r] /\ th'[t] = r /\ \A u \in Threads \ {t} : th'[u] = th[u]
  BY <1>1 DEF XMap!Return
<1> HIDE DEF r
<1>4. FlagInv'
  BY <1>1, <1>2, <1>3 DEF FlagInv, Resizing
<1>5. HolderOk(t)' /\ WriterOk(t)' /\ HistoryOk(t)'
  BY <1>2, <1>3 DEF HolderOk, WriterOk, HistoryOk, Writing
<1>6. FoundOk(t)'
  BY <1>2, <1>3 DEF FoundOk, Writing, InResize, Resizing
<1>7. r.tab \in 1 .. cur /\ r.pc \notin {"size", "copy", "publish", "make"}
  BY <1>1, <1>2
<1> QED
  BY <1>2, <1>3, <1>4, <1>5, <1>6, <1>7, QuietMove

LEMMA InvAttempt ==
  ASSUME MapInv, NEW t \in Threads, XMap!Attempt(t)
  PROVE  MapInv'
<1> DEFINE r == [th[t] EXCEPT !.tab = cur, !.hint = IF th[t].fn = "clear" THEN "clear" ELSE "grow",
                   !.pc = CASE th[t].fn = "store" -> "lock" [] th[t].fn = "clear" -> "resize" [] OTHER -> "scan"]
<1>1. MapTyped /\ TablesGood /\ cur \in 1 .. cur /\ cur \in Nat /\ th[t] \in Thread
  BY CurIs, ThreadIs DEF MapInv
<1>2. th' = [th EXCEPT ![t] = r]
  BY DEF XMap!Attempt
<1>3. /\ r \in Thread /\ r.tab = cur /\ r.key = th[t].key /\ r.found = th[t].found /\ r.fn = th[t].fn
      /\ r.val = th[t].val
      /\ \/ r.pc \in {"lock", "scan"} /\ r.hint = "grow"
         \/ r.pc = "resize" /\ r.hint = "clear" /\ r.fn = "clear"
  BY <1>1 DEF Thread, Points, InResize
<1> HIDE DEF r
<1>4. th[t].pc = "attempt" /\ UNCHANGED <<tables, cur, resizing, abs, held>>
  BY DEF XMap!Attempt
<1>5. MapTyped' /\ Alone(t) /\ th'[t] = r
  <2>1. th[t].val \in Values
    BY <1>1, <1>4, ThreadIs
  <2> QED
    BY <1>1, <1>2, <1>3, <1>4, <2>1, OneMoves DEF MapTyped
<1>6. Same /\ HoldersKept(t) /\ SizeInv'
  <2>1. Same /\ HoldersKept(t) /\ tables'[cur].size = tables[cur].size
    BY <1>1, <1>4, SameTables
  <2> QED
    BY <1>3, <1>4, <1>5, <2>1, SizeKept
<1>7. FlagInv'
  BY <1>3, <1>4, <1>5 DEF MapInv, FlagInv, Alone, Resizing
<1>8. HolderOk(t)' /\ WriterOk(t)' /\ CopyOk(t)' /\ \A b : Open(t, b)'
  BY <1>3, <1>5 DEF HolderOk, WriterOk, CopyOk, Open, Writing
<1>9. HistoryOk(t)'
  <2>1. abs[th[t].key] \in held[t] /\ abs[th[t].key] = Lookup(tables[cur], th[t].key)
    BY <1>1, <1>4, ThreadIs DEF MapInv, HistoryOk, NothingLost
  <2> QED
    BY <1>3, <1>4, <1>5, <2>1 DEF HistoryOk
<1>10. FoundOk(t)'
  BY <1>3, <1>4, <1>5 DEF MapInv, FoundOk, Writing, InResize, Resizing
<1> QED
  BY <1>4, <1>5, <1>6, <1>7, <1>8, <1>9, <1>10, QuietStep

(* A step that only moves t on to pc.                                       *)
LEMMA Moves ==
  ASSUME MapInv, NEW t \in Threads, NEW pc, XMap!Go(t, pc),
         Same, HoldersKept(t), tables' \in Seq(Table), Len(tables') = Len(tables),
         tables'[cur].size = tables[cur].size, resizing' \in BOOLEAN, abs' = abs, held' = held,
         th[t].pc \notin {"size", "idle"},
         pc \in Points \ (Resizing \cup {"idle", "size"}) \/ (pc = "finish" /\ th[t].pc = "make"),
         pc # "attempt" => th[t].pc # "attempt",
         resizing' = resizing \/ (th[t].pc \in Resizing /\ pc \notin Resizing),
         pc \in Writing => tables'[th[t].tab].buckets[XMap!Mine(t)].holder = t,
         pc \in {"checkTable", "apply"} /\ th[t].tab = cur => \A u \in Threads \ {t} : Open(u, XMap!Mine(t)),
         pc = "apply" => th[t].tab = cur,
         pc \notin InResize => th[t].found = Absent,
         pc \in {"scan", "lock"} \cup Writing => th[t].hint = "grow",
         pc \in InResize => th[t].pc \in InResize \/ (th[t].hint = "grow" /\ th[t].found = Absent),
         pc = "finish" => th[t].hint = "shrink"
  PROVE  MapInv'
<1> DEFINE r == [th[t] EXCEPT !.pc = pc]
<1>1. /\ MapTyped /\ TablesGood /\ cur \in 1 .. cur /\ cur \in Nat
      /\ th \in [Threads -> Thread] /\ th[t] \in Thread /\ t # Absent
      /\ th[t].tab \in 1 .. cur /\ th[t].key \in Keys /\ th[t].val \in Values
      /\ HistoryOk(t) /\ FoundOk(t) /\ FlagInv
  BY CallIs
<1>2. /\ r \in Thread /\ r.pc = pc /\ r.tab = th[t].tab /\ r.key = th[t].key /\ r.val = th[t].val
      /\ r.hint = th[t].hint /\ r.found = th[t].found /\ r.fn = th[t].fn
  BY <1>1 DEF Thread, Points, InResize, Resizing
<1>3. th' = [th EXCEPT ![t] = r] /\ th'[t] = r /\ \A u \in Threads \ {t} : th'[u] = th[u]
  BY <1>1 DEF XMap!Go
<1> HIDE DEF r
<1>4. r.pc \notin {"idle", "size", "copy", "publish", "make"}
  BY <1>2 DEF Resizing
<1>5. FlagInv'
  BY <1>1, <1>2, <1>3 DEF FlagInv, Resizing
<1>6. XMap!Mine(t)' = XMap!Mine(t)
  BY <1>2, <1>3, MineStays
<1>7. HolderOk(t)'
  BY <1>2, <1>3, <1>4, <1>6 DEF HolderOk
<1>8. WriterOk(t)'
  <2>1. \A u \in Threads : r.pc \in {"checkTable", "apply"} /\ th[t].tab = cur => Open(u, XMap!Mine(t))'
    BY <1>2, <1>3, <1>4, <1>6 DEF Open
  <2> QED
    BY <1>2, <1>3, <2>1 DEF WriterOk, Same
<1>9. HistoryOk(t)'
  <2>1. Lookup(tables'[th[t].tab], th[t].key) = Lookup(tables[th[t].tab], th[t].key)
    BY <1>1, LookupStays
  <2> QED
    BY <1>1, <1>2, <1>3, <2>1 DEF HistoryOk
<1>10. FoundOk(t)'
  BY <1>1, <1>2, <1>3, <1>4 DEF FoundOk, Writing, InResize, Resizing
<1> QED
  BY <1>1, <1>2, <1>3, <1>4, <1>5, <1>7, <1>8, <1>9, <1>10, QuietMove

LEMMA InvScan ==
  ASSUME MapInv, NEW t \in Threads, XMap!Scan(t)
  PROVE  MapInv'
<1>1. th[t].pc = "scan" /\ UNCHANGED <<tables, cur, resizing, abs, held>>
  BY DEF XMap!Scan
<1>2. /\ Same /\ HoldersKept(t) /\ tables' \in Seq(Table) /\ Len(tables') = Len(tables)
      /\ tables'[cur].size = tables[cur].size
  BY <1>1, TablesStay
<1>3. XMap!Found(XMap!Slots(t), th[t].key) \in held[t] /\ XMap!Found(XMap!Slots(t), th[t].key) \in Values \cup {Absent}
  <2>1. /\ XMap!Slots(t) \in Seq(Slot)
        /\ XMap!Found(XMap!Slots(t), th[t].key) = Lookup(tables[th[t].tab], th[t].key)
    BY CallIs, MineIs
  <2>2. Lookup(tables[th[t].tab], th[t].key) \in held[t]
    BY <1>1, CallIs DEF HistoryOk
  <2> QED
    BY <2>1, <2>2, FoundType
<1>4. CASE XMap!Return(t, XMap!Found(XMap!Slots(t), th[t].key))
  BY <1>1, <1>2, <1>3, <1>4, CallIs, Returns DEF Resizing
<1>5. CASE XMap!Go(t, "lock")
  BY <1>1, <1>2, <1>5, CallIs, Moves DEF FoundOk, Points, Writing, InResize, Resizing
<1> QED
  BY <1>4, <1>5 DEF XMap!Scan

LEMMA InvLock ==
  ASSUME MapInv, NEW t \in Threads, XMap!Lock(t)
  PROVE  MapInv'
<1>1. /\ th[t].pc = "lock" /\ UNCHANGED <<cur, resizing, abs, held>>
      /\ tables[th[t].tab].buckets[XMap!Mine(t)].holder = Absent /\ tables' = XMap!SetHolder(t, t)
      /\ XMap!Go(t, "checkResizing")
  BY DEF XMap!Lock
<1>2. /\ Same /\ HoldersKept(t) /\ tables' \in Seq(Table) /\ Len(tables') = Len(tables)
      /\ tables'[cur].size = tables[cur].size
      /\ tables'[th[t].tab].buckets[XMap!Mine(t)].holder = t
  BY <1>1, MutexMoves
<1> QED
  BY <1>1, <1>2, CallIs, Moves DEF FoundOk, Points, Writing, InResize, Resizing

LEMMA InvCheckResizing ==
  ASSUME MapInv, NEW t \in Threads, XMap!CheckResizing(t)
  PROVE  MapInv'
<1>1. /\ th[t].pc = "checkResizing" /\ UNCHANGED <<cur, resizing, abs, held>>
      /\ tables[th[t].tab].buckets[XMap!Mine(t)].holder = t
  BY CallIs DEF XMap!CheckResizing, HolderOk, Writing
<1>2. CASE resizing
  <2>1. tables' = XMap!SetHolder(t, Absent) /\ XMap!Go(t, "wait")
    BY <1>2 DEF XMap!CheckResizing
  <2>2. /\ Same /\ HoldersKept(t) /\ tables' \in Seq(Table) /\ Len(tables') = Len(tables)
        /\ tables'[cur].size = tables[cur].size
    BY <1>1, <2>1, MutexMoves
  <2> QED
    BY <1>1, <2>1, <2>2, CallIs, Moves DEF FoundOk, Points, Writing, InResize, Resizing
<1>3. CASE ~resizing
  <2>1. tables' = tables /\ XMap!Go(t, "checkTable")
    BY <1>3 DEF XMap!CheckResizing
  <2>2. /\ Same /\ HoldersKept(t) /\ tables' \in Seq(Table) /\ Len(tables') = Len(tables)
        /\ tables'[cur].size = tables[cur].size
    BY <1>1, <2>1, TablesStay
  <2>3. \A u \in Threads : Open(u, XMap!Mine(t))
    BY <1>3, CallIs DEF FlagInv, Resizing, Open
  <2> QED
    BY <1>1, <2>1, <2>2, <2>3, CallIs, Moves DEF FoundOk, Points, Writing, InResize, Resizing
<1> QED
  BY <1>2, <1>3

LEMMA InvCheckTable ==
  ASSUME MapInv, NEW t \in Threads, XMap!CheckTable(t)
  PROVE  MapInv'
<1>1. /\ th[t].pc = "checkTable" /\ UNCHANGED <<cur, resizing, abs, held>>
      /\ tables[th[t].tab].buckets[XMap!Mine(t)].holder = t
  BY CallIs DEF XMap!CheckTable, HolderOk, Writing
<1>2. CASE th[t].tab # cur
  <2>1. tables' = XMap!SetHolder(t, Absent) /\ XMap!Go(t, "attempt")
    BY <1>2 DEF XMap!CheckTable
  <2>2. /\ Same /\ HoldersKept(t) /\ tables' \in Seq(Table) /\ Len(tables') = Len(tables)
        /\ tables'[cur].size = tables[cur].size
    BY <1>1, <2>1, MutexMoves
  <2> QED
    BY <1>1, <2>1, <2>2, CallIs, Moves DEF FoundOk, Points, Writing, InResize, Resizing
<1>3. CASE th[t].tab = cur
  <2>1. tables' = tables /\ XMap!Go(t, "apply")
    BY <1>3 DEF XMap!CheckTable
  <2>2. /\ Same /\ HoldersKept(t) /\ tables' \in Seq(Table) /\ Len(tables') = Len(tables)
        /\ tables'[cur].size = tables[cur].size
    BY <1>1, <2>1, TablesStay
  <2>3. \A u \in Threads : Open(u, XMap!Mine(t))
    BY <1>1, <1>3, CallIs DEF WriterOk
  <2> QED
    BY <1>1, <1>3, <2>1, <2>2, <2>3, CallIs, Moves DEF FoundOk, Points, Writing, InResize, Resizing
<1> QED
  BY <1>2, <1>3

LEMMA InvWaitForResize ==
  ASSUME MapInv, NEW t \in Threads, XMap!WaitForResize(t)
  PROVE  MapInv'
<1>1. th[t].pc = "wait" /\ UNCHANGED <<tables, cur, resizing, abs, held>>
  BY DEF XMap!WaitForResize
<1>2. /\ Same /\ HoldersKept(t) /\ tables' \in Seq(Table) /\ Len(tables') = Len(tables)
      /\ tables'[cur].size = tables[cur].size
  BY <1>1, TablesStay
<1>3. CASE th[t].hint = "grow" /\ XMap!Go(t, "attempt")
  BY <1>1, <1>2, <1>3, CallIs, Moves DEF FoundOk, Points, Writing, InResize, Resizing
<1>4. CASE th[t].hint = "shrink" /\ XMap!Return(t, th[t].found)
  <2>1. th[t].found \in held[t]
    BY <1>1, <1>4, CallIs DEF FoundOk, InResize, Thread
  <2> QED
    BY <1>1, <1>2, <1>4, <2>1, CallIs, Returns DEF Thread
<1>5. CASE th[t].hint = "clear"
  <2> DEFINE i == XMap!Idle(th[t].fn, th[t].key, th[t].found)
             r == [i EXCEPT !.lost = TRUE]
  <2>1. MapTyped /\ th[t] \in Thread /\ th \in [Threads -> Thread] /\ FlagInv /\ cur \in Nat \ {0} /\ FoundOk(t)
    BY CurIs, CallIs
  <2>2. i \in Thread /\ i.tab = 1 /\ i.pc = "idle" /\ i.fn = th[t].fn /\ i.hint = "grow"
    BY <2>1, IdleOf DEF Thread
  <2>3. th' = [th EXCEPT ![t] = r]
    BY <1>5 DEF XMap!WaitForResize
  <2> HIDE DEF i
  <2>4. r \in Thread /\ r.tab = 1 /\ r.pc = "idle" /\ r.fn = th[t].fn /\ r.hint = "grow" /\ r.lost
    BY <2>2 DEF Thread
  <2>5. th'[t] = r /\ \A u \in Threads \ {t} : th'[u] = th[u]
    BY <2>1, <2>3
  <2> HIDE DEF r
  <2>6. th[t].fn = "clear"
    BY <1>5, <2>1 DEF FoundOk
  <2>7. FlagInv'
    BY <1>1, <2>1, <2>4, <2>5 DEF FlagInv, Resizing
  <2>8. HolderOk(t)' /\ WriterOk(t)' /\ HistoryOk(t)'
    BY <2>4, <2>5 DEF HolderOk, WriterOk, HistoryOk, Writing
  <2>9. FoundOk(t)'
    BY <2>4, <2>5, <2>6 DEF FoundOk, Writing, InResize, Resizing
  <2>10. r.tab \in 1 .. cur /\ r.pc \notin {"size", "copy", "publish", "make"}
    BY <2>1, <2>4
  <2>11. resizing' \in BOOLEAN
    BY <1>1, CallIs
  <2> QED
    BY <1>1, <1>2, <2>3, <2>4, <2>7, <2>8, <2>9, <2>10, <2>11, QuietMove
<1> QED
  BY <1>3, <1>4, <1>5, CallIs DEF XMap!WaitForResize, XMap!AfterResize, Thread

LEMMA InvFinish ==
  ASSUME MapInv, NEW t \in Threads, XMap!Finish(t)
  PROVE  MapInv'
<1>1. th[t].pc = "finish" /\ UNCHANGED <<tables, cur, abs, held>> /\ resizing' = FALSE
  BY DEF XMap!Finish
<1>2. /\ Same /\ HoldersKept(t) /\ tables' \in Seq(Table) /\ Len(tables') = Len(tables)
      /\ tables'[cur].size = tables[cur].size
  BY <1>1, TablesStay
<1>3. CASE th[t].hint = "grow" /\ XMap!Go(t, "attempt")
  BY <1>1, <1>2, <1>3, CallIs, Moves DEF FoundOk, Points, Writing, InResize, Resizing
<1>4. CASE th[t].hint # "grow" /\ XMap!Return(t, th[t].found)
  <2>1. th[t].found \in held[t]
    BY <1>1, <1>4, CallIs DEF FoundOk, InResize, Resizing, Thread
  <2> QED
    BY <1>1, <1>2, <1>4, <2>1, CallIs, Returns DEF Thread, Resizing
<1> QED
  BY <1>3, <1>4 DEF XMap!Finish, XMap!AfterResize

LEMMA InvResize ==
  ASSUME MapInv, NEW t \in Threads, XMap!Resize(t)
  PROVE  MapInv'
<1>1. th[t].pc = "resize" /\ UNCHANGED <<tables, cur, abs, held>>
  BY DEF XMap!Resize
<1>2. /\ Same /\ HoldersKept(t) /\ tables' \in Seq(Table) /\ Len(tables') = Len(tables)
      /\ tables'[cur].size = tables[cur].size
  BY <1>1, TablesStay
<1>3. CASE th[t].hint = "shrink" /\ XMap!Return(t, th[t].found) /\ resizing' = resizing
  <2>1. th[t].found \in held[t]
    BY <1>1, <1>3, CallIs DEF FoundOk, InResize
  <2> QED
    BY <1>1, <1>2, <1>3, <2>1, CallIs, Returns DEF Thread
<1>4. CASE XMap!Go(t, "wait") /\ resizing' = resizing
  BY <1>1, <1>2, <1>4, CallIs, Moves DEF Points, Writing, InResize, Resizing
<1>5. CASE /\ ~resizing /\ resizing' = TRUE
           /\ th' = [th EXCEPT ![t].pc = "make", ![t].copied = 0, ![t].slot = 0]
  <2> DEFINE r == [th[t] EXCEPT !.pc = "make", !.copied = 0, !.slot = 0]
  <2>1. /\ MapTyped /\ th[t] \in Thread /\ th \in [Threads -> Thread] /\ FlagInv
        /\ th[t].tab \in 1 .. cur /\ th[t].key \in Keys /\ th[t].val \in Values
        /\ HistoryOk(t) /\ FoundOk(t)
    BY <1>1, CallIs
  <2>2. /\ r \in Thread /\ r.pc = "make" /\ r.tab = th[t].tab /\ r.key = th[t].key /\ r.val = th[t].val
        /\ r.hint = th[t].hint /\ r.found = th[t].found /\ r.fn = th[t].fn /\ r.copied = 0 /\ r.slot = 0
    BY <2>1 DEF Thread, Points, InResize, Resizing
  <2>3. th' = [th EXCEPT ![t] = r] /\ th'[t] = r /\ \A u \in Threads \ {t} : th'[u] = th[u]
    BY <1>5, <2>1
  <2> HIDE DEF r
  <2>4. FlagInv'
    BY <1>5, <2>1, <2>2, <2>3 DEF FlagInv
  <2>5. HolderOk(t)' /\ WriterOk(t)'
    BY <2>2, <2>3 DEF HolderOk, WriterOk, Writing
  <2>6. HistoryOk(t)'
    <3>1. Lookup(tables'[th[t].tab], th[t].key) = Lookup(tables[th[t].tab], th[t].key)
      BY <1>1
    <3> QED
      BY <1>1, <2>1, <2>2, <2>3, <3>1 DEF HistoryOk
  <2>7. FoundOk(t)'
    BY <1>1, <2>1, <2>2, <2>3 DEF FoundOk, Writing, InResize, Resizing
  <2> QED
    BY <1>1, <1>2, <1>5, <2>2, <2>3, <2>1, <2>4, <2>5, <2>6, <2>7, QuietMove
<1> QED
  BY <1>3, <1>4, <1>5 DEF XMap!Resize

(* The published table, with its length and its buckets.                    *)
LEMMA CurTable ==
  ASSUME MapInv
  PROVE  /\ tables[cur] \in Table /\ GoodTable(tables[cur])
         /\ XMap!TableLen(cur) = Len(tables[cur].buckets) /\ XMap!TableLen(cur) \in Nat \ {0} /\ XMap!TableLen(cur) \in Lens
         /\ \A b \in 1 .. XMap!TableLen(cur) :
              /\ tables[cur].buckets[b].slots \in Seq(Slot)
              /\ GoodSlots(tables[cur].buckets[b].slots, b, XMap!TableLen(cur))
<1>1. tables[cur] \in Table /\ GoodTable(tables[cur]) /\ XMap!TableLen(cur) \in Lens
  BY CurIs, TableAt DEF MapInv, TablesGood
<1> QED
  BY <1>1, LenOf, ChainOf DEF XMap!TableLen, GoodTable

LEMMA NothingCopied ==
  ASSUME NEW T \in Table, GoodTable(T), NEW k \in Keys
  PROVE  UpTo(T, 0, 0, k) = Absent
<1>1. XMap!Bucket(Len(T.buckets), k) \in 1 .. Len(T.buckets)
  BY LenOf
<1>2. \A s : Part(s, 0, k) = Absent
  BY DEF Part
<1> QED
  BY <1>1, <1>2 DEF UpTo

LEMMA InvMake ==
  ASSUME MapInv, NEW t \in Threads, XMap!Make(t)
  PROVE  MapInv'
<1>1. /\ th[t].pc = "make" /\ UNCHANGED <<tables, cur, resizing, abs, held>>
  BY DEF XMap!Make
<1>2. /\ Same /\ HoldersKept(t) /\ tables' \in Seq(Table) /\ Len(tables') = Len(tables)
      /\ tables'[cur].size = tables[cur].size
  BY <1>1, TablesStay
<1>3. CASE XMap!Go(t, "finish") /\ th[t].hint = "shrink"
  BY <1>1, <1>2, <1>3, CallIs, Moves DEF Points, Writing, InResize, Resizing
<1>4. CASE ~(th[t].hint = "shrink" /\ ~XMap!MayShrink(cur))
  <2> DEFINE n == CASE th[t].hint = "grow" -> 2 * XMap!TableLen(cur)
                    [] th[t].hint = "shrink" -> XMap!TableLen(cur) \div 2
                    [] OTHER -> MinLen
             W == XMap!NewTable(n, th[t].hint = "clear")
             r == [th[t] EXCEPT !.new = W, !.pc = IF th[t].hint = "clear" THEN "publish" ELSE "copy"]
  <2>1. n \in Lens
    BY <1>4, LensAre, CurTable DEF XMap!MayShrink
  <2>2. n \in Nat /\ n # 0
    BY <2>1, LensAre
  <2>3. /\ W \in Table /\ GoodTable(W) /\ Len(W.buckets) = n /\ W.size = 0
        /\ W.clear = (th[t].hint = "clear") /\ \A k \in Keys : Lookup(W, k) = Absent
    <3> HIDE DEF n
    <3> QED
      BY <2>2, NewTableType, NewTableIs
  <2>4. th' = [th EXCEPT ![t] = r]
    BY <1>4 DEF XMap!Make
  <2> HIDE DEF n, W
  <2>5. /\ MapTyped /\ th[t] \in Thread /\ th \in [Threads -> Thread] /\ FlagInv
        /\ th[t].tab \in 1 .. cur /\ th[t].key \in Keys /\ th[t].val \in Values
        /\ HistoryOk(t) /\ FoundOk(t) /\ th[t].copied = 0 /\ th[t].slot = 0
    BY <1>1, CallIs DEF CopyOk
  <2>6. /\ r \in Thread /\ r.tab = th[t].tab /\ r.key = th[t].key /\ r.val = th[t].val
        /\ r.hint = th[t].hint /\ r.found = th[t].found /\ r.fn = th[t].fn /\ r.copied = 0 /\ r.slot = 0
        /\ r.new = W /\ r.pc = IF th[t].hint = "clear" THEN "publish" ELSE "copy"
    BY <2>3, <2>5 DEF Thread, Points, InResize, Resizing
  <2> HIDE DEF r
  <2>7. MapTyped' /\ Alone(t) /\ th'[t] = r
    BY <1>1, <1>2, <2>4, <2>5, <2>6, OneMoves DEF MapTyped
  <2>8. SizeInv'
    BY <1>1, <1>2, <2>6, <2>7, SizeKept
  <2>9. FlagInv'
    BY <1>1, <2>5, <2>6, <2>7 DEF FlagInv, Alone, Resizing
  <2>10. HolderOk(t)' /\ WriterOk(t)'
    BY <2>6, <2>7 DEF HolderOk, WriterOk, Writing
  <2>11. CopyOk(t)'
    <3>1. Present(W) = {} /\ Cardinality(Present(W)) = 0
      BY <2>3, FS_EmptySet DEF Present
    <3>2. \A k \in Keys : UpTo(tables[cur], 0, 0, k) = Absent
      BY CurTable, NothingCopied
    <3>3. 0 < XMap!TableLen(cur) /\ 0 < Len(tables[cur].buckets[0 + 1].slots)
      BY CurTable, LenProperties DEF GoodSlots
    <3>4. XMap!TableLen(cur)' = XMap!TableLen(cur) /\ tables'[cur'] = tables[cur]
      BY <1>1 DEF XMap!TableLen
    <3> QED
      BY <2>1, <2>3, <2>6, <2>7, <3>1, <3>2, <3>3, <3>4 DEF CopyOk
  <2>12. HistoryOk(t)'
    BY <1>1, <2>5, <2>6, <2>7 DEF HistoryOk
  <2>13. FoundOk(t)'
    BY <1>1, <2>5, <2>6, <2>7 DEF FoundOk, Writing, InResize, Resizing
  <2>14. \A u \in Threads \ {t} :
            th[u].pc \in {"checkTable", "apply"} /\ th[u].tab = cur => Open(t, XMap!Mine(u))'
    <3> TAKE u \in Threads \ {t}
    <3>1. th'[u] = th[u] /\ XMap!Mine(u) \in Nat \ {0}
      <4>1. XMap!Mine(u) \in 1 .. XMap!TableLen(th[u].tab) /\ XMap!TableLen(th[u].tab) \in Nat
        BY MineIs DEF MapInv
      <4> QED
        BY <2>7, <4>1 DEF Alone
    <3>2. XMap!Mine(u)' = XMap!Mine(u)
      BY <1>2, <3>1, MineStays
    <3> QED
      BY <2>6, <2>7, <3>1, <3>2 DEF Open
  <2> QED
    BY <1>1, <1>2, <2>7, <2>8, <2>9, <2>10, <2>11, <2>12, <2>13, <2>14, QuietStep
<1> QED
  BY <1>3, <1>4 DEF XMap!Make

(* ---- A bucket is copied slot after slot. --------------------------------*)
LEMMA PartNext ==
  ASSUME NEW s \in Seq(Slot), NEW b, NEW n, GoodSlots(s, b, n), NEW j \in Nat, j < Len(s), NEW k \in Keys
  PROVE  /\ s[j + 1] = XMap!Empty => Part(s, j + 1, k) = Part(s, j, k)
         /\ s[j + 1] # XMap!Empty =>
              /\ Part(s, j, s[j + 1][1]) = Absent
              /\ Part(s, j + 1, k) = IF k = s[j + 1][1] THEN s[j + 1][2] ELSE Part(s, j, k)
<1>1. Len(s) \in Nat /\ j + 1 \in 1 .. Len(s) /\ \A i : i \in 1 .. j + 1 <=> i \in 1 .. j \/ i = j + 1
  BY LenProperties
<1>2. \A i \in 1 .. j : i \in 1 .. Len(s) /\ i # j + 1
  BY <1>1
<1>3. CASE s[j + 1] = XMap!Empty
  BY <1>1, <1>3 DEF Part
<1>4. CASE s[j + 1] # XMap!Empty
  <2>1. XMap!Found(s, s[j + 1][1]) = s[j + 1][2]
    BY <1>1, <1>4, FoundAt
  <2>2. \A i \in 1 .. j : ~(s[i] # XMap!Empty /\ s[i][1] = s[j + 1][1])
    BY <1>1, <1>2, <1>4 DEF GoodSlots
  <2>3. Part(s, j, s[j + 1][1]) = Absent
    BY <2>2 DEF Part
  <2>4. Part(s, j + 1, k) = IF k = s[j + 1][1] THEN s[j + 1][2] ELSE Part(s, j, k)
    BY <1>1, <1>4, <2>1 DEF Part
  <2> QED
    BY <1>4, <2>3, <2>4
<1> QED
  BY <1>3, <1>4

LEMMA PartAll ==
  ASSUME NEW s \in Seq(Slot), NEW k
  PROVE  Part(s, Len(s), k) = XMap!Found(s, k)
<1>1. CASE \E i \in 1 .. Len(s) : s[i] # XMap!Empty /\ s[i][1] = k
  BY <1>1 DEF Part
<1>2. CASE ~\E i \in 1 .. Len(s) : s[i] # XMap!Empty /\ s[i][1] = k
  <2>1. XMap!Found(s, k) = Absent
    BY <1>2, FoundNone
  <2> QED
    BY <1>2, <2>1 DEF Part
<1> QED
  BY <1>1, <1>2

LEMMA BucketDone ==
  ASSUME NEW T \in Table, GoodTable(T), NEW c \in Nat, c < Len(T.buckets), NEW k \in Keys
  PROVE  UpTo(T, c, Len(T.buckets[c + 1].slots), k) = UpTo(T, c + 1, 0, k)
<1> DEFINE s == T.buckets[c + 1].slots
           d == XMap!Bucket(Len(T.buckets), k)
<1>1. Len(T.buckets) \in Nat /\ c + 1 \in 1 .. Len(T.buckets) /\ d \in 1 .. Len(T.buckets)
  BY LenOf
<1>2. s \in Seq(Slot)
  BY <1>1, ChainOf
<1>3. Part(s, Len(s), k) = XMap!Found(s, k)
  BY <1>2, PartAll
<1>4. d = c + 1 => Lookup(T, k) = XMap!Found(s, k)
  BY DEF Lookup
<1>5. \A r : Part(r, 0, k) = Absent
  BY DEF Part
<1> HIDE DEF d, s
<1>6. UpTo(T, c, Len(s), k) = CASE d <= c -> Lookup(T, k) [] d = c + 1 -> Part(s, Len(s), k) [] OTHER -> Absent
  BY DEF UpTo, s, d
<1>7. UpTo(T, c + 1, 0, k) = CASE d <= c + 1 -> Lookup(T, k)
                                [] d = c + 1 + 1 -> Part(T.buckets[c + 1 + 1].slots, 0, k) [] OTHER -> Absent
  BY DEF UpTo, d
<1>8. d \in Nat
  BY <1>1
<1>9. UpTo(T, c, Len(s), k) = UpTo(T, c + 1, 0, k)
  <2>1. CASE d <= c
    BY <1>6, <1>7, <1>8, <2>1
  <2>2. CASE d = c + 1
    BY <1>3, <1>4, <1>6, <1>7, <1>8, <2>2
  <2>3. CASE d > c + 1
    BY <1>5, <1>6, <1>7, <1>8, <2>3
  <2> QED
    BY <1>8, <2>1, <2>2, <2>3
<1> QED
  BY <1>9 DEF s

LEMMA AllDone ==
  ASSUME NEW T \in Table, GoodTable(T), NEW k \in Keys
  PROVE  UpTo(T, Len(T.buckets), 0, k) = Lookup(T, k)
BY LenOf DEF UpTo

LEMMA UpToNext ==
  ASSUME NEW T \in Table, GoodTable(T), NEW c \in Nat, c < Len(T.buckets),
         NEW j \in Nat, j < Len(T.buckets[c + 1].slots), NEW k \in Keys
  PROVE  LET e == T.buckets[c + 1].slots[j + 1] IN
         /\ e = XMap!Empty => UpTo(T, c, j + 1, k) = UpTo(T, c, j, k)
         /\ e # XMap!Empty =>
              /\ e[1] \in Keys /\ e[2] \in Values /\ e = <<e[1], e[2]>> /\ e[2] # Absent
              /\ UpTo(T, c, j, e[1]) = Absent
              /\ UpTo(T, c, j + 1, k) = IF k = e[1] THEN e[2] ELSE UpTo(T, c, j, k)
<1> DEFINE n == Len(T.buckets)
           s == T.buckets[c + 1].slots
           d == XMap!Bucket(n, k)
           e == s[j + 1]
<1>1. n \in Nat /\ c + 1 \in 1 .. n /\ d \in Nat
  BY LenOf
<1>2. s \in Seq(Slot) /\ GoodSlots(s, c + 1, n)
  BY <1>1, ChainOf DEF GoodTable
<1>3. j + 1 \in 1 .. Len(s) /\ e \in Slot
  BY <1>2, LenProperties, ElementOfSeq
<1>4. \A i \in Nat, m \in Keys : UpTo(T, c, i, m) =
        CASE XMap!Bucket(n, m) <= c -> Lookup(T, m) [] XMap!Bucket(n, m) = c + 1 -> Part(s, i, m) [] OTHER -> Absent
  BY DEF UpTo
<1> HIDE DEF s, d, n
<1>5. CASE e = XMap!Empty
  <2>1. Part(s, j + 1, k) = Part(s, j, k)
    BY <1>2, <1>5, PartNext DEF s
  <2>2. UpTo(T, c, j + 1, k) = UpTo(T, c, j, k)
    BY <1>1, <1>4, <2>1
  <2> QED
    BY <1>5, <2>2 DEF s
<1>6. CASE e # XMap!Empty
  <2>1. e[1] \in Keys /\ e[2] \in Values /\ e = <<e[1], e[2]>> /\ e[2] # Absent
    BY <1>3, <1>6, SlotIs
  <2>2. XMap!Bucket(n, e[1]) = c + 1
    BY <1>2, <1>3, <1>6 DEF GoodSlots
  <2>3. Part(s, j, e[1]) = Absent /\ Part(s, j + 1, k) = IF k = e[1] THEN e[2] ELSE Part(s, j, k)
    BY <1>2, <1>6, PartNext DEF s
  <2>4. UpTo(T, c, j, e[1]) = Absent
    BY <1>1, <1>4, <2>1, <2>2, <2>3
  <2>5. UpTo(T, c, j + 1, k) = IF k = e[1] THEN e[2] ELSE UpTo(T, c, j, k)
    <3>1. CASE XMap!Bucket(n, k) = c + 1
      <4>1. ~(XMap!Bucket(n, k) <= c) /\ j + 1 \in Nat
        BY <1>1, <3>1
      <4>2. UpTo(T, c, j + 1, k) = Part(s, j + 1, k) /\ UpTo(T, c, j, k) = Part(s, j, k)
        BY <1>4, <3>1, <4>1
      <4> QED
        BY <2>3, <4>2
    <3>2. CASE XMap!Bucket(n, k) # c + 1
      <4>1. k # e[1] /\ j + 1 \in Nat
        BY <2>2, <3>2
      <4>2. UpTo(T, c, j + 1, k) = UpTo(T, c, j, k)
        BY <1>4, <3>2, <4>1
      <4> QED
        BY <4>1, <4>2
    <3> QED
      BY <3>1, <3>2
  <2> QED
    BY <1>6, <2>1, <2>4, <2>5 DEF s
<1> QED
  BY <1>5, <1>6

LEMMA InvCopyBucket ==
  ASSUME MapInv, NEW t \in Threads, XMap!CopyBucket(t)
  PROVE  MapInv'
<1> DEFINE T == tables[cur]
           c == th[t].copied
           j == th[t].slot
           s == T.buckets[c + 1].slots
           e == s[j + 1]
           last == j + 1 = Len(s)
           W == IF e = XMap!Empty THEN th[t].new ELSE XMap!Add(th[t].new, e)
           pc == IF last /\ c + 1 = XMap!TableLen(cur) THEN "publish" ELSE "copy"
           r == [th[t] EXCEPT !.new = W, !.slot = IF last THEN 0 ELSE j + 1,
                              !.copied = IF last THEN c + 1 ELSE c, !.pc = pc]
<1>1. /\ MapTyped /\ th[t] \in Thread /\ th \in [Threads -> Thread] /\ FlagInv /\ t # Absent
      /\ th[t].tab \in 1 .. cur /\ th[t].key \in Keys /\ th[t].val \in Values
      /\ CopyOk(t) /\ HistoryOk(t) /\ FoundOk(t) /\ th[t].pc = "copy" /\ cur \in 1 .. cur
  BY CallIs DEF XMap!CopyBucket
<1>2. /\ UNCHANGED <<cur, resizing, abs, held>>
      /\ T.buckets[c + 1].holder = IF j = 0 THEN Absent ELSE t
      /\ tables' = [tables EXCEPT ![cur].buckets[c + 1].holder = IF last THEN Absent ELSE t]
      /\ th' = [th EXCEPT ![t] = r]
  BY <1>1 DEF XMap!CopyBucket
<1>3. /\ T \in Table /\ GoodTable(T) /\ XMap!TableLen(cur) = Len(T.buckets) /\ XMap!TableLen(cur) \in Nat \ {0}
      /\ c \in Nat /\ c < XMap!TableLen(cur) /\ c + 1 \in 1 .. XMap!TableLen(cur)
      /\ s \in Seq(Slot) /\ j \in Nat /\ j < Len(s) /\ Len(s) \in Nat
  <2>1. c \in Nat /\ j \in Nat /\ c < XMap!TableLen(cur) /\ j < Len(s)
    BY <1>1, ThreadIs DEF CopyOk
  <2> QED
    BY <2>1, CurTable, LenProperties
<1>4. /\ Same /\ HoldersKept(t) /\ tables' \in Seq(Table) /\ Len(tables') = Len(tables)
      /\ tables'[cur].size = tables[cur].size
      /\ tables'[cur].buckets[c + 1].holder = IF last THEN Absent ELSE t
  <2>1. Locking(t, cur, c + 1, IF last THEN Absent ELSE t)
    BY <1>1, <1>2, <1>3 DEF Locking
  <2> HIDE DEF T, c, j, s, e, last, W, r
  <2>2. MapTyped /\ cur' = cur
    BY <1>1, <1>2
  <2> QED
    BY <1>1, <2>1, <2>2, HolderSet
<1> HIDE DEF pc
<1>5. /\ th[t].new \in Table /\ GoodTable(th[t].new) /\ Len(th[t].new.buckets) \in Lens
      /\ th[t].new.clear = (th[t].hint = "clear") /\ th[t].hint # "clear"
      /\ th[t].new.size = Cardinality(Present(th[t].new))
      /\ \A k \in Keys : Lookup(th[t].new, k) = UpTo(T, c, j, k)
  BY <1>1, ThreadIs DEF CopyOk
<1> HIDE DEF T, c, j, s, e, last, W, r
(* The new table holds what the before one holds up to this slot. *)
<1>6. /\ W \in Table /\ GoodTable(W) /\ Len(W.buckets) \in Lens /\ W.clear = (th[t].hint = "clear")
      /\ W.size = Cardinality(Present(W))
      /\ \A k \in Keys : Lookup(W, k) = UpTo(T, c, j + 1, k)
  <2>1. \A k \in Keys :
          /\ e = XMap!Empty => UpTo(T, c, j + 1, k) = UpTo(T, c, j, k)
          /\ e # XMap!Empty =>
              /\ e[1] \in Keys /\ e[2] \in Values /\ e = <<e[1], e[2]>> /\ e[2] # Absent
              /\ UpTo(T, c, j, e[1]) = Absent
              /\ UpTo(T, c, j + 1, k) = IF k = e[1] THEN e[2] ELSE UpTo(T, c, j, k)
    BY <1>3, UpToNext DEF e, s
  <2>2. CASE e = XMap!Empty
    BY <1>5, <2>1, <2>2 DEF W
  <2>3. CASE e # XMap!Empty
    <3>1. PICK k \in Keys, v \in Values : e = <<k, v>> /\ e[1] = k /\ e[2] = v /\ v # Absent
      <4>1. \E k \in Keys : TRUE
        BY MapAssumption DEF XMap!Sane
      <4> QED
        BY <2>1, <2>3, <4>1
    <3>2. Lookup(th[t].new, k) = Absent
      BY <1>5, <2>1, <2>3, <3>1
    <3>3. W = XMap!Add(th[t].new, <<k, v>>)
      BY <2>3, <3>1 DEF W
    <3>4. /\ W \in Table /\ GoodTable(W) /\ W.clear = th[t].new.clear /\ W.size = th[t].new.size + 1
          /\ Len(W.buckets) = Len(th[t].new.buckets)
          /\ \A i \in Keys : Lookup(W, i) = IF i = k THEN v ELSE Lookup(th[t].new, i)
      BY <1>5, <3>2, <3>3, AddIs
    <3>5. Cardinality(Present(W)) = Cardinality(Present(th[t].new)) + 1
      BY <3>1, <3>2, <3>4, PresentPut
    <3>6. \A i \in Keys : Lookup(W, i) = UpTo(T, c, j + 1, i)
      BY <1>5, <2>1, <2>3, <3>1, <3>4
    <3> QED
      BY <1>5, <3>4, <3>5, <3>6
  <2> QED
    BY <2>2, <2>3
<1>7. /\ r \in Thread /\ r.tab = th[t].tab /\ r.key = th[t].key /\ r.val = th[t].val
      /\ r.hint = th[t].hint /\ r.found = th[t].found /\ r.fn = th[t].fn
      /\ r.new = W /\ r.pc = pc /\ r.slot = (IF last THEN 0 ELSE j + 1) /\ r.copied = IF last THEN c + 1 ELSE c
      /\ pc \in {"copy", "publish"}
  <2>1. pc \in {"copy", "publish"}
    BY DEF pc
  <2>2. (IF last THEN 0 ELSE j + 1) \in Nat /\ (IF last THEN c + 1 ELSE c) \in Nat
    BY <1>3
  <2>3. pc \in Points
    BY <2>1 DEF Points, InResize, Resizing
  <2>4. W \in Table
    BY <1>6
  <2> QED
    BY <1>1, <2>1, <2>2, <2>3, <2>4 DEF r, Thread
<1>8. MapTyped' /\ Alone(t) /\ th'[t] = r
  BY <1>1, <1>2, <1>4, <1>7, OneMoves DEF MapTyped
<1>9. SizeInv'
  BY <1>1, <1>4, <1>7, <1>8, SizeKept
<1>10. FlagInv'
  BY <1>1, <1>2, <1>7, <1>8 DEF FlagInv, Alone, Resizing
<1>11. HolderOk(t)' /\ WriterOk(t)'
  BY <1>2, <1>4, <1>7, <1>8 DEF HolderOk, WriterOk, Writing
<1>12. CopyOk(t)'
  <2>1. XMap!TableLen(cur)' = XMap!TableLen(cur) /\ tables'[cur] \in Table /\ cur' = cur
        /\ \A k \in Keys : Lookup(tables'[cur], k) = Lookup(T, k)
    BY <1>1, <1>2, <1>4, <1>8, SameIs DEF MapInv, T
  <2>2. CASE ~last
    <3>1. tables'[cur].buckets[c + 1].slots = s
      BY <1>1, <1>3, <1>4 DEF Same, XMap!TableLen, s, T
    <3>2. j + 1 < Len(s) /\ j + 1 \in Nat
      BY <1>3, <2>2 DEF last
    <3>3. \A k \in Keys : UpTo(tables'[cur], c, j + 1, k) = UpTo(T, c, j + 1, k)
      BY <1>3, <1>4, <1>8, <3>2, SameUpTo DEF MapInv, T
    <3> QED
      BY <1>3, <1>5, <1>6, <1>7, <1>8, <2>1, <2>2, <3>1, <3>2, <3>3 DEF CopyOk, pc
  <2>3. CASE last
    <3>1. \A k \in Keys : UpTo(T, c, j + 1, k) = UpTo(T, c + 1, 0, k)
      BY <1>3, <2>3, BucketDone DEF last, s
    <3>2. CASE c + 1 = XMap!TableLen(cur)
      <4>1. \A k \in Keys : UpTo(T, c + 1, 0, k) = Lookup(T, k)
        BY <1>3, <3>2, AllDone
      <4> QED
        BY <1>5, <1>6, <1>7, <1>8, <2>1, <2>3, <3>1, <3>2, <4>1 DEF CopyOk, pc
    <3>3. CASE c + 1 # XMap!TableLen(cur)
      <4>1. c + 1 < XMap!TableLen(cur) /\ c + 1 \in Nat /\ c + 1 + 1 \in 1 .. XMap!TableLen(cur)
        BY <1>3, <3>3
      <4>2. \A k \in Keys : UpTo(tables'[cur], c + 1, 0, k) = UpTo(T, c + 1, 0, k)
        BY <1>3, <1>4, <1>8, <4>1, SameUpTo DEF MapInv, T
      <4>3. 0 < Len(tables'[cur].buckets[c + 1 + 1].slots)
        <5>1. tables'[cur].buckets[c + 1 + 1].slots = T.buckets[c + 1 + 1].slots
          BY <1>1, <4>1, <1>4 DEF Same, XMap!TableLen, T
        <5>2. /\ T.buckets[c + 1 + 1].slots \in Seq(Slot)
              /\ GoodSlots(T.buckets[c + 1 + 1].slots, c + 1 + 1, XMap!TableLen(cur))
          BY <4>1, CurTable DEF T
        <5> QED
          BY <5>1, <5>2, LenProperties DEF GoodSlots
      <4> QED
        BY <1>5, <1>6, <1>7, <1>8, <2>1, <2>3, <3>1, <3>3, <4>1, <4>2, <4>3 DEF CopyOk, pc
    <3> QED
      BY <3>2, <3>3
  <2> QED
    BY <2>2, <2>3
<1>13. HistoryOk(t)'
  <2>1. Lookup(tables'[th[t].tab], th[t].key) = Lookup(tables[th[t].tab], th[t].key)
    BY <1>1, <1>4, LookupStays
  <2> QED
    BY <1>1, <1>2, <1>7, <1>8, <2>1 DEF HistoryOk
<1>14. FoundOk(t)'
  BY <1>1, <1>2, <1>7, <1>8 DEF FoundOk, Writing, InResize, Resizing
(* No writer past its checks is in the bucket that was copied. *)
<1>15. \A u \in Threads \ {t} :
          th[u].pc \in {"checkTable", "apply"} /\ th[u].tab = cur => Open(t, XMap!Mine(u))'
  <2> SUFFICES ASSUME NEW u \in Threads \ {t}, th[u].pc \in {"checkTable", "apply"}, th[u].tab = cur
               PROVE  Open(t, XMap!Mine(u))'
    OBVIOUS
  <2>1. th'[u] = th[u]
    BY <1>8 DEF Alone
  <2>2. XMap!Mine(u)' = XMap!Mine(u)
    BY <1>4, <2>1, MineStays
  <2>3. c < XMap!Mine(u) /\ XMap!Mine(u) \in Nat /\ XMap!Mine(u) <= XMap!TableLen(cur)
    <3>1. Open(t, XMap!Mine(u))
      BY CallIs DEF WriterOk
    <3>2. XMap!Mine(u) \in 1 .. XMap!TableLen(cur)
      BY CallIs, MineIs
    <3> QED
      BY <1>1, <1>3, <3>1, <3>2 DEF Open, c
  <2>4. XMap!Mine(u) # c + 1
    <3>1. T.buckets[XMap!Mine(u)].holder = u
      BY CallIs DEF HolderOk, Writing, T
    <3> QED
      BY <1>2, <3>1, CallIs DEF T, c, j
  <2> QED
    BY <1>3, <1>7, <1>8, <2>2, <2>3, <2>4 DEF Open, pc
<1> QED
  BY <1>2, <1>4, <1>8, <1>9, <1>10, <1>11, <1>12, <1>13, <1>14, <1>15, QuietStep

LEMMA OwingFinite ==
  ASSUME NEW d PROVE IsFiniteSet(Owing(d)) /\ Cardinality(Owing(d)) \in Nat
<1>1. Owing(d) \in SUBSET Threads
  BY DEF Owing
<1> QED
  BY <1>1, MapAssumption, FiniteHere, FS_Subset, FS_CardinalityType DEF XMap!Sane

(* The counter is adjusted: nothing else changes in the tables.             *)
LEMMA InvAddSize ==
  ASSUME MapInv, NEW t \in Threads, XMap!AddSize(t)
  PROVE  MapInv'
<1> DEFINE i == th[t].tab
           d == th[t].delta
           T == tables[i]
           U == [T EXCEPT !.size = @ + d]
           r == IF th[t].hint = "shrink" THEN [th[t] EXCEPT !.pc = "resize"]
                ELSE XMap!Idle(th[t].fn, th[t].key, th[t].found)
<1>1. /\ MapTyped /\ TablesGood /\ th[t] \in Thread /\ th \in [Threads -> Thread] /\ FlagInv /\ i \in 1 .. cur
      /\ th[t].key \in Keys /\ th[t].val \in Values /\ th[t].pc = "size" /\ cur \in Nat \ {0} /\ cur \in 1 .. cur
      /\ HistoryOk(t) /\ FoundOk(t) /\ UNCHANGED <<cur, resizing, abs, held>>
  BY CallIs, CurIs DEF XMap!AddSize
<1>2. d \in {1, -1} /\ th[t].found \in held[t] /\ th[t].hint \in {"grow", "shrink"} /\ th[t].found \in Values \cup {Absent}
  BY <1>1 DEF FoundOk, Thread
<1>3. tables' = [tables EXCEPT ![i] = U] /\ th' = [th EXCEPT ![t] = r]
  BY DEF XMap!AddSize, XMap!Go, XMap!Return
<1>4. T \in Table /\ U \in Table /\ U.buckets = T.buckets /\ U.clear = T.clear /\ U.size = T.size + d
      /\ T.size \in Int
  <2>1. T \in Table
    BY <1>1, TableAt
  <2> HIDE DEF T, d
  <2> QED
    BY <1>2, <2>1 DEF Table
<1>5. /\ r \in Thread /\ r.pc \in {"idle", "resize"} /\ r.found = th[t].found /\ r.fn = th[t].fn
      /\ r.tab \in 1 .. cur
      /\ r.pc = "idle" => r.hint = "grow"
      /\ r.pc = "resize" => r.tab = i /\ r.key = th[t].key /\ r.hint = "shrink" /\ r.val = th[t].val
  <2>1. CASE th[t].hint = "shrink"
    BY <1>1, <2>1 DEF Thread, Points, InResize
  <2>2. CASE th[t].hint # "shrink"
    <3>1. r = XMap!Idle(th[t].fn, th[t].key, th[t].found)
      BY <2>2
    <3> HIDE DEF r
    <3> QED
      BY <1>1, <1>2, <3>1, IdleOf
  <2> QED
    BY <2>1, <2>2
<1> HIDE DEF r, U
<1>6. tables' \in Seq(Table) /\ Len(tables') = Len(tables) /\ \A j \in 1 .. cur : tables'[j] = IF j = i THEN U ELSE tables[j]
  <2>1. tables \in Seq(Table) /\ i \in 1 .. Len(tables) /\ cur = Len(tables)
    BY <1>1 DEF MapTyped
  <2> HIDE DEF i
  <2> QED
    BY <1>3, <1>4, <2>1, ExceptSeq
<1>7. Same /\ HoldersKept(t)
  BY <1>1, <1>4, <1>6 DEF Same, HoldersKept
<1>8. MapTyped' /\ Alone(t) /\ th'[t] = r
  <2>1. resizing' \in BOOLEAN /\ held' \in [Threads -> SUBSET (Values \cup {Absent})]
    BY <1>1 DEF MapTyped
  <2> QED
    BY <1>1, <1>3, <1>5, <1>6, <2>1, OneMoves
<1>9. SizeInv'
  <2>1. Present(tables'[cur]) = Present(tables[cur])
    BY <1>1, <1>7, <1>8, SameIs
  <2>2. cur' = cur /\ tables[cur].size + Cardinality(Owing(1)) = Cardinality(Present(tables[cur])) + Cardinality(Owing(-1))
    BY <1>1 DEF MapInv, SizeInv
  <2>3. /\ Cardinality(Owing(1)) \in Nat /\ Cardinality(Owing(-1)) \in Nat /\ IsFiniteSet(Owing(1)) /\ IsFiniteSet(Owing(-1))
        /\ Cardinality(Present(tables[cur])) \in Nat
    BY OwingFinite, PresentFinite
  <2>4. \A x : Owing(x)' = Owing(x) \ {t}
    BY <1>1, <1>5, <1>8 DEF Owing, Alone
  <2>5. \A x : t \in Owing(x) <=> i = cur /\ x = d
    BY <1>1 DEF Owing
  <2>6. /\ Cardinality(Owing(1)') = Cardinality(Owing(1)) - (IF i = cur /\ d = 1 THEN 1 ELSE 0)
        /\ Cardinality(Owing(-1)') = Cardinality(Owing(-1)) - (IF i = cur /\ d = -1 THEN 1 ELSE 0)
    BY <2>3, <2>4, <2>5, FS_RemoveElement
  <2>7. tables'[cur].size = tables[cur].size + (IF i = cur THEN d ELSE 0) /\ tables[cur].size \in Int
    <3>1. tables[cur].size \in Int
      BY <1>1, TableAt DEF Table
    <3> QED
      BY <1>1, <1>4, <1>6, <3>1
  <2>8. tables'[cur].size + Cardinality(Owing(1)') = Cardinality(Present(tables[cur])) + Cardinality(Owing(-1)')
    BY <1>2, <2>2, <2>3, <2>6, <2>7
  <2> QED
    BY <2>1, <2>2, <2>8 DEF SizeInv
<1>10. FlagInv'
  BY <1>1, <1>5, <1>8 DEF FlagInv, Alone, Resizing
<1>11. HolderOk(t)' /\ WriterOk(t)' /\ CopyOk(t)' /\ \A b : Open(t, b)'
  BY <1>5, <1>8 DEF HolderOk, WriterOk, CopyOk, Open, Writing
<1>12. HistoryOk(t)'
  <2>1. Lookup(tables'[i], th[t].key) = Lookup(tables[i], th[t].key)
    BY <1>1, <1>6, <1>7, LookupStays
  <2> QED
    BY <1>1, <1>5, <1>8, <2>1 DEF HistoryOk
<1>13. FoundOk(t)'
  BY <1>1, <1>2, <1>5, <1>8 DEF FoundOk, Writing, InResize, Resizing
<1> QED
  BY <1>1, <1>7, <1>8, <1>9, <1>10, <1>11, <1>12, <1>13, QuietStep

(* ---- The published table is replaced. -----------------------------------*)
LEMMA InvPublish ==
  ASSUME MapInv, NEW t \in Threads, XMap!Publish(t)
  PROVE  MapInv'
<1> DEFINE W == th[t].new
           r == [th[t] EXCEPT !.pc = "finish"]
           clear == th[t].hint = "clear"
<1>1. /\ MapTyped /\ TablesGood /\ th[t] \in Thread /\ th \in [Threads -> Thread] /\ FlagInv
      /\ th[t].key \in Keys /\ th[t].pc = "publish" /\ cur \in Nat \ {0} /\ cur = Len(tables)
      /\ CopyOk(t) /\ resizing' = resizing
  BY CallIs, CurIs DEF XMap!Publish
<1>2. /\ tables' = Append(tables, W) /\ cur' = cur + 1 /\ th' = [th EXCEPT ![t] = r]
  BY <1>1 DEF XMap!Publish, XMap!Go
<1>3. /\ W \in Table /\ GoodTable(W) /\ Len(W.buckets) \in Lens /\ W.clear = clear
      /\ W.size = Cardinality(Present(W))
      /\ \A k \in Keys : Lookup(W, k) = IF clear THEN Absent ELSE Lookup(tables[cur], k)
  BY <1>1, ThreadIs DEF CopyOk
<1>4. /\ tables' \in Seq(Table) /\ Len(tables') = cur + 1 /\ tables'[cur + 1] = W
      /\ \A i \in 1 .. cur : tables'[i] = tables[i]
  <2>1. tables \in Seq(Table)
    BY <1>1 DEF MapTyped
  <2> HIDE DEF W
  <2> QED
    BY <1>1, <1>2, <1>3, <2>1
<1> HIDE DEF W
<1>5. /\ r \in Thread /\ r.pc = "finish" /\ r.tab = th[t].tab /\ r.key = th[t].key /\ r.val = th[t].val
      /\ r.hint = th[t].hint /\ r.found = th[t].found /\ r.fn = th[t].fn
  BY <1>1 DEF Thread, Points, InResize, Resizing
<1>6. th' \in [Threads -> Thread] /\ th'[t] = r /\ \A u \in Threads \ {t} : th'[u] = th[u]
  BY <1>1, <1>2, <1>5
<1> HIDE DEF r
<1>7. \A u \in Threads : /\ th[u].tab \in 1 .. cur /\ th[u].key \in Keys /\ th'[u].tab = th[u].tab
                         /\ th'[u].key = th[u].key
                         /\ th'[u].pc = "idle" <=> th[u].pc = "idle"
                         /\ th'[u].pc \in {"idle", "attempt"} <=> th[u].pc \in {"idle", "attempt"}
  BY <1>1, <1>5, <1>6, ThreadIs
(* What the abstract map is now, and that nothing that was held is dropped. *)
<1>8. /\ abs' \in [Keys -> Values \cup {Absent}] /\ \A k \in Keys : abs'[k] = Lookup(W, k)
      /\ held' \in [Threads -> SUBSET (Values \cup {Absent})]
      /\ \A u \in Threads : held[u] \subseteq held'[u] /\ (th[u].pc # "idle" => abs'[th[u].key] \in held'[u])
  <2>1. /\ abs \in [Keys -> Values \cup {Absent}] /\ held \in [Threads -> SUBSET (Values \cup {Absent})]
        /\ \A k \in Keys : abs[k] = Lookup(tables[cur], k)
    BY <1>1 DEF MapTyped, MapInv, NothingLost
  <2>2. CASE clear
    <3>1. abs' = [k \in Keys |-> Absent]
          /\ held' = [u \in Threads |-> IF th[u].pc = "idle" THEN held[u]
                                        ELSE held[u] \cup {[k \in Keys |-> Absent][th[u].key]}]
      BY <2>2 DEF XMap!Publish, XMap!Remember
    <3> QED
      BY <1>3, <1>7, <2>1, <2>2, <3>1
  <2>3. CASE ~clear
    <3>1. abs' = abs /\ held' = held
      BY <2>3 DEF XMap!Publish
    <3>2. \A u \in Threads : th[u].pc # "idle" => abs[th[u].key] \in held[u]
      BY DEF MapInv, HistoryOk
    <3> QED
      BY <1>3, <2>1, <2>3, <3>1, <3>2
  <2> QED
    BY <2>2, <2>3
<1>9. MapTyped'
  <2>1. \A u \in Threads : th'[u].tab \in 1 .. cur'
    BY <1>1, <1>2, <1>7
  <2>2. \A u \in Threads : th'[u].pc # "idle" => th'[u].val \in Values
    BY <1>1, <1>5, <1>6, ThreadIs
  <2> QED
    BY <1>1, <1>2, <1>4, <1>6, <1>8, <2>1, <2>2 DEF MapTyped
<1>10. \A i \in 1 .. cur : XMap!TableLen(i)' = XMap!TableLen(i)
  BY <1>4 DEF XMap!TableLen
<1>11. TablesGood'
  <2> SUFFICES ASSUME NEW i \in 1 .. cur + 1 PROVE GoodTable(tables'[i]) /\ XMap!TableLen(i)' \in Lens
    BY <1>2 DEF TablesGood
  <2>1. CASE i = cur + 1
    BY <1>3, <1>4, <2>1 DEF XMap!TableLen
  <2>2. CASE i \in 1 .. cur
    BY <1>1, <1>4, <1>10, <2>2 DEF TablesGood
  <2> QED
    BY <1>1, <2>1, <2>2
<1>12. FlagInv'
  BY <1>1, <1>5, <1>6 DEF FlagInv, Resizing
<1>13. NothingLost'
  BY <1>2, <1>4, <1>8 DEF NothingLost
<1>14. SizeInv'
  <2>1. \A d : Owing(d)' = {}
    BY <1>1, <1>2, <1>7 DEF Owing
  <2>2. Cardinality({}) = 0 /\ Cardinality(Present(W)) \in Nat
    BY FS_EmptySet, PresentFinite
  <2> QED
    BY <1>2, <1>3, <1>4, <2>1, <2>2 DEF SizeInv
<1>15. ASSUME NEW u \in Threads
       PROVE  HolderOk(u)' /\ WriterOk(u)' /\ CopyOk(u)' /\ HistoryOk(u)' /\ FoundOk(u)'
  <2>1. HolderOk(u) /\ WriterOk(u) /\ HistoryOk(u) /\ FoundOk(u) /\ th[u].tab \in 1 .. cur
    BY <1>7 DEF MapInv
  <2>2. tables'[th[u].tab] = tables[th[u].tab] /\ XMap!TableLen(th[u].tab)' = XMap!TableLen(th[u].tab)
    <3>1. tables'[th[u].tab] = tables[th[u].tab] /\ th'[u].tab = th[u].tab
      BY <1>4, <1>7
    <3> QED
      BY <3>1 DEF XMap!TableLen
  <2>3. XMap!Mine(u)' = XMap!Mine(u)
    BY <1>7, <2>2 DEF XMap!Mine, XMap!TableLen
  <2>4. /\ th'[u].pc \notin {"make", "copy", "publish"}
        /\ u # t => th'[u] = th[u] /\ th[u].pc \notin Resizing
    <3>1. u # t => th'[u] = th[u] /\ th[u].pc \notin Resizing
      BY <1>1, <1>6 DEF FlagInv, Resizing
    <3> QED
      BY <1>5, <1>6, <3>1 DEF Resizing
  <2>5. HolderOk(u)'
    BY <1>5, <1>6, <1>7, <2>1, <2>2, <2>3, <2>4 DEF HolderOk, Writing
  <2>6. WriterOk(u)'
    <3>1. th'[u].tab # cur'
      BY <1>1, <1>2, <1>7
    <3>2. ASSUME th'[u].pc = "apply" PROVE XMap!Overtaken(u)'
      <4>1. u # t /\ th[u].pc = "apply"
        BY <1>5, <1>6, <2>4, <3>2
      <4>2. CASE th[u].tab # cur
        <5>1. PICK i \in th[u].tab + 1 .. cur : tables[i].clear
          BY <2>1, <4>1, <4>2 DEF WriterOk, XMap!Overtaken
        <5>2. i \in 1 .. cur /\ i \in th'[u].tab + 1 .. cur'
          BY <1>1, <1>2, <1>7, <2>1
        <5> QED
          BY <1>4, <5>1, <5>2 DEF XMap!Overtaken
      <4>3. CASE th[u].tab = cur
        <5>1. clear
          BY <1>1, <2>1, <4>1, <4>3 DEF WriterOk, Open
        <5>2. tables'[cur'].clear /\ cur' \in th'[u].tab + 1 .. cur'
          <6>1. cur + 1 \in cur + 1 .. cur + 1 /\ th'[u].tab = cur
            BY <1>1, <1>7, <4>3
          <6>2. tables'[cur'] = W
            BY <1>2, <1>4
          <6>3. W.clear
            BY <1>3, <5>1
          <6> QED
            BY <1>2, <6>1, <6>2, <6>3
        <5> QED
          BY <5>2 DEF XMap!Overtaken
      <4> QED
        BY <4>2, <4>3
    <3> QED
      BY <3>1, <3>2 DEF WriterOk
  <2>7. CopyOk(u)'
    BY <2>4 DEF CopyOk
  <2>8. HistoryOk(u)'
    BY <1>7, <1>8, <2>1, <2>2 DEF HistoryOk
  <2>9. FoundOk(u)'
    <3>1. CASE u = t
      <4>1. th[t].hint = "clear" => th[t].found = Absent /\ Absent \in held'[t]
        BY <1>1, <1>3, <1>8, <2>1, <3>1 DEF FoundOk, InResize, Resizing
      <4> QED
        BY <1>1, <1>5, <1>6, <1>8, <2>1, <3>1, <4>1 DEF FoundOk, Writing, InResize, Resizing
    <3>2. CASE u # t
      BY <1>8, <2>1, <2>4, <3>2 DEF FoundOk, Writing, InResize, Resizing
    <3> QED
      BY <3>1, <3>2
  <2> QED
    BY <2>5, <2>6, <2>7, <2>8, <2>9
<1> QED
  BY <1>9, <1>11, <1>12, <1>13, <1>14, <1>15 DEF MapInv

(* ---- The function of a call takes effect. -------------------------------*)
(* slots are those of the bucket of t with v under its key.                 *)
Writes(t, slots, v) ==
    /\ slots \in Seq(Slot) /\ GoodSlots(slots, XMap!Mine(t), XMap!TableLen(th[t].tab))
    /\ \A k \in Keys : XMap!Found(slots, k) = IF k = th[t].key THEN v ELSE XMap!Found(XMap!Slots(t), k)
    /\ tables' = [tables EXCEPT ![th[t].tab].buckets[XMap!Mine(t)] = [slots |-> slots, holder |-> Absent]]
    /\ cur' = cur

(* What the tables are after that.                                          *)
Written(t, v) ==
    /\ tables' \in Seq(Table) /\ Len(tables') = Len(tables) /\ cur' = cur
    /\ \A i \in 1 .. cur :
         /\ Len(tables'[i].buckets) = Len(tables[i].buckets) /\ tables'[i].clear = tables[i].clear
         /\ tables'[i].size = tables[i].size /\ GoodTable(tables'[i])
         /\ \A b \in 1 .. Len(tables[i].buckets) :
              ~(i = th[t].tab /\ b = XMap!Mine(t)) => tables'[i].buckets[b] = tables[i].buckets[b]
         /\ \A k \in Keys :
              Lookup(tables'[i], k) = IF i = th[t].tab /\ k = th[t].key THEN v ELSE Lookup(tables[i], k)

LEMMA TableWritten ==
  ASSUME MapInv, NEW t \in Threads, NEW slots, NEW v, Writes(t, slots, v)
  PROVE  Written(t, v)
<1> DEFINE i == th[t].tab
           b == XMap!Mine(t)
           T == tables[i]
           c == [slots |-> slots, holder |-> Absent]
           w == [T.buckets EXCEPT ![b] = c]
           U == [T EXCEPT !.buckets = w]
<1>1. /\ MapTyped /\ TablesGood /\ i \in 1 .. cur /\ cur = Len(tables) /\ th[t].key \in Keys
      /\ T \in Table /\ GoodTable(T) /\ T.buckets \in Seq(Chain)
      /\ b \in 1 .. Len(T.buckets) /\ b = XMap!Bucket(Len(T.buckets), th[t].key)
  <2>1. MapTyped /\ TablesGood /\ i \in 1 .. cur /\ cur = Len(tables) /\ th[t].key \in Keys
    BY CallIs, CurIs
  <2>2. T \in Table /\ GoodTable(T)
    BY <2>1, TableAt DEF TablesGood
  <2>3. b \in 1 .. Len(T.buckets) /\ b = XMap!Bucket(Len(T.buckets), th[t].key)
    BY <2>1, MineIs DEF XMap!TableLen
  <2> QED
    BY <2>1, <2>2, <2>3 DEF Table
<1>2. tables' = [tables EXCEPT ![i] = U] /\ cur' = cur
  BY DEF Writes
<1>3. c \in Chain /\ c.slots = slots
  BY DEF Writes, Chain
<1>4. /\ GoodSlots(slots, b, Len(T.buckets))
      /\ \A k \in Keys : XMap!Found(slots, k) = IF k = th[t].key THEN v ELSE XMap!Found(T.buckets[b].slots, k)
  BY DEF Writes, XMap!Slots, XMap!TableLen
<1> HIDE DEF c
<1>5. w \in Seq(Chain) /\ Len(w) = Len(T.buckets)
      /\ \A d \in 1 .. Len(T.buckets) : w[d] = IF d = b THEN c ELSE T.buckets[d]
  BY <1>1, <1>3, ExceptSeq
<1> HIDE DEF w
<1>6. U \in Table /\ U.buckets = w /\ U.size = T.size /\ U.clear = T.clear
  <2> HIDE DEF T
  <2> QED
    BY <1>1, <1>5 DEF Table
<1> HIDE DEF U
<1>7. /\ tables' \in Seq(Table) /\ Len(tables') = Len(tables)
      /\ \A j \in 1 .. cur : tables'[j] = IF j = i THEN U ELSE tables[j]
  <2>1. tables \in Seq(Table) /\ i \in 1 .. Len(tables)
    BY <1>1 DEF MapTyped
  <2> HIDE DEF i
  <2> QED
    BY <1>1, <1>2, <1>6, <2>1, ExceptSeq
<1>8. GoodTable(U) /\ \A k \in Keys : Lookup(U, k) = IF k = th[t].key THEN v ELSE Lookup(T, k)
  <2>1. /\ Len(U.buckets) = Len(T.buckets) /\ U.buckets[b].slots = slots
        /\ \A d \in 1 .. Len(T.buckets) : d # b => U.buckets[d].slots = T.buckets[d].slots
    BY <1>1, <1>3, <1>5, <1>6
  <2>2. PutIn(T, U, th[t].key, v)
    BY <1>1, <1>4, <2>1 DEF PutIn
  <2> QED
    BY <1>1, <1>6, <2>2, PutChain
<1>9. ASSUME NEW j \in 1 .. cur
      PROVE  /\ Len(tables'[j].buckets) = Len(tables[j].buckets) /\ tables'[j].clear = tables[j].clear
             /\ tables'[j].size = tables[j].size /\ GoodTable(tables'[j])
             /\ \A d \in 1 .. Len(tables[j].buckets) :
                  ~(j = i /\ d = b) => tables'[j].buckets[d] = tables[j].buckets[d]
             /\ \A k \in Keys :
                  Lookup(tables'[j], k) = IF j = i /\ k = th[t].key THEN v ELSE Lookup(tables[j], k)
  <2>1. CASE j = i
    <3>1. tables'[j] = U /\ tables[j] = T
      BY <1>7, <2>1
    <3> QED
      BY <1>5, <1>6, <1>8, <2>1, <3>1
  <2>2. CASE j # i
    <3>1. tables'[j] = tables[j]
      BY <1>7, <2>2
    <3> QED
      BY <1>1, <2>2, <3>1 DEF TablesGood
  <2> QED
    BY <2>1, <2>2
<1> QED
  BY <1>2, <1>7, <1>9 DEF Written

(* What the history is after that: the abstract map changes with the        *)
(* published table, and every call that looks where t wrote may find v.     *)
Recorded(t, v) ==
    /\ abs' \in [Keys -> Values \cup {Absent}]
    /\ held' \in [Threads -> SUBSET (Values \cup {Absent})]
    /\ \A k \in Keys : abs'[k] = IF th[t].tab = cur /\ k = th[t].key THEN v ELSE abs[k]
    /\ \A u \in Threads :
         /\ held[u] \subseteq held'[u]
         /\ th[u].pc # "idle" => abs'[th[u].key] \in held'[u]
         /\ th[u].pc \notin {"idle", "attempt"} /\ th[u].tab = th[t].tab /\ th[u].key = th[t].key
              => v \in held'[u]

LEMMA HistoryRecorded ==
  ASSUME MapInv, NEW t \in Threads, th[t].pc = "apply", NEW slots, NEW v \in Values \cup {Absent},
         XMap!Effect(t, slots, v)
  PROVE  Recorded(t, v)
<1>1. /\ MapTyped /\ th[t].tab \in 1 .. cur /\ th[t].key \in Keys /\ cur \in Nat
      /\ \A u \in Threads : th[u].key \in Keys
      /\ abs \in [Keys -> Values \cup {Absent}] /\ held \in [Threads -> SUBSET (Values \cup {Absent})]
  BY CallIs DEF MapTyped
<1>2. \A u \in Threads : th[u].pc # "idle" => abs[th[u].key] \in held[u]
  BY DEF MapInv, HistoryOk
<1>3. CASE th[t].tab = cur
  <2>1. ~XMap!Overtaken(t)
    BY <1>1, <1>3 DEF XMap!Overtaken
  <2> DEFINE a == [abs EXCEPT ![th[t].key] = v]
  <2>2. abs' = a /\ held' = [u \in Threads |-> IF th[u].pc = "idle" THEN held[u] ELSE held[u] \cup {a[th[u].key]}]
    BY <2>1 DEF XMap!Effect, XMap!Remember
  <2>3. a \in [Keys -> Values \cup {Absent}] /\ \A k \in Keys : a[k] = IF k = th[t].key THEN v ELSE abs[k]
    BY <1>1
  <2> HIDE DEF a
  <2> QED
    BY <1>1, <1>3, <2>2, <2>3 DEF Recorded
<1>4. CASE th[t].tab # cur
  <2>1. XMap!Overtaken(t)
    BY <1>4, CallIs DEF WriterOk
  <2>2. abs' = abs /\ held' = [u \in Threads |-> held[u] \cup (IF XMap!SameView(t, u) THEN {v} ELSE {})]
    BY <2>1 DEF XMap!Effect
  <2> QED
    BY <1>1, <1>2, <1>4, <2>2 DEF Recorded, XMap!SameView
<1> QED
  BY <1>3, <1>4

(* How the call of t goes on: it returns, or owes the counter a change.     *)
GoesOn(t, r, v) ==
    LET before == Lookup(tables[th[t].tab], th[t].key) IN
    /\ r \in Thread /\ th' = [th EXCEPT ![t] = r] /\ r.found \in held[t]
    /\ \/ r.pc = "idle" /\ r.tab = 1 /\ r.hint = "grow" /\ v # Absent /\ before # Absent
       \/ /\ r.pc = "size" /\ r.tab = th[t].tab /\ r.key = th[t].key /\ r.val = th[t].val
          /\ r.hint \in {"grow", "shrink"} /\ r.delta \in {1, -1}
          /\ r.delta = 1 => v # Absent /\ before = Absent
          /\ r.delta = -1 => v = Absent /\ before # Absent

LEMMA SizeOwed ==
  ASSUME MapInv, NEW t \in Threads, th[t].pc = "apply", NEW v, NEW r, Written(t, v), GoesOn(t, r, v)
  PROVE  SizeInv'
<1> DEFINE before == Lookup(tables[th[t].tab], th[t].key)
<1>1. /\ MapTyped /\ cur \in 1 .. cur /\ th \in [Threads -> Thread] /\ th[t].key \in Keys /\ cur' = cur
      /\ th' = [th EXCEPT ![t] = r]
  BY CallIs DEF Written, GoesOn
<1>2. /\ tables[cur].size \in Int
      /\ tables[cur].size + Cardinality(Owing(1)) = Cardinality(Present(tables[cur])) + Cardinality(Owing(-1))
  BY <1>1, TableAt DEF MapInv, SizeInv, Table
<1>3. /\ Cardinality(Owing(1)) \in Nat /\ Cardinality(Owing(-1)) \in Nat /\ IsFiniteSet(Owing(1)) /\ IsFiniteSet(Owing(-1))
      /\ Cardinality(Present(tables[cur])) \in Nat
  BY OwingFinite, PresentFinite
<1>4. tables'[cur].size = tables[cur].size
  BY <1>1 DEF Written
<1>5. \A d : t \notin Owing(d)
  BY DEF Owing
<1>6. th'[t] = r /\ \A u \in Threads \ {t} : th'[u] = th[u]
  BY <1>1
<1>7. \A d : Owing(d)' = IF r.pc = "size" /\ r.tab = cur /\ r.delta = d THEN Owing(d) \cup {t} ELSE Owing(d)
  BY <1>1, <1>5, <1>6 DEF Owing
<1>8. CASE th[t].tab # cur
  <2>1. Present(tables'[cur]) = Present(tables[cur])
    BY <1>1, <1>8, PresentSame DEF Written
  <2>2. ~(r.pc = "size" /\ r.tab = cur)
    BY <1>8 DEF GoesOn
  <2> QED
    BY <1>1, <1>2, <1>4, <1>7, <2>1, <2>2 DEF SizeInv
<1>9. CASE th[t].tab = cur
  <2>1. \A k \in Keys : Lookup(tables'[cur], k) = IF k = th[t].key THEN v ELSE Lookup(tables[cur], k)
    BY <1>1, <1>9 DEF Written
  <2>2. /\ v # Absent /\ before = Absent => Cardinality(Present(tables'[cur])) = Cardinality(Present(tables[cur])) + 1
        /\ v = Absent /\ before # Absent => Cardinality(Present(tables'[cur])) = Cardinality(Present(tables[cur])) - 1
        /\ v # Absent /\ before # Absent => Present(tables'[cur]) = Present(tables[cur])
    BY <1>1, <1>9, <2>1, PresentPut
  <2>3. \A d : Cardinality(Owing(d) \cup {t}) = Cardinality(Owing(d)) + 1
    BY <1>5, OwingFinite, FS_AddElement
  <2> HIDE DEF before
  <2>4. CASE r.pc = "idle"
    <3>1. v # Absent /\ before # Absent
      BY <2>4 DEF GoesOn, before
    <3>2. Owing(1)' = Owing(1) /\ Owing(-1)' = Owing(-1)
      BY <1>7, <2>4
    <3> QED
      BY <1>1, <1>2, <1>4, <2>2, <3>1, <3>2 DEF SizeInv
  <2>5. CASE r.pc = "size" /\ r.delta = 1
    <3>1. v # Absent /\ before = Absent /\ r.tab = cur
      BY <1>9, <2>5 DEF GoesOn, before
    <3>2. Cardinality(Owing(1)') = Cardinality(Owing(1)) + 1 /\ Owing(-1)' = Owing(-1)
      BY <1>7, <2>3, <2>5, <3>1
    <3>3. tables'[cur].size + Cardinality(Owing(1)') = Cardinality(Present(tables'[cur])) + Cardinality(Owing(-1)')
      BY <1>2, <1>3, <1>4, <2>2, <3>1, <3>2
    <3> QED
      BY <1>1, <3>3 DEF SizeInv
  <2>6. CASE r.pc = "size" /\ r.delta = -1
    <3>1. v = Absent /\ before # Absent /\ r.tab = cur
      BY <1>9, <2>6 DEF GoesOn, before
    <3>2. Cardinality(Owing(-1)') = Cardinality(Owing(-1)) + 1 /\ Owing(1)' = Owing(1)
      BY <1>7, <2>3, <2>6, <3>1
    <3>3. tables'[cur].size + Cardinality(Owing(1)') = Cardinality(Present(tables'[cur])) + Cardinality(Owing(-1)')
      BY <1>2, <1>3, <1>4, <2>2, <3>1, <3>2
    <3> QED
      BY <1>1, <3>3 DEF SizeInv
  <2> QED
    BY <2>4, <2>5, <2>6 DEF GoesOn
<1> QED
  BY <1>8, <1>9

LEMMA EffectStep ==
  ASSUME MapInv, NEW t \in Threads, th[t].pc = "apply", NEW v \in Values \cup {Absent}, NEW r,
         Written(t, v), Recorded(t, v), GoesOn(t, r, v), resizing' = resizing
  PROVE  MapInv'
<1> DEFINE i == th[t].tab
<1>1. /\ MapTyped /\ TablesGood /\ cur \in 1 .. cur /\ cur \in Nat \ {0} /\ cur = Len(tables)
      /\ th \in [Threads -> Thread] /\ th[t] \in Thread /\ t # Absent
      /\ i \in 1 .. cur /\ th[t].key \in Keys /\ th[t].val \in Values
      /\ resizing \in BOOLEAN /\ HolderOk(t) /\ WriterOk(t) /\ HistoryOk(t) /\ FlagInv
  BY CallIs, CurIs
<1>2. /\ r \in Thread /\ r.pc \in {"idle", "size"} /\ r.tab \in {1, i} /\ r.found \in held[t]
      /\ r.pc = "size" => /\ r.tab = i /\ r.key = th[t].key /\ r.val = th[t].val /\ r.hint # "clear"
                          /\ r.delta # 0
      /\ r.pc = "idle" => r.hint = "grow"
  BY DEF GoesOn
<1>3. th' = [th EXCEPT ![t] = r]
  BY DEF GoesOn
<1>4. th' \in [Threads -> Thread] /\ th'[t] = r /\ \A u \in Threads \ {t} : th'[u] = th[u]
  BY <1>1, <1>2, <1>3
<1>5. /\ tables' \in Seq(Table) /\ Len(tables') = cur /\ cur' = cur
      /\ \A j \in 1 .. cur : Len(tables'[j].buckets) = Len(tables[j].buckets) /\ GoodTable(tables'[j])
      /\ \A j \in 1 .. cur : tables'[j].clear = tables[j].clear
  BY <1>1 DEF Written
<1>6. /\ abs' \in [Keys -> Values \cup {Absent}] /\ held' \in [Threads -> SUBSET (Values \cup {Absent})]
      /\ \A u \in Threads : held[u] \subseteq held'[u] /\ (th[u].pc # "idle" => abs'[th[u].key] \in held'[u])
  BY DEF Recorded
<1>7. MapTyped'
  <2>1. \A u \in Threads : th'[u].tab \in 1 .. cur
    BY <1>1, <1>2, <1>4, ThreadIs
  <2>2. \A u \in Threads : th'[u].pc # "idle" => th'[u].val \in Values
    BY <1>1, <1>2, <1>4, ThreadIs
  <2> QED
    BY <1>1, <1>4, <1>5, <1>6, <2>1, <2>2 DEF MapTyped
<1>8. \A j \in 1 .. cur : XMap!TableLen(j)' = XMap!TableLen(j)
  BY <1>5 DEF XMap!TableLen
<1>9. TablesGood'
  BY <1>1, <1>5, <1>8 DEF TablesGood
<1>10. FlagInv'
  BY <1>1, <1>2, <1>4 DEF FlagInv, Resizing
<1>11. NothingLost'
  <2>1. \A k \in Keys : abs[k] = Lookup(tables[cur], k)
    BY DEF MapInv, NothingLost
  <2>2. \A k \in Keys : abs'[k] = Lookup(tables'[cur], k)
    BY <1>1, <2>1 DEF Recorded, Written
  <2> QED
    BY <1>5, <2>2 DEF NothingLost
<1>12. SizeInv'
  BY SizeOwed
<1>13. ASSUME NEW u \in Threads, u # t
       PROVE  HolderOk(u)' /\ WriterOk(u)' /\ CopyOk(u)' /\ HistoryOk(u)' /\ FoundOk(u)'
  <2>1. /\ HolderOk(u) /\ WriterOk(u) /\ CopyOk(u) /\ HistoryOk(u) /\ FoundOk(u)
        /\ th[u].tab \in 1 .. cur /\ th[u].key \in Keys /\ th[u].copied \in Nat /\ th[u].slot \in Nat
        /\ XMap!Mine(u) \in 1 .. XMap!TableLen(th[u].tab)
    BY <1>1, ThreadIs, MineIs DEF MapInv
  <2>2. th'[u] = th[u]
    BY <1>4, <1>13
  <2>3. XMap!TableLen(th[u].tab)' = XMap!TableLen(th[u].tab) /\ XMap!Mine(u)' = XMap!Mine(u)
    <3>1. Len(tables'[th[u].tab].buckets) = Len(tables[th[u].tab].buckets)
      BY <1>5, <2>1
    <3> QED
      BY <2>2, <3>1 DEF XMap!TableLen, XMap!Mine
  <2>4. /\ th[t].pc \in Writing /\ tables[i].buckets[XMap!Mine(t)].holder = t
        /\ XMap!Mine(t) \in 1 .. XMap!TableLen(i)
    BY <1>1, MineIs DEF HolderOk, Writing
  (* A mutex that u holds is not that of the bucket of t. *)
  <2>5. \A j \in 1 .. cur : \A b \in 1 .. XMap!TableLen(j) :
           tables[j].buckets[b].holder = u
             => tables'[j].buckets[b] = tables[j].buckets[b] /\ ~(j = i /\ b = XMap!Mine(t))
    BY <1>13, <2>4 DEF Written, XMap!TableLen
  <2>6. th[u].pc = "copy" => th[u].copied < XMap!TableLen(cur) /\ th[u].copied + 1 \in 1 .. XMap!TableLen(cur)
    <3>1. XMap!TableLen(cur) \in Nat
      BY CurTable
    <3> QED
      BY <2>1, <3>1 DEF CopyOk
  <2>7. HolderOk(u)'
    <3>1. th[u].pc \in Writing => tables'[th[u].tab].buckets[XMap!Mine(u)].holder = u
      BY <2>1, <2>5 DEF HolderOk
    <3>2. th[u].pc = "copy" /\ th[u].slot # 0 => tables'[cur].buckets[th[u].copied + 1].holder = u
      BY <1>1, <2>1, <2>5, <2>6 DEF HolderOk
    <3> QED
      BY <1>5, <2>2, <2>3, <3>1, <3>2 DEF HolderOk
  <2>8. WriterOk(u)'
    <3>1. ASSUME th[u].pc \in {"checkTable", "apply"}, th[u].tab = cur, NEW w \in Threads
          PROVE  Open(w, XMap!Mine(u))'
      <4>1. CASE w = t
        BY <1>2, <1>4, <4>1 DEF Open
      <4>2. CASE w # t
        BY <1>4, <2>1, <2>3, <3>1, <4>2 DEF WriterOk, Open
      <4> QED
        BY <4>1, <4>2
    <3>2. XMap!Overtaken(u) => XMap!Overtaken(u)'
      <4> SUFFICES ASSUME NEW j \in th[u].tab + 1 .. cur, tables[j].clear PROVE XMap!Overtaken(u)'
        BY DEF XMap!Overtaken
      <4>1. j \in 1 .. cur /\ j \in th'[u].tab + 1 .. cur'
        BY <1>1, <1>5, <2>1, <2>2
      <4> QED
        BY <1>5, <4>1 DEF XMap!Overtaken
    <3> QED
      BY <1>5, <2>1, <2>2, <3>1, <3>2 DEF WriterOk
  <2>9. CopyOk(u)'
    <3>1. i = cur => Open(u, XMap!Mine(t))
      BY <1>1 DEF WriterOk
    <3>2. \A k \in Keys : Lookup(tables'[cur], k) = IF i = cur /\ k = th[t].key THEN v ELSE Lookup(tables[cur], k)
      BY <1>1 DEF Written
    <3>3. th[u].pc = "publish" /\ th[u].hint # "clear" => \A k \in Keys : Lookup(tables'[cur], k) = Lookup(tables[cur], k)
      BY <3>1, <3>2 DEF Open
    <3>4. ASSUME th[u].pc = "copy"
          PROVE  /\ XMap!TableLen(cur)' = XMap!TableLen(cur)
                 /\ th[u].slot < Len(tables'[cur].buckets[th[u].copied + 1].slots)
                 /\ \A k \in Keys : UpTo(tables'[cur], th[u].copied, th[u].slot, k)
                                      = UpTo(tables[cur], th[u].copied, th[u].slot, k)
      <4> DEFINE c == th[u].copied
                 j == th[u].slot
                 n == XMap!TableLen(cur)
      <4>1. /\ c < n /\ c + 1 \in 1 .. n /\ c \in Nat /\ j \in Nat /\ n \in Nat
            /\ n = Len(tables[cur].buckets) /\ n = Len(tables'[cur].buckets)
            /\ j < Len(tables[cur].buckets[c + 1].slots)
        <5>1. n = Len(tables[cur].buckets) /\ n = Len(tables'[cur].buckets) /\ n \in Nat
          BY <1>1, <1>5, CurTable DEF XMap!TableLen
        <5> QED
          BY <2>1, <2>6, <3>4, <5>1 DEF CopyOk
      <4>2. CASE i = cur /\ c + 1 = XMap!Mine(t)
        <5>1. j = 0
          BY <1>1, <1>13, <2>1, <2>4, <3>4, <4>2 DEF HolderOk
        <5>2. Len(tables'[cur].buckets[c + 1].slots) \in Nat \ {0}
          <6>1. tables'[cur] \in Table /\ GoodTable(tables'[cur])
            BY <1>1, <1>5, ElementOfSeq
          <6>2. tables'[cur].buckets[c + 1].slots \in Seq(Slot)
            BY <4>1, <6>1, ChainOf
          <6>3. Len(tables'[cur].buckets[c + 1].slots) # 0
            BY <4>1, <6>1 DEF GoodTable, GoodSlots
          <6> QED
            BY <6>2, <6>3, LenProperties
        <5>3. ASSUME NEW k \in Keys
              PROVE  UpTo(tables'[cur], c, j, k) = UpTo(tables[cur], c, j, k)
          <6>1. \A s : Part(s, 0, k) = Absent
            BY DEF Part
          <6>2. XMap!Bucket(n, k) <= c => Lookup(tables'[cur], k) = Lookup(tables[cur], k)
            <7>1. XMap!Mine(t) = XMap!Bucket(n, th[t].key)
              BY <4>2 DEF XMap!Mine
            <7> QED
              BY <3>2, <4>1, <4>2, <7>1
          <6> QED
            BY <4>1, <5>1, <6>1, <6>2 DEF UpTo
        <5>4. XMap!TableLen(cur)' = XMap!TableLen(cur)
          BY <1>5, <4>1 DEF XMap!TableLen
        <5>5. j < Len(tables'[cur].buckets[c + 1].slots)
          BY <5>1, <5>2
        <5> QED
          BY <5>3, <5>4, <5>5
      <4>3. CASE ~(i = cur /\ c + 1 = XMap!Mine(t))
        <5>1. tables'[cur].buckets[c + 1] = tables[cur].buckets[c + 1]
          BY <1>1, <4>1, <4>3 DEF Written
        <5>2. ASSUME NEW k \in Keys
              PROVE  UpTo(tables'[cur], c, j, k) = UpTo(tables[cur], c, j, k)
          <6>1. XMap!Bucket(n, k) <= c => Lookup(tables'[cur], k) = Lookup(tables[cur], k)
            <7>1. i = cur => XMap!Mine(t) = XMap!Bucket(n, th[t].key) /\ c < XMap!Mine(t)
              BY <3>1, <3>4 DEF XMap!Mine, Open
            <7>2. i = cur => XMap!Mine(t) \in Nat
              BY <2>4
            <7> QED
              BY <3>2, <4>1, <7>1, <7>2
          <6> QED
            BY <4>1, <5>1, <6>1 DEF UpTo
        <5> QED
          BY <1>5, <4>1, <5>1, <5>2 DEF XMap!TableLen
      <4> QED
        BY <4>2, <4>3
    <3> QED
      BY <1>5, <2>1, <2>2, <3>3, <3>4 DEF CopyOk
  <2>10. HistoryOk(u)'
    <3>1. Lookup(tables'[th[u].tab], th[u].key)
            = IF th[u].tab = i /\ th[u].key = th[t].key THEN v ELSE Lookup(tables[th[u].tab], th[u].key)
      BY <2>1 DEF Written
    <3> QED
      BY <1>6, <2>1, <2>2, <3>1 DEF HistoryOk, Recorded
  <2>11. FoundOk(u)'
    BY <1>6, <2>1, <2>2 DEF FoundOk
  <2> QED
    BY <2>7, <2>8, <2>9, <2>10, <2>11
<1>14. HolderOk(t)' /\ WriterOk(t)' /\ CopyOk(t)' /\ HistoryOk(t)' /\ FoundOk(t)'
  <2>1. HolderOk(t)' /\ WriterOk(t)' /\ CopyOk(t)'
    BY <1>2, <1>4 DEF HolderOk, WriterOk, CopyOk, Writing
  <2>2. HistoryOk(t)'
    <3>1. Lookup(tables'[i], th[t].key) = v /\ v \in held'[t] /\ abs'[th[t].key] \in held'[t]
      BY <1>1 DEF Written, Recorded
    <3> QED
      BY <1>2, <1>4, <3>1 DEF HistoryOk
  <2>3. FoundOk(t)'
    BY <1>2, <1>4, <1>6 DEF FoundOk, Writing, InResize, Resizing
  <2> QED
    BY <2>1, <2>2, <2>3
<1> QED
  BY <1>7, <1>9, <1>10, <1>11, <1>12, <1>13, <1>14 DEF MapInv

(* t applies the function of its call, in each of the ways it may end.      *)
LEMMA InvApply ==
  ASSUME MapInv, NEW t \in Threads, XMap!Apply(t)
  PROVE  MapInv'
<1> DEFINE me == th[t]
           slots == XMap!Slots(t)
           found == XMap!Found(slots, me.key)
           place == XMap!First(XMap!Places(slots, me.key))
           e == <<me.key, me.val>>
<1>1. /\ MapTyped /\ TablesGood /\ cur \in Nat \ {0} /\ me.pc = "apply" /\ UNCHANGED <<cur, resizing>>
      /\ th \in [Threads -> Thread] /\ me \in Thread
      /\ me.tab \in 1 .. cur /\ me.key \in Keys /\ me.val \in Values /\ me.val # Absent
      /\ resizing \in BOOLEAN /\ HolderOk(t) /\ HistoryOk(t) /\ FoundOk(t)
  BY CallIs, CurIs, MapAssumption DEF XMap!Apply, XMap!Sane
<1>2. /\ slots \in Seq(Slot) /\ GoodSlots(slots, XMap!Mine(t), XMap!TableLen(me.tab))
      /\ XMap!Bucket(XMap!TableLen(me.tab), me.key) = XMap!Mine(t)
      /\ found = Lookup(tables[me.tab], me.key)
      /\ found \in Values \cup {Absent} /\ found \in held[t]
      /\ me.found = Absent /\ me.hint = "grow"
      /\ tables[me.tab].buckets[XMap!Mine(t)].holder = t
  <2>1. /\ slots \in Seq(Slot) /\ GoodSlots(slots, XMap!Mine(t), XMap!TableLen(me.tab))
        /\ XMap!Bucket(XMap!TableLen(me.tab), me.key) = XMap!Mine(t)
        /\ found = Lookup(tables[me.tab], me.key)
    BY <1>1, MineIs
  <2>2. found \in Values \cup {Absent}
    BY <2>1, FoundType
  <2>3. found \in held[t] /\ me.found = Absent /\ me.hint = "grow" /\ tables[me.tab].buckets[XMap!Mine(t)].holder = t
    BY <1>1, <2>1 DEF HistoryOk, FoundOk, HolderOk, Writing, InResize, Resizing
  <2> QED
    BY <2>1, <2>2, <2>3
<1>3. found # Absent => place \in 1 .. Len(slots) /\ slots[place] # XMap!Empty /\ slots[place][1] = me.key
  BY <1>2, FoundOr
<1>4. ASSUME tables' = XMap!SetHolder(t, Absent)
      PROVE  /\ Same /\ HoldersKept(t) /\ tables' \in Seq(Table) /\ Len(tables') = Len(tables)
             /\ tables'[cur].size = tables[cur].size
  BY <1>1, <1>2, <1>4, MutexMoves
<1>5. CASE /\ found # Absent
           /\ XMap!Effect(t, [slots EXCEPT ![place] = e], me.val)
           /\ XMap!Return(t, found)
  <2> DEFINE r == XMap!Idle(me.fn, me.key, found)
  <2>1. Writes(t, [slots EXCEPT ![place] = e], me.val)
    <3>1. /\ [slots EXCEPT ![place] = e] \in Seq(Slot)
          /\ GoodSlots([slots EXCEPT ![place] = e], XMap!Mine(t), XMap!TableLen(me.tab))
          /\ \A j \in Keys : XMap!Found([slots EXCEPT ![place] = e], j) = IF j = me.key THEN me.val ELSE XMap!Found(slots, j)
      <4>1. Fits(slots, XMap!Mine(t), XMap!TableLen(me.tab), place, me.key)
        BY <1>2, <1>3, <1>5 DEF Fits
      <4>2. slots \in Seq(Slot) /\ me.key \in Keys /\ me.val \in Values
        BY <1>1, <1>2
      <4>3. [slots EXCEPT ![place] = e] = Over(slots, place, <<me.key, me.val>>)
        BY DEF Over
      <4>4. Replaces(slots, Over(slots, place, <<me.key, me.val>>), XMap!Mine(t), XMap!TableLen(me.tab), me.key, me.val)
        <5> HIDE DEF slots, place, me
        <5> QED
          BY <4>1, <4>2, PutAt
      <4> QED
        BY <4>3, <4>4 DEF Replaces
    <3> QED
      BY <1>1, <1>5, <3>1 DEF Writes, XMap!Effect
  <2>2. Written(t, me.val) /\ Recorded(t, me.val)
    BY <1>1, <1>5, <2>1, TableWritten, HistoryRecorded
  <2>3. r \in Thread /\ r.tab = 1 /\ r.pc = "idle" /\ r.found = found /\ r.hint = "grow"
    BY <1>1, <1>2, IdleOf
  <2>4. th' = [th EXCEPT ![t] = r]
    BY <1>5 DEF XMap!Return
  <2>5. GoesOn(t, r, me.val)
    BY <1>1, <1>2, <1>5, <2>3, <2>4 DEF GoesOn
  <2> QED
    BY <1>1, <2>2, <2>5, EffectStep
<1>6. CASE /\ found # Absent
           /\ XMap!Effect(t, [slots EXCEPT ![place] = XMap!Empty], Absent)
           /\ th' = [th EXCEPT ![t].pc = "size", ![t].delta = -1, ![t].found = found,
                    ![t].hint = IF XMap!BucketEmpty([slots EXCEPT ![place] = XMap!Empty], place) THEN "shrink" ELSE "grow"]
  <2> DEFINE h == IF XMap!BucketEmpty([slots EXCEPT ![place] = XMap!Empty], place) THEN "shrink" ELSE "grow"
             r == [me EXCEPT !.pc = "size", !.delta = -1, !.found = found, !.hint = h]
  <2>1. Writes(t, [slots EXCEPT ![place] = XMap!Empty], Absent)
    <3>1. /\ [slots EXCEPT ![place] = XMap!Empty] \in Seq(Slot)
          /\ GoodSlots([slots EXCEPT ![place] = XMap!Empty], XMap!Mine(t), XMap!TableLen(me.tab))
          /\ \A j \in Keys : XMap!Found([slots EXCEPT ![place] = XMap!Empty], j) = IF j = me.key THEN Absent ELSE XMap!Found(slots, j)
      BY <1>1, <1>2, <1>3, <1>6, RemoveAt
    <3> QED
      BY <1>1, <1>6, <3>1 DEF Writes, XMap!Effect
  <2>2. Written(t, Absent) /\ Recorded(t, Absent)
    BY <1>1, <1>6, <2>1, TableWritten, HistoryRecorded
  <2>3. h \in {"grow", "shrink"}
    OBVIOUS
  <2>4. th' = [th EXCEPT ![t] = r]
    BY <1>6
  <2> HIDE DEF h
  <2>5. /\ r \in Thread /\ r.pc = "size" /\ r.tab = me.tab /\ r.key = me.key /\ r.val = me.val /\ r.hint = h
        /\ r.delta = -1 /\ r.found = found
    <3> HIDE DEF found
    <3> QED
      BY <1>1, <1>2, <2>3 DEF Thread, Points
  <2>6. GoesOn(t, r, Absent)
    <3>1. Lookup(tables[me.tab], me.key) # Absent /\ found \in held[t]
      BY <1>2, <1>6
    <3> HIDE DEF r, found
    <3> QED
      BY <2>3, <2>4, <2>5, <3>1 DEF GoesOn
  <2> QED
    BY <1>1, <2>2, <2>6, EffectStep
<1>7. CASE tables' = XMap!SetHolder(t, Absent) /\ XMap!Return(t, found) /\ UNCHANGED <<abs, held>>
  BY <1>1, <1>2, <1>4, <1>7, Returns
<1>8. CASE tables' = XMap!SetHolder(t, Absent) /\ XMap!Go(t, "resize") /\ UNCHANGED <<abs, held>>
  BY <1>1, <1>2, <1>4, <1>8, Moves DEF Points, Writing, InResize, Resizing
<1>9. CASE /\ found = Absent
           /\ XMap!Effect(t, XMap!Insert(slots, e), me.val)
           /\ th' = [th EXCEPT ![t].pc = "size", ![t].delta = 1]
  <2> DEFINE r == [me EXCEPT !.pc = "size", !.delta = 1]
  <2>1. Writes(t, XMap!Insert(slots, e), me.val)
    <3>1. /\ XMap!Insert(slots, e) \in Seq(Slot)
          /\ GoodSlots(XMap!Insert(slots, e), XMap!Mine(t), XMap!TableLen(me.tab))
          /\ \A j \in Keys : XMap!Found(XMap!Insert(slots, e), j) = IF j = me.key THEN me.val ELSE XMap!Found(slots, j)
      BY <1>1, <1>2, <1>9, InsertIs
    <3> QED
      BY <1>1, <1>9, <3>1 DEF Writes, XMap!Effect
  <2>2. Written(t, me.val) /\ Recorded(t, me.val)
    BY <1>1, <1>9, <2>1, TableWritten, HistoryRecorded
  <2>3. th' = [th EXCEPT ![t] = r]
    BY <1>9
  <2>4. /\ r \in Thread /\ r.pc = "size" /\ r.tab = me.tab /\ r.key = me.key /\ r.val = me.val /\ r.hint = "grow"
        /\ r.delta = 1 /\ r.found = Absent
    BY <1>1, <1>2 DEF Thread, Points
  <2>5. GoesOn(t, r, me.val)
    <3>1. Lookup(tables[me.tab], me.key) = Absent /\ Absent \in held[t]
      BY <1>2, <1>9
    <3> HIDE DEF r
    <3> QED
      BY <1>1, <2>3, <2>4, <3>1 DEF GoesOn
  <2> QED
    BY <1>1, <2>2, <2>5, EffectStep
<1> QED
  BY <1>5, <1>6, <1>7, <1>8, <1>9 DEF XMap!Apply

(* ---- The invariant holds, and says what callers see. --------------------*)
LEMMA InvInit == XMap!Init => MapInv
<1> SUFFICES ASSUME XMap!Init PROVE MapInv
  OBVIOUS
<1> DEFINE T == XMap!NewTable(MinLen, FALSE)
           key == CHOOSE k \in Keys : TRUE
           r == XMap!Idle("load", key, Absent)
<1>1. /\ tables = <<T>> /\ cur = 1 /\ resizing = FALSE /\ th = [t \in Threads |-> r]
      /\ abs = [k \in Keys |-> Absent] /\ held = [t \in Threads |-> {Absent}]
  BY DEF XMap!Init
<1>2. /\ T \in Table /\ T.size = 0 /\ GoodTable(T) /\ Len(T.buckets) = MinLen /\ MinLen \in Lens
      /\ \A k \in Keys : Lookup(T, k) = Absent
  BY MapAssumption, NewTableType, NewTableIs, LensAre DEF XMap!Sane
<1>3. key \in Keys
  BY MapAssumption DEF XMap!Sane
<1> HIDE DEF key, T
<1>4. r \in Thread /\ r.tab = 1 /\ r.pc = "idle" /\ r.found = Absent /\ r.fn = "load" /\ r.key = key /\ r.hint = "grow"
  BY <1>3, IdleIs
<1> HIDE DEF r
<1>5. tables \in Seq(Table) /\ Len(tables) = 1 /\ tables[1] = T
  BY <1>1, <1>2
<1>6. MapTyped
  <2>1. th \in [Threads -> Thread] /\ \A t \in Threads : th[t].tab = 1 /\ th[t].pc = "idle"
    BY <1>1, <1>4
  <2>2. abs \in [Keys -> Values \cup {Absent}] /\ held \in [Threads -> SUBSET (Values \cup {Absent})]
    BY <1>1
  <2>3. cur = Len(tables) /\ cur # 0 /\ 1 \in 1 .. cur
    BY <1>1, <1>5
  <2>4. resizing \in BOOLEAN
    BY <1>1
  <2> QED
    BY <1>5, <2>1, <2>2, <2>3, <2>4 DEF MapTyped
<1>7. TablesGood
  BY <1>1, <1>2, <1>5 DEF TablesGood, XMap!TableLen
<1>8. FlagInv /\ NothingLost
  BY <1>1, <1>2, <1>4, <1>5 DEF FlagInv, NothingLost, Resizing
<1>9. SizeInv
  <2>1. \A d : Owing(d) = {}
    BY <1>1, <1>4 DEF Owing
  <2>2. Present(T) = {}
    BY <1>2 DEF Present
  <2>3. tables[cur].size = 0 /\ Present(tables[cur]) = {} /\ Cardinality({}) = 0
    BY <1>1, <1>2, <1>5, <2>2, FS_EmptySet
  <2> QED
    BY <2>1, <2>3 DEF SizeInv
<1>10. \A t \in Threads : HolderOk(t) /\ WriterOk(t) /\ CopyOk(t) /\ HistoryOk(t) /\ FoundOk(t)
  BY <1>1, <1>4 DEF HolderOk, WriterOk, CopyOk, HistoryOk, FoundOk, Writing, InResize, Resizing
<1> QED
  BY <1>6, <1>7, <1>8, <1>9, <1>10 DEF MapInv

LEMMA InvUnchanged == MapInv /\ UNCHANGED XMap!vars => MapInv'
<1> SUFFICES ASSUME MapInv, UNCHANGED XMap!vars PROVE MapInv'
  OBVIOUS
<1>1. UNCHANGED <<tables, cur, resizing, th, abs, held>>
  BY DEF XMap!vars
<1>2. MapTyped' /\ TablesGood' /\ FlagInv' /\ NothingLost' /\ SizeInv'
  BY <1>1 DEF MapInv, MapTyped, TablesGood, XMap!TableLen, FlagInv, NothingLost, SizeInv, Owing
<1>3. ASSUME NEW t \in Threads PROVE HolderOk(t)' /\ WriterOk(t)' /\ CopyOk(t)' /\ HistoryOk(t)' /\ FoundOk(t)'
  <2>1. XMap!Mine(t)' = XMap!Mine(t) /\ XMap!TableLen(cur)' = XMap!TableLen(cur) /\ (XMap!Overtaken(t)' <=> XMap!Overtaken(t))
    BY <1>1 DEF XMap!Mine, XMap!TableLen, XMap!Overtaken
  <2>2. HolderOk(t) /\ WriterOk(t) /\ CopyOk(t) /\ HistoryOk(t) /\ FoundOk(t)
    BY DEF MapInv
  <2>3. HolderOk(t)' /\ CopyOk(t)' /\ HistoryOk(t)' /\ FoundOk(t)'
    BY <1>1, <2>1, <2>2 DEF HolderOk, CopyOk, HistoryOk, FoundOk
  <2>4. \A u \in Threads : Open(u, XMap!Mine(t)) => Open(u, XMap!Mine(t))'
    BY <1>1, <2>1 DEF Open
  <2>5. WriterOk(t)'
    BY <1>1, <2>1, <2>2, <2>4 DEF WriterOk
  <2> QED
    BY <2>3, <2>5
<1> QED
  BY <1>2, <1>3 DEF MapInv

LEMMA InvNext == MapInv /\ XMap!Next => MapInv'
<1> SUFFICES ASSUME MapInv, NEW t \in Threads,
                    (\E fn \in Functions, k \in Keys, v \in Values : XMap!Call(t, fn, k, v)) \/ XMap!Step(t)
             PROVE  MapInv'
  BY DEF XMap!Next
<1>1. CASE \E fn \in Functions, k \in Keys, v \in Values : XMap!Call(t, fn, k, v)
  BY <1>1, InvCall
<1>2. CASE XMap!Step(t)
  BY <1>2, InvAttempt, InvScan, InvLock, InvCheckResizing, InvCheckTable, InvApply, InvAddSize,
     InvResize, InvMake,
     InvCopyBucket, InvPublish, InvFinish, InvWaitForResize DEF XMap!Step
<1> QED
  BY <1>1, <1>2

LEMMA InvShows == MapInv => XMap!IsOneMap
<1> SUFFICES ASSUME MapInv PROVE XMap!IsOneMap
  OBVIOUS
<1>1. /\ MapTyped /\ cur \in 1 .. cur /\ tables[cur] \in Table
      /\ abs \in [Keys -> Values \cup {Absent}]
  BY CurIs, TableAt DEF MapInv, MapTyped
<1>2. \A k \in Keys : XMap!Content(cur)[k] = Lookup(tables[cur], k)
  BY DEF XMap!Content, Lookup, XMap!TableLen
<1>3. XMap!NoLostUpdate
  <2>1. XMap!Content(cur) = [k \in Keys |-> XMap!Content(cur)[k]] /\ abs = [k \in Keys |-> abs[k]]
    BY <1>1 DEF XMap!Content
  <2>2. \A k \in Keys : XMap!Content(cur)[k] = abs[k]
    BY <1>2 DEF MapInv, NothingLost
  <2> QED
    BY <2>1, <2>2 DEF XMap!NoLostUpdate
<1>4. XMap!FindsWhatWasThere
  BY DEF MapInv, FoundOk, XMap!FindsWhatWasThere
<1>5. XMap!SizeExact
  <2> SUFFICES ASSUME \A t \in Threads : th[t].pc = "size" => th[t].tab # cur
               PROVE  tables[cur].size = Cardinality({k \in Keys : XMap!Content(cur)[k] # Absent})
    BY CardinalityHere DEF XMap!SizeExact
  <2>1. Owing(1) = {} /\ Owing(-1) = {} /\ Cardinality({}) = 0
    BY FS_EmptySet DEF Owing
  <2>2. {k \in Keys : XMap!Content(cur)[k] # Absent} = Present(tables[cur])
    BY <1>2 DEF Present
  <2>3. tables[cur].size \in Int /\ Cardinality(Present(tables[cur])) \in Nat
    BY <1>1, PresentFinite DEF Table
  <2>4. tables[cur].size + Cardinality(Owing(1)) = Cardinality(Present(tables[cur])) + Cardinality(Owing(-1))
    BY DEF MapInv, SizeInv
  <2>5. tables[cur].size = Cardinality(Present(tables[cur]))
    BY <2>1, <2>3, <2>4
  <2> QED
    BY <2>2, <2>5
<1> QED
  BY <1>3, <1>4, <1>5 DEF XMap!IsOneMap

-----------------------------------------------------------------------------
(* In the suite the map is the subject of some behaviours.                  *)
MapIsSound == subject = "map" => MapInv

LEMMA SuiteStep == MapIsSound /\ [CoreNext]_allVars => MapIsSound'
<1> SUFFICES ASSUME MapIsSound, [CoreNext]_allVars, subject' = "map" PROVE MapInv'
  BY DEF MapIsSound
<1>1. subject = "map" /\ (XMap!Next \/ UNCHANGED mapVars)
  BY DEF CoreNext, allVars, mapVars, D, A, M, L, G, R, N, XMap!Next
<1>2. CASE XMap!Next
  BY <1>1, <1>2, InvNext DEF MapIsSound
<1>3. CASE UNCHANGED mapVars
  BY <1>1, <1>3, InvUnchanged DEF MapIsSound, mapVars, XMap!vars
<1> QED
  BY <1>1, <1>2, <1>3

(* No update that a writer has made is lost to a resize that ran beside it, *)
(* a call finds under its key what was there at some moment between the call*)
(* and its return, and the counter of the published table is exact as soon  *)
(* as nobody owes it an adjustment (doCompute, resize, copyBucket, addSize).*)
THEOREM OneMap == CoreSpec => []IsOneMap
<1>1. CoreInit => MapIsSound
  BY InvInit DEF CoreInit, MapIsSound
<1>2. MapIsSound /\ [CoreNext]_allVars => MapIsSound'
  BY SuiteStep
<1>3. MapIsSound => IsOneMap
  BY InvShows DEF MapIsSound, IsOneMap
<1> QED
  BY <1>1, <1>2, <1>3, PTL DEF CoreSpec
=============================================================================
