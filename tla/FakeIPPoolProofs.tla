--------------------------- MODULE FakeIPPoolProofs ---------------------------
(***************************************************************************)
(* For any hosts, ring and cache size: the pool is well typed, and when    *)
(* the flush and the reload wait for the call under way, the two caches    *)
(* mirror each other and the pool implements HostMap.                      *)
(*                                                                         *)
(* First the caches: two that are the inverse of each other stay so when   *)
(* both use, delete or add the same pair, whichever entry the addition     *)
(* drives out.                                                             *)
(***************************************************************************)
EXTENDS FakeIPPool, SequenceTheorems, TLAPS

-----------------------------------------------------------------------------
(* What is left when one element is taken out. *)
LEMMA RemoveAtIs ==
  ASSUME NEW S, NEW s \in Seq(S), NEW i \in 1 .. Len(s)
  PROVE  /\ RemoveAt(s, i) \in Seq(S)
         /\ Len(RemoveAt(s, i)) = Len(s) - 1
         /\ \A j \in 1 .. Len(s) - 1 :
              RemoveAt(s, i)[j] = IF j < i THEN s[j] ELSE s[j + 1]
<1> DEFINE a == SubSeq(s, 1, i - 1)
           b == SubSeq(s, i + 1, Len(s))
<1>0. Len(s) \in Nat /\ i \in Int /\ 1 <= i /\ i <= Len(s)
  OBVIOUS
<1>1. a \in Seq(S) /\ Len(a) = i - 1 /\ \A j \in 1 .. i - 1 : a[j] = s[j]
  OBVIOUS
<1>2. b \in Seq(S) /\ Len(b) = Len(s) - i /\ \A j \in 1 .. Len(s) - i : b[j] = s[i + j]
  OBVIOUS
<1>3. RemoveAt(s, i) = a \o b
  BY DEF RemoveAt
<1> HIDE DEF a, b
<1>4. /\ a \o b \in Seq(S)
      /\ Len(a \o b) = Len(a) + Len(b)
      /\ \A j \in 1 .. Len(a) + Len(b) :
           (a \o b)[j] = IF j <= Len(a) THEN a[j] ELSE b[j - Len(a)]
  BY <1>1, <1>2, ConcatProperties
<1>5. Len(a) + Len(b) = Len(s) - 1
  BY <1>0, <1>1, <1>2
<1>6. ASSUME NEW j \in 1 .. Len(s) - 1
      PROVE (a \o b)[j] = IF j < i THEN s[j] ELSE s[j + 1]
  <2>0. j \in Int
    OBVIOUS
  <2>1. CASE j < i
    BY <1>0, <1>1, <1>4, <1>5, <2>0, <2>1
  <2>2. CASE ~(j < i)
    <3>1. (a \o b)[j] = b[j - (i - 1)]
      BY <1>0, <1>1, <1>4, <1>5, <2>0, <2>2
    <3>2. b[j - (i - 1)] = s[i + (j - (i - 1))] /\ i + (j - (i - 1)) = j + 1
      BY <1>0, <1>2, <2>0, <2>2
    <3> QED
      BY <2>2, <3>1, <3>2
  <2> QED
    BY <2>1, <2>2
<1> QED
  BY <1>3, <1>4, <1>5, <1>6

(* Each entry has one place. *)
LEMMA PlaceOf ==
  ASSUME NEW c, NEW k \in Keys(c)
  PROVE  At(c, k) \in 1 .. Len(c) /\ c[At(c, k)].key = k
<1>1. \E i \in 1 .. Len(c) : c[i].key = k
  BY DEF Keys
<1> QED
  BY <1>1 DEF At

(* Key and value have the same place in both caches. *)
LEMMA MirrorPlace ==
  ASSUME NEW S, NEW T, NEW c \in Seq(S), NEW d \in Seq(T), Mirror(c, d),
         NEW k \in Keys(c)
  PROVE  /\ Value(c, k) \in Keys(d)
         /\ At(d, Value(c, k)) = At(c, k)
         /\ Value(d, Value(c, k)) = k
<1> DEFINE i == At(c, k)
           v == Value(c, k)
<1>1. i \in 1 .. Len(c) /\ c[i].key = k /\ c[i].value = v
  BY PlaceOf DEF Value
<1> HIDE DEF i, v
<1>2. i \in 1 .. Len(d) /\ d[i].key = v /\ d[i].value = k
  BY <1>1 DEF Mirror
<1>3. v \in Keys(d)
  BY <1>2 DEF Keys
<1>4. At(d, v) \in 1 .. Len(d) /\ d[At(d, v)].key = v
  BY <1>3, PlaceOf
<1>5. \A j \in 1 .. Len(d) : d[j].key = v => j = i
  BY <1>1, <1>2 DEF Mirror
<1>6. At(d, v) = i
  BY <1>4, <1>5
<1> QED
  BY <1>2, <1>3, <1>6 DEF Value, i, v

(* Being the inverse is symmetric. *)
LEMMA MirrorSymmetric ==
  ASSUME NEW c, NEW d, Mirror(c, d)
  PROVE  Mirror(d, c)
BY DEF Mirror

-----------------------------------------------------------------------------
(* Taking out the entry at one place, in both caches. *)
LEMMA MirrorRemove ==
  ASSUME NEW S, NEW T, NEW c \in Seq(S), NEW d \in Seq(T), Mirror(c, d),
         NEW i \in 1 .. Len(c)
  PROVE  /\ Mirror(RemoveAt(c, i), RemoveAt(d, i))
         /\ c[i].key \notin Keys(RemoveAt(c, i))
         /\ d[i].key \notin Keys(RemoveAt(d, i))
<1> DEFINE r == RemoveAt(c, i)
           q == RemoveAt(d, i)
<1>0. Len(c) \in Nat /\ i \in Int /\ Len(d) = Len(c) /\ i \in 1 .. Len(d)
  BY DEF Mirror
<1>1. /\ r \in Seq(S) /\ Len(r) = Len(c) - 1
      /\ \A j \in 1 .. Len(c) - 1 : r[j] = IF j < i THEN c[j] ELSE c[j + 1]
  BY RemoveAtIs
<1>2. /\ q \in Seq(T) /\ Len(q) = Len(c) - 1
      /\ \A j \in 1 .. Len(c) - 1 : q[j] = IF j < i THEN d[j] ELSE d[j + 1]
  BY <1>0, RemoveAtIs
<1> HIDE DEF r, q
<1> DEFINE old(j) == IF j < i THEN j ELSE j + 1
<1>3. \A j \in 1 .. Len(c) - 1 :
        /\ old(j) \in 1 .. Len(c) /\ old(j) # i
        /\ r[j] = c[old(j)] /\ q[j] = d[old(j)]
  BY <1>0, <1>1, <1>2
<1>4. \A j, l \in 1 .. Len(c) - 1 : j # l => old(j) # old(l)
  BY <1>0
<1> HIDE DEF old
<1>5. Mirror(r, q)
  <2>1. \A j \in 1 .. Len(c) - 1 : r[j].key = q[j].value /\ r[j].value = q[j].key
    BY <1>3 DEF Mirror
  <2>2. ASSUME NEW j \in 1 .. Len(c) - 1, NEW l \in 1 .. Len(c) - 1, j # l
        PROVE r[j].key # r[l].key /\ r[j].value # r[l].value
    <3>1. old(j) \in 1 .. Len(c) /\ old(l) \in 1 .. Len(c) /\ old(j) # old(l)
      BY <1>3, <1>4, <2>2
    <3>2. r[j] = c[old(j)] /\ r[l] = c[old(l)]
      BY <1>3
    <3> QED
      BY <3>1, <3>2 DEF Mirror
  <2>3. Len(r) = Len(c) - 1 /\ Len(q) = Len(c) - 1
    BY <1>1, <1>2
  <2> QED
    BY <2>1, <2>2, <2>3 DEF Mirror
<1>6. ASSUME NEW j \in 1 .. Len(c) - 1
      PROVE  r[j].key # c[i].key /\ q[j].key # d[i].key
  <2>1. old(j) \in 1 .. Len(c) /\ old(j) # i /\ r[j] = c[old(j)] /\ q[j] = d[old(j)]
    BY <1>3
  <2>2. c[old(j)].key # c[i].key /\ c[old(j)].value # c[i].value
    BY <2>1 DEF Mirror
  <2>3. d[old(j)].key = c[old(j)].value /\ d[i].key = c[i].value
    BY <2>1 DEF Mirror
  <2> QED
    BY <2>1, <2>2, <2>3
<1>7. c[i].key \notin Keys(r) /\ d[i].key \notin Keys(q)
  BY <1>1, <1>2, <1>6 DEF Keys
<1> QED
  BY <1>5, <1>7 DEF r, q

(* Adding a new entry to both. *)
LEMMA MirrorAppend ==
  ASSUME NEW S, NEW T, NEW c \in Seq(S), NEW d \in Seq(T), Mirror(c, d),
         NEW e \in S, NEW f \in T, e.key = f.value, e.value = f.key,
         e.key \notin Keys(c), f.key \notin Keys(d)
  PROVE  Mirror(Append(c, e), Append(d, f))
<1> DEFINE r == Append(c, e)
           q == Append(d, f)
           n == Len(c)
<1>0. n \in Nat /\ Len(d) = n
  BY DEF Mirror
<1>1. Len(r) = n + 1 /\ (\A j \in 1 .. n : r[j] = c[j]) /\ r[n + 1] = e
  OBVIOUS
<1>2. Len(q) = n + 1 /\ (\A j \in 1 .. n : q[j] = d[j]) /\ q[n + 1] = f
  BY <1>0
<1>3. \A j \in 1 .. n : /\ c[j].key # e.key /\ d[j].key # f.key
                         /\ c[j].key = d[j].value /\ c[j].value = d[j].key
  BY <1>0 DEF Keys, Mirror
<1>4. \A i, j \in 1 .. n : i # j => c[i].key # c[j].key /\ c[i].value # c[j].value
  BY DEF Mirror
<1> HIDE DEF r, q, n
<1>6. \A j \in 1 .. n + 1 : j \in 1 .. n \/ j = n + 1
  BY <1>0
<1>7. \A j \in 1 .. n + 1 : r[j].key = q[j].value /\ r[j].value = q[j].key
  BY <1>1, <1>2, <1>3, <1>6
<1>8. ASSUME NEW i \in 1 .. n + 1, NEW j \in 1 .. n + 1, i # j
      PROVE r[i].key # r[j].key /\ r[i].value # r[j].value
  <2>1. CASE i \in 1 .. n /\ j \in 1 .. n
    BY <1>1, <1>4, <1>8, <2>1
  <2>2. CASE i = n + 1 /\ j \in 1 .. n
    BY <1>1, <1>3, <2>2
  <2>3. CASE j = n + 1 /\ i \in 1 .. n
    BY <1>1, <1>3, <2>3
  <2> QED
    BY <1>6, <1>8, <2>1, <2>2, <2>3
<1>9. Mirror(r, q)
  BY <1>1, <1>2, <1>7, <1>8 DEF Mirror
<1> QED
  BY <1>9 DEF r, q

(* Driving out the oldest entry of both. *)
LEMMA MirrorTail ==
  ASSUME NEW S, NEW T, NEW c \in Seq(S), NEW d \in Seq(T), Mirror(c, d), c # <<>>
  PROVE  /\ Mirror(Tail(c), Tail(d))
         /\ Keys(Tail(c)) \subseteq Keys(c)
         /\ Keys(Tail(d)) \subseteq Keys(d)
<1>0. Len(d) = Len(c) /\ d # <<>> /\ Len(c) \in Nat
  BY DEF Mirror
<1>1. Len(Tail(c)) = Len(c) - 1 /\ \A j \in 1 .. Len(c) - 1 : Tail(c)[j] = c[j + 1]
  OBVIOUS
<1>2. Len(Tail(d)) = Len(c) - 1 /\ \A j \in 1 .. Len(c) - 1 : Tail(d)[j] = d[j + 1]
  BY <1>0
<1>3. \A j \in 1 .. Len(c) - 1 : j + 1 \in 1 .. Len(c)
  BY <1>0
<1>4. \A i, j \in 1 .. Len(c) - 1 : i # j => i + 1 # j + 1
  BY <1>0
<1> QED
  BY <1>0, <1>1, <1>2, <1>3, <1>4 DEF Mirror, Keys

(* Deleting one pair from both. *)
LEMMA MirrorDelete ==
  ASSUME NEW S, NEW T, NEW c \in Seq(S), NEW d \in Seq(T), Mirror(c, d),
         NEW k \in Keys(c), NEW v, v = Value(c, k)
  PROVE  /\ Mirror(Delete(c, k), Delete(d, v))
         /\ k \notin Keys(Delete(c, k))
         /\ v \notin Keys(Delete(d, v))
<1> DEFINE i == At(c, k)
<1>1. i \in 1 .. Len(c) /\ c[i].key = k /\ c[i].value = v
  BY PlaceOf DEF Value
<1>2. v \in Keys(d) /\ At(d, v) = i
  BY MirrorPlace
<1>3. Delete(c, k) = RemoveAt(c, i) /\ Delete(d, v) = RemoveAt(d, i)
  BY <1>2 DEF Delete
<1> HIDE DEF i
<1>4. d[i].key = v
  BY <1>1 DEF Mirror
<1>5. /\ Mirror(RemoveAt(c, i), RemoveAt(d, i))
      /\ c[i].key \notin Keys(RemoveAt(c, i))
      /\ d[i].key \notin Keys(RemoveAt(d, i))
  BY <1>1, MirrorRemove
<1> QED
  BY <1>1, <1>3, <1>4, <1>5

(* Using one pair in both. *)
LEMMA MirrorGet ==
  ASSUME NEW S, NEW T, NEW c \in Seq(S), NEW d \in Seq(T), Mirror(c, d),
         NEW k \in Keys(c), NEW v, v = Value(c, k)
  PROVE  Mirror(Get(c, k), Get(d, v))
<1> DEFINE i == At(c, k)
<1>1. i \in 1 .. Len(c) /\ c[i].key = k /\ c[i].value = v
  BY PlaceOf DEF Value
<1>2. v \in Keys(d) /\ At(d, v) = i
  BY MirrorPlace
<1>3. Get(c, k) = Append(RemoveAt(c, i), c[i]) /\ Get(d, v) = Append(RemoveAt(d, i), d[i])
  BY <1>2 DEF Get, Delete
<1> HIDE DEF i
<1>4. i \in 1 .. Len(d) /\ d[i].key = v /\ d[i].value = k
  BY <1>1 DEF Mirror
<1>5. /\ Mirror(RemoveAt(c, i), RemoveAt(d, i))
      /\ c[i].key \notin Keys(RemoveAt(c, i))
      /\ d[i].key \notin Keys(RemoveAt(d, i))
  BY <1>1, MirrorRemove
<1>6. RemoveAt(c, i) \in Seq(S) /\ RemoveAt(d, i) \in Seq(T)
  BY <1>1, <1>4, RemoveAtIs
<1>7. c[i] \in S /\ d[i] \in T
  BY <1>1, <1>4
<1>8. Mirror(Append(RemoveAt(c, i), c[i]), Append(RemoveAt(d, i), d[i]))
  BY <1>1, <1>4, <1>5, <1>6, <1>7, MirrorAppend
<1> QED
  BY <1>3, <1>8

(* Adding one new pair to both, at the price of the oldest one. *)
LEMMA MirrorSet ==
  ASSUME NEW S, NEW T, NEW c \in Seq(S), NEW d \in Seq(T), Mirror(c, d),
         NEW k, NEW v, k \notin Keys(c), v \notin Keys(d),
         Entry(k, v) \in S, Entry(v, k) \in T, NEW n \in Nat \ {0}
  PROVE  Mirror(Set(c, k, v, n), Set(d, v, k, n))
<1> DEFINE e == Entry(k, v)
           f == Entry(v, k)
<1>0. Len(d) = Len(c) /\ Len(c) \in Nat
  BY DEF Mirror
<1>1. e.key = k /\ e.value = v /\ f.key = v /\ f.value = k /\ e \in S /\ f \in T
  BY DEF Entry
<1> HIDE DEF e, f
<1>2. CASE Len(c) >= n
  <2> DEFINE t == Tail(c)
             u == Tail(d)
  <2>1. c # <<>> /\ d # <<>>
    BY <1>0, <1>2
  <2>2. t \in Seq(S) /\ u \in Seq(T)
    BY <2>1
  <2>3. Mirror(t, u) /\ k \notin Keys(t) /\ v \notin Keys(u)
    BY <2>1, MirrorTail
  <2>4. Set(c, k, v, n) = Append(t, e) /\ Set(d, v, k, n) = Append(u, f)
    BY <1>0, <1>2 DEF Set, e, f
  <2> HIDE DEF t, u
  <2>5. Mirror(Append(t, e), Append(u, f))
    BY <1>1, <2>2, <2>3, MirrorAppend
  <2> QED
    BY <2>4, <2>5
<1>3. CASE ~(Len(c) >= n)
  <2>1. Set(c, k, v, n) = Append(c, e) /\ Set(d, v, k, n) = Append(d, f)
    BY <1>0, <1>3 DEF Set, e, f
  <2>2. Mirror(Append(c, e), Append(d, f))
    BY <1>1, MirrorAppend
  <2> QED
    BY <2>1, <2>2
<1> QED
  BY <1>2, <1>3

-----------------------------------------------------------------------------
(* What the operations do to the entries and to the size of one cache. *)
Entries(c) == {c[i] : i \in 1 .. Len(c)}

(* Taking out one element loses no other. *)
LEMMA RemoveEntries ==
  ASSUME NEW S, NEW c \in Seq(S), NEW i \in 1 .. Len(c)
  PROVE  /\ RemoveAt(c, i) \in Seq(S) /\ Len(RemoveAt(c, i)) = Len(c) - 1
         /\ Entries(RemoveAt(c, i)) \subseteq Entries(c)
         /\ Entries(c) \subseteq Entries(RemoveAt(c, i)) \cup {c[i]}
<1> DEFINE r == RemoveAt(c, i)
<1>0. Len(c) \in Nat /\ i \in Int /\ 1 <= i /\ i <= Len(c)
  OBVIOUS
<1>1. /\ r \in Seq(S) /\ Len(r) = Len(c) - 1
      /\ \A j \in 1 .. Len(c) - 1 : r[j] = IF j < i THEN c[j] ELSE c[j + 1]
  BY RemoveAtIs
<1> HIDE DEF r
<1>2. \A j \in 1 .. Len(c) - 1 : \E l \in 1 .. Len(c) : r[j] = c[l]
  BY <1>0, <1>1
<1>3. ASSUME NEW l \in 1 .. Len(c), l # i
      PROVE  \E j \in 1 .. Len(c) - 1 : r[j] = c[l]
  <2>1. CASE l < i
    BY <1>0, <1>1, <2>1
  <2>2. CASE l > i
    <3>1. l - 1 \in 1 .. Len(c) - 1 /\ ~(l - 1 < i) /\ (l - 1) + 1 = l
      BY <1>0, <2>2
    <3> QED
      BY <1>1, <3>1
  <2> QED
    BY <1>0, <1>3, <2>1, <2>2
<1>4. Entries(r) \subseteq Entries(c)
  BY <1>1, <1>2 DEF Entries
<1>5. ASSUME NEW l \in 1 .. Len(c)
      PROVE  c[l] \in Entries(r) \cup {c[i]}
  <2>1. CASE l = i
    BY <2>1
  <2>2. CASE l # i
    <3>1. PICK j \in 1 .. Len(r) : r[j] = c[l]
      BY <1>1, <1>3, <2>2
    <3> QED
      BY <3>1 DEF Entries
  <2> QED
    BY <2>1, <2>2
<1>6. Entries(c) \subseteq Entries(r) \cup {c[i]}
  BY <1>5 DEF Entries
<1> QED
  BY <1>1, <1>4, <1>6 DEF r

(* Adding one element. *)
LEMMA AppendEntries ==
  ASSUME NEW S, NEW c \in Seq(S), NEW e \in S
  PROVE  /\ Append(c, e) \in Seq(S) /\ Len(Append(c, e)) = Len(c) + 1
         /\ Entries(Append(c, e)) = Entries(c) \cup {e}
<1> DEFINE r == Append(c, e)
           n == Len(c)
<1>1. n \in Nat /\ n = Len(c) /\ r \in Seq(S) /\ Len(r) = n + 1 /\ r[n + 1] = e /\ \A j \in 1 .. n : r[j] = c[j]
  OBVIOUS
<1> HIDE DEF r
<1>2. \A j \in 1 .. n + 1 : j \in 1 .. n \/ j = n + 1
  BY <1>1
<1>3. 1 .. n \subseteq 1 .. n + 1 /\ n + 1 \in 1 .. n + 1
  BY <1>1
<1> HIDE DEF n
<1>4. Entries(r) = {r[j] : j \in 1 .. n + 1} /\ Entries(c) = {c[j] : j \in 1 .. n}
  BY <1>1 DEF Entries, n
<1>5. Entries(r) = Entries(c) \cup {e}
  BY <1>1, <1>2, <1>3, <1>4
<1> QED
  BY <1>1, <1>5 DEF r, n

(* Deleting adds nothing. *)
LEMMA DeleteEntries ==
  ASSUME NEW S, NEW c \in Seq(S), NEW k
  PROVE  /\ Delete(c, k) \in Seq(S) /\ Len(Delete(c, k)) <= Len(c)
         /\ Entries(Delete(c, k)) \subseteq Entries(c)
<1>1. CASE k \in Keys(c)
  BY <1>1, PlaceOf, RemoveEntries DEF Delete
<1>2. CASE k \notin Keys(c)
  BY <1>2 DEF Delete
<1> QED
  BY <1>1, <1>2

(* Using an entry loses nothing. *)
LEMMA GetEntries ==
  ASSUME NEW S, NEW c \in Seq(S), NEW k
  PROVE  /\ Get(c, k) \in Seq(S) /\ Len(Get(c, k)) = Len(c)
         /\ Entries(Get(c, k)) = Entries(c)
<1>1. CASE k \in Keys(c)
  <2> DEFINE i == At(c, k)
  <2>1. i \in 1 .. Len(c)
    BY <1>1, PlaceOf
  <2>2. Get(c, k) = Append(RemoveAt(c, i), c[i])
    BY <1>1 DEF Get, Delete
  <2> HIDE DEF i
  <2>3. c[i] \in S /\ c[i] \in Entries(c) /\ Len(c) \in Nat
    BY <2>1 DEF Entries
  <2>4. /\ RemoveAt(c, i) \in Seq(S) /\ Len(RemoveAt(c, i)) = Len(c) - 1
        /\ Entries(RemoveAt(c, i)) \subseteq Entries(c)
        /\ Entries(c) \subseteq Entries(RemoveAt(c, i)) \cup {c[i]}
    BY <2>1, RemoveEntries
  <2>5. /\ Append(RemoveAt(c, i), c[i]) \in Seq(S)
        /\ Len(Append(RemoveAt(c, i), c[i])) = Len(RemoveAt(c, i)) + 1
        /\ Entries(Append(RemoveAt(c, i), c[i])) = Entries(RemoveAt(c, i)) \cup {c[i]}
    BY <2>3, <2>4, AppendEntries
  <2> QED
    BY <2>2, <2>3, <2>4, <2>5
<1>2. CASE k \notin Keys(c)
  BY <1>2 DEF Get
<1> QED
  BY <1>1, <1>2

(* A cache never outgrows its size. *)
LEMMA SetEntries ==
  ASSUME NEW S, NEW c \in Seq(S), NEW k, NEW v, Entry(k, v) \in S,
         NEW n \in Nat \ {0}, Len(c) <= n
  PROVE  /\ Set(c, k, v, n) \in Seq(S) /\ Len(Set(c, k, v, n)) <= n
         /\ Entries(Set(c, k, v, n)) \subseteq Entries(c) \cup {Entry(k, v)}
         /\ Entry(k, v) \in Entries(Set(c, k, v, n))
<1>0. Len(c) \in Nat
  OBVIOUS
<1>1. CASE k \in Keys(c)
  <2>1. /\ Delete(c, k) \in Seq(S) /\ Len(Delete(c, k)) = Len(c) - 1
        /\ Entries(Delete(c, k)) \subseteq Entries(c)
    BY <1>1, PlaceOf, RemoveEntries DEF Delete
  <2>2. Set(c, k, v, n) = Append(Delete(c, k), Entry(k, v))
    BY <1>1 DEF Set
  <2> QED
    BY <1>0, <2>1, <2>2, AppendEntries
<1>2. CASE k \notin Keys(c) /\ Len(c) >= n
  <2>1. c # <<>> /\ Tail(c) \in Seq(S) /\ Len(Tail(c)) = Len(c) - 1
    BY <1>0, <1>2
  <2>2. \A j \in 1 .. Len(c) - 1 : Tail(c)[j] = c[j + 1] /\ j + 1 \in 1 .. Len(c)
    BY <1>0, <2>1
  <2>3. Entries(Tail(c)) \subseteq Entries(c)
    BY <2>1, <2>2 DEF Entries
  <2>4. Set(c, k, v, n) = Append(Tail(c), Entry(k, v))
    BY <1>2 DEF Set
  <2> DEFINE t == Tail(c)
  <2> HIDE DEF t
  <2>5. t \in Seq(S) /\ Len(t) = Len(c) - 1 /\ Entries(t) \subseteq Entries(c)
        /\ Set(c, k, v, n) = Append(t, Entry(k, v))
    BY <2>1, <2>3, <2>4 DEF t
  <2>6. /\ Append(t, Entry(k, v)) \in Seq(S) /\ Len(Append(t, Entry(k, v))) = Len(t) + 1
        /\ Entries(Append(t, Entry(k, v))) = Entries(t) \cup {Entry(k, v)}
    BY <2>5, AppendEntries
  <2> QED
    BY <1>0, <2>5, <2>6
<1>3. CASE k \notin Keys(c) /\ ~(Len(c) >= n)
  BY <1>0, <1>3, AppendEntries DEF Set
<1> QED
  BY <1>1, <1>2, <1>3

(* An entry that was just used is deleted as if it had not been used. *)
LEMMA DeleteAfterGet ==
  ASSUME NEW S, NEW c \in Seq(S), NEW k \in Keys(c), k \notin Keys(Delete(c, k))
  PROVE  Delete(Get(c, k), k) = Delete(c, k)
<1> DEFINE r == Delete(c, k)
           e == c[At(c, k)]
           g == Append(r, e)
           n == Len(r)
<1>1. At(c, k) \in 1 .. Len(c) /\ e.key = k /\ e \in S
  BY PlaceOf
<1>2. r \in Seq(S)
  BY <1>1, RemoveAtIs DEF Delete
<1>3. Get(c, k) = g
  BY DEF Get
<1> HIDE DEF r, e
<1>4. n \in Nat /\ Len(g) = n + 1 /\ g[n + 1] = e /\ \A j \in 1 .. n : g[j] = r[j]
  BY <1>1, <1>2
<1>5. \A j \in 1 .. n : r[j].key # k
  BY DEF r, Keys
<1>6. k \in Keys(g)
  BY <1>1, <1>4 DEF Keys
<1>7. At(g, k) \in 1 .. n + 1 /\ g[At(g, k)].key = k
  BY <1>4, <1>6, PlaceOf
<1>8. At(g, k) = n + 1
  BY <1>4, <1>5, <1>7
<1>9. RemoveAt(g, n + 1) = r
  <2>1. g \in Seq(S)
    BY <1>1, <1>2
  <2>2. /\ RemoveAt(g, n + 1) \in Seq(S) /\ Len(RemoveAt(g, n + 1)) = n
        /\ \A j \in 1 .. n : RemoveAt(g, n + 1)[j] = g[j]
    <3>1. n + 1 \in 1 .. Len(g) /\ Len(g) - 1 = n /\ \A j \in 1 .. n : j < n + 1
      BY <1>4
    <3> HIDE DEF g, n
    <3> QED
      BY <2>1, <3>1, RemoveAtIs
  <2> HIDE DEF g
  <2> QED
    BY <1>2, <1>4, <2>2, SeqEqual
<1> QED
  BY <1>3, <1>6, <1>8, <1>9 DEF Delete, r

-----------------------------------------------------------------------------
Assigning == {"next", "delete", "deleteHost", "deleteIP", "putIP", "putHost"}

(* What the later steps of a call rely on, flushed or not. *)
OpOK ==
    /\ op.at # "none" => op.host \in Hosts
    /\ op.at = "putHost" => op.ip \in Addresses

Typed == TypeOK /\ OpOK

(* One at a time: a call, a flush or a reload. *)
Turns ==
    /\ op.at # "none" => Calm
    /\ op.at = "none" => op = NoOp
    /\ flush # "none" => clone = NoClone
    /\ clone.at = "none" => clone = NoClone

Flushing ==
    /\ flush \in {"hosts", "fields"} => cacheIP = <<>>
    /\ flush = "fields" => cacheHost = <<>>

Cloning ==
    /\ clone.at # "none" => clone.ips = cacheIP
    /\ clone.at = "switch" => clone.hosts = cacheHost

(* What the call still has to do to the caches makes them mirror each       *)
(* other, and the entry it is about to add is new to both.                  *)
Completes ==
    /\ op.at = "none" /\ flush = "none" => Mirror(cacheIP, cacheHost)
    /\ op.at \in {"next", "delete", "putIP"} => Mirror(cacheIP, cacheHost)
    /\ op.at = "hit" => Mirror(cacheIP, Get(cacheHost, op.ip))
    /\ op.at = "back" => Mirror(Get(cacheIP, op.host), cacheHost)
    /\ op.at = "deleteHost" => Mirror(Delete(cacheIP, op.old), Delete(cacheHost, offset))
    /\ op.at = "deleteIP" => Mirror(cacheIP, Delete(cacheHost, offset))
    /\ op.at = "putHost" => Mirror(Set(cacheIP, op.host, op.ip, Size), cacheHost)

Fresh ==
    /\ op.at \in Assigning => op.host \notin Keys(cacheIP)
    /\ op.at \in {"deleteHost", "deleteIP"} =>
         op.ip = offset /\ offset \notin Keys(Delete(cacheHost, offset))
    /\ op.at = "putIP" => offset \notin Keys(cacheHost)

Known == op.at \in {"hit", "back"} => <<op.host, op.ip>> \in Pairs

Lockstep == Turns /\ Flushing /\ Cloning /\ Completes /\ Fresh /\ Known
Inv == Typed /\ Lockstep

-----------------------------------------------------------------------------
(* Typing *)

(* The entries a Lookup adds. *)
LEMMA NewEntry ==
  ASSUME NEW h \in Hosts, NEW a \in Addresses
  PROVE  Entry(h, a) \in IPEntry /\ Entry(a, h) \in HostEntry
BY DEF Entry, IPEntry, HostEntry

(* What is found in a cache. *)
LEMMA ValueTypes ==
  /\ \A c \in IPCache : \A k \in Keys(c) : k \in Hosts /\ Value(c, k) \in Addresses
  /\ \A c \in HostCache : \A k \in Keys(c) : k \in Addresses /\ Value(c, k) \in Hosts
<1>1. ASSUME NEW c \in IPCache, NEW k \in Keys(c)
      PROVE  k \in Hosts /\ Value(c, k) \in Addresses
  <2>1. At(c, k) \in 1 .. Len(c) /\ c[At(c, k)].key = k
    BY PlaceOf
  <2>2. c[At(c, k)] \in IPEntry
    BY <2>1 DEF IPCache
  <2> QED
    BY <2>1, <2>2 DEF Value, IPEntry
<1>2. ASSUME NEW c \in HostCache, NEW k \in Keys(c)
      PROVE  k \in Addresses /\ Value(c, k) \in Hosts
  <2>1. At(c, k) \in 1 .. Len(c) /\ c[At(c, k)].key = k
    BY PlaceOf
  <2>2. c[At(c, k)] \in HostEntry
    BY <2>1 DEF HostCache
  <2> QED
    BY <2>1, <2>2 DEF Value, HostEntry
<1> QED
  BY <1>1, <1>2

(* The operations keep the type and the size of both caches. *)
LEMMA CacheTypes ==
  /\ \A c \in IPCache, k \in Hosts :
       Len(c) <= Size =>
         /\ Get(c, k) \in IPCache /\ Len(Get(c, k)) <= Size
         /\ \A a \in Addresses : Set(c, k, a, Size) \in IPCache /\ Len(Set(c, k, a, Size)) <= Size
  /\ \A c \in IPCache : \A k :
       Len(c) <= Size => Delete(c, k) \in IPCache /\ Len(Delete(c, k)) <= Size
  /\ \A d \in HostCache : \A a :
       Len(d) <= Size =>
         /\ Get(d, a) \in HostCache /\ Len(Get(d, a)) <= Size
         /\ Delete(d, a) \in HostCache /\ Len(Delete(d, a)) <= Size
  /\ \A d \in HostCache, a \in Addresses, h \in Hosts :
       Len(d) <= Size => Set(d, a, h, Size) \in HostCache /\ Len(Set(d, a, h, Size)) <= Size
<1>0. Size \in Nat \ {0}
  BY SizeAssumption
<1>1. ASSUME NEW c \in IPCache, NEW k, Len(c) <= Size
      PROVE  /\ Get(c, k) \in IPCache /\ Len(Get(c, k)) <= Size
             /\ Delete(c, k) \in IPCache /\ Len(Delete(c, k)) <= Size
  <2>1. c \in Seq(IPEntry) /\ Len(c) \in Nat
    BY DEF IPCache
  <2>2. Get(c, k) \in Seq(IPEntry) /\ Len(Get(c, k)) = Len(c)
    BY <2>1, GetEntries
  <2>3. Delete(c, k) \in Seq(IPEntry) /\ Len(Delete(c, k)) <= Len(c)
    BY <2>1, DeleteEntries
  <2>4. Len(Delete(c, k)) \in Nat
    BY <2>3
  <2> QED
    BY <1>0, <1>1, <2>1, <2>2, <2>3, <2>4 DEF IPCache
<1>2. ASSUME NEW c \in IPCache, NEW k \in Hosts, NEW a \in Addresses, Len(c) <= Size
      PROVE  Set(c, k, a, Size) \in IPCache /\ Len(Set(c, k, a, Size)) <= Size
  <2>1. c \in Seq(IPEntry) /\ Entry(k, a) \in IPEntry
    BY NewEntry DEF IPCache
  <2>2. Set(c, k, a, Size) \in Seq(IPEntry) /\ Len(Set(c, k, a, Size)) <= Size
    BY <1>0, <1>2, <2>1, SetEntries
  <2> QED
    BY <2>2 DEF IPCache
<1>3. ASSUME NEW c \in HostCache, NEW k, Len(c) <= Size
      PROVE  /\ Get(c, k) \in HostCache /\ Len(Get(c, k)) <= Size
             /\ Delete(c, k) \in HostCache /\ Len(Delete(c, k)) <= Size
  <2>1. c \in Seq(HostEntry) /\ Len(c) \in Nat
    BY DEF HostCache
  <2>2. Get(c, k) \in Seq(HostEntry) /\ Len(Get(c, k)) = Len(c)
    BY <2>1, GetEntries
  <2>3. Delete(c, k) \in Seq(HostEntry) /\ Len(Delete(c, k)) <= Len(c)
    BY <2>1, DeleteEntries
  <2>4. Len(Delete(c, k)) \in Nat
    BY <2>3
  <2> QED
    BY <1>0, <1>3, <2>1, <2>2, <2>3, <2>4 DEF HostCache
<1>4. ASSUME NEW c \in HostCache, NEW k \in Addresses, NEW h \in Hosts, Len(c) <= Size
      PROVE  Set(c, k, h, Size) \in HostCache /\ Len(Set(c, k, h, Size)) <= Size
  <2>1. c \in Seq(HostEntry) /\ Entry(k, h) \in HostEntry
    BY NewEntry DEF HostCache
  <2>2. Set(c, k, h, Size) \in Seq(HostEntry) /\ Len(Set(c, k, h, Size)) <= Size
    BY <1>0, <1>4, <2>1, SetEntries
  <2> QED
    BY <2>2 DEF HostCache
<1> QED
  BY <1>1, <1>2, <1>3, <1>4

(* The fields of a call, one by one. *)
LEMMA OpType ==
  ASSUME TypeOK
  PROVE  /\ op.at \in Steps
         /\ op.host \in Hosts \cup {NoHost}
         /\ op.old \in Hosts \cup {NoHost}
         /\ op.ip \in Addresses \cup {NoAddress}
BY DEF TypeOK

(* Nothing is in a new or flushed cache. *)
LEMMA EmptyCaches == <<>> \in IPCache /\ <<>> \in HostCache /\ Len(<<>>) = 0 /\ 0 <= Size
BY SizeAssumption DEF IPCache, HostCache

(* The types hold of a new pool. *)
LEMMA TypedInit == Init => Typed
<1> SUFFICES ASSUME Init PROVE Typed
  OBVIOUS
<1>1. first - 1 \in Addresses
  BY RingAssumption DEF Addresses
<1>2. NoOp \in [at : Steps, host : Hosts \cup {NoHost}, old : Hosts \cup {NoHost},
               ip : Addresses \cup {NoAddress}] /\ NoOp.at = "none"
  BY DEF NoOp, Steps
<1>3. /\ NoClone \in [at : {"none", "hosts", "switch"}, ips : IPCache, hosts : HostCache]
      /\ NoClone.ips = <<>> /\ NoClone.hosts = <<>>
  BY EmptyCaches DEF NoClone
<1> QED
  BY <1>1, <1>2, <1>3, EmptyCaches DEF Init, Typed, TypeOK, OpOK

(* Every step of a call, a flush or a reload keeps the types. *)
LEMMA TypedNext == Typed /\ [Next]_vars => Typed'
<1> SUFFICES ASSUME Typed, [Next]_vars PROVE Typed'
  OBVIOUS
<1> USE DEF Typed
<1>0. TypeOK /\ OpOK
  OBVIOUS
<1>a. offset \in Addresses /\ first - 1 \in Addresses /\ offset \in Int
  BY RingAssumption DEF TypeOK, Addresses
<1>c. /\ NoOp \in [at : Steps, host : Hosts \cup {NoHost}, old : Hosts \cup {NoHost},
                  ip : Addresses \cup {NoAddress}]
      /\ NoOp.at = "none"
  BY DEF NoOp, Steps
<1>1. ASSUME NEW h \in Hosts, Lookup(h) PROVE Typed'
  <2>1. h \in Keys(cacheIP) => Value(cacheIP, h) \in Addresses
    BY ValueTypes DEF TypeOK
  <2>2. cacheIP' \in IPCache /\ Len(cacheIP') <= Size
    BY <1>1, CacheTypes DEF TypeOK, Lookup
  <2> QED
    BY <1>1, <2>1, <2>2 DEF TypeOK, OpOK, Lookup, NoOp, Steps, fields, others
<1>2. ASSUME NEW a \in Addresses, LookBack(a) PROVE Typed'
  <2>1. a \in Keys(cacheHost) => Value(cacheHost, a) \in Hosts
    BY ValueTypes DEF TypeOK
  <2>2. cacheHost' \in HostCache /\ Len(cacheHost') <= Size
    BY <1>2, CacheTypes DEF TypeOK, LookBack
  <2> QED
    BY <1>2, <1>c, <2>1, <2>2 DEF TypeOK, OpOK, LookBack, Return, NoOp, Steps, fields, others, Addresses
<1>3. CASE Hit
  <2>1. cacheHost' \in HostCache /\ Len(cacheHost') <= Size
    BY <1>3, CacheTypes DEF TypeOK, Hit
  <2> QED
    BY <1>3, <1>c, <2>1 DEF TypeOK, OpOK, Hit, Return, fields, others
<1>4. CASE NextOffset
  <2>1. offset' \in Addresses /\ cycle' \in BOOLEAN
    BY <1>4, <1>a, RingAssumption DEF TypeOK, NextOffset, Addresses
  <2>2. op' = [op EXCEPT !.at = "delete"] \/ op' = [op EXCEPT !.at = "putIP"]
    BY <1>4 DEF NextOffset
  <2> QED
    BY <1>4, <2>1, <2>2 DEF TypeOK, OpOK, NextOffset, Steps, others
<1>5. CASE DelByIP
  <2>1. offset \in Keys(cacheHost) => Value(cacheHost, offset) \in Hosts
    BY ValueTypes DEF TypeOK
  <2>2. cacheHost' \in HostCache /\ Len(cacheHost') <= Size
    BY <1>5, CacheTypes DEF TypeOK, DelByIP
  <2> QED
    BY <1>5, <1>a, <2>1, <2>2 DEF TypeOK, OpOK, DelByIP, Steps, fields, others
<1>6. CASE DeleteHost
  <2>1. cacheIP' \in IPCache /\ Len(cacheIP') <= Size
    BY <1>6, CacheTypes DEF TypeOK, DeleteHost
  <2> QED
    BY <1>6, <2>1 DEF TypeOK, OpOK, DeleteHost, Steps, fields, others
<1>7. CASE DeleteIP
  <2>1. cacheHost' \in HostCache /\ Len(cacheHost') <= Size
    BY <1>7, CacheTypes DEF TypeOK, DeleteIP
  <2> QED
    BY <1>7, <2>1 DEF TypeOK, OpOK, DeleteIP, Steps, fields, others
<1>8. CASE PutByIP
  <2>1. cacheHost' \in HostCache /\ Len(cacheHost') <= Size
    BY <1>8, <1>a, CacheTypes DEF TypeOK, OpOK, PutByIP
  <2> QED
    BY <1>8, <1>a, <2>1 DEF TypeOK, OpOK, PutByIP, Steps, fields, others
<1>9. CASE PutByHost
  <2>1. cacheIP' \in IPCache /\ Len(cacheIP') <= Size
    BY <1>9, CacheTypes DEF TypeOK, OpOK, PutByHost
  <2> QED
    BY <1>9, <1>c, <2>1 DEF TypeOK, OpOK, PutByHost, Return, fields, others
<1>10. CASE Back
  <2>1. cacheIP' \in IPCache /\ Len(cacheIP') <= Size
    BY <1>10, CacheTypes DEF TypeOK, OpOK, Back
  <2> QED
    BY <1>10, <1>c, <2>1 DEF TypeOK, OpOK, Back, Return, fields, others
<1>11. CASE FlushIP \/ FlushHost \/ FlushFields
  BY <1>11, <1>a, EmptyCaches DEF TypeOK, OpOK, FlushIP, FlushHost, FlushFields, fields
<1>12. CASE CloneIP \/ CloneHost
  BY <1>12 DEF TypeOK, OpOK, CloneIP, CloneHost, fields
<1>13. CASE Switch
  <2>1. NoClone \in [at : {"none", "hosts", "switch"}, ips : IPCache, hosts : HostCache]
        /\ NoClone.ips = <<>> /\ NoClone.hosts = <<>>
    BY EmptyCaches DEF NoClone
  <2> QED
    BY <1>13, <1>a, <1>c, <2>1, EmptyCaches DEF TypeOK, OpOK, Switch
<1>14. CASE UNCHANGED vars
  BY <1>14 DEF TypeOK, OpOK, vars
<1> QED
  BY <1>1, <1>2, <1>3, <1>4, <1>5, <1>6, <1>7, <1>8, <1>9, <1>10, <1>11, <1>12, <1>13, <1>14
     DEF Next

(* TypeOK, with and without Overlap: no cache ever grows beyond Size        *)
(* (lrucache.go:185), and the offset stays in the ring (pool.go:94-102).    *)
THEOREM Typing == Spec => []TypeOK
<1>1. Typed => TypeOK
  BY DEF Typed
<1> QED
  BY <1>1, TypedInit, TypedNext, PTL DEF Spec

-----------------------------------------------------------------------------
(* The two caches *)

(* A key that is found belongs to a pair. *)
LEMMA PairOf ==
  ASSUME NEW c, NEW k \in Keys(c)
  PROVE  <<k, Value(c, k)>> \in PairsOf(c)
BY PlaceOf DEF Value, PairsOf

(* Fewer entries, fewer pairs and keys. *)
LEMMA FewerEntries ==
  ASSUME NEW c, NEW d, Entries(c) \subseteq Entries(d)
  PROVE  PairsOf(c) \subseteq PairsOf(d) /\ Keys(c) \subseteq Keys(d)
<1>1. \A i \in 1 .. Len(c) : \E j \in 1 .. Len(d) : c[i] = d[j]
  BY DEF Entries
<1>2. ASSUME NEW i \in 1 .. Len(c)
      PROVE  <<c[i].key, c[i].value>> \in PairsOf(d) /\ c[i].key \in Keys(d)
  <2>1. PICK j \in 1 .. Len(d) : c[i] = d[j]
    BY <1>1
  <2> QED
    BY <2>1 DEF PairsOf, Keys
<1> QED
  BY <1>2 DEF PairsOf, Keys

(* Two empty caches. *)
LEMMA MirrorEmpty == Mirror(<<>>, <<>>) /\ PairsOf(<<>>) = {} /\ Keys(<<>>) = {}
BY DEF Mirror, PairsOf, Keys

(* A new pool is idle and empty. *)
LEMMA LockInit == Init => Lockstep
BY MirrorEmpty DEF Init, Lockstep, Turns, Flushing, Cloning, Completes, Fresh, Known, NoOp, NoClone,
   Assigning, Calm

(* Every step leaves the rest of its call with the right work to do. *)
LEMMA LockNext == ~Overlap /\ Inv /\ [Next]_vars => Lockstep'
<1> SUFFICES ASSUME ~Overlap, Inv, [Next]_vars PROVE Lockstep'
  OBVIOUS
<1>t. TypeOK /\ OpOK /\ Lockstep
  BY DEF Inv, Typed
<1>s. /\ cacheIP \in Seq(IPEntry) /\ cacheHost \in Seq(HostEntry)
      /\ Size \in Nat \ {0} /\ offset \in Addresses
  BY <1>t, SizeAssumption DEF TypeOK, IPCache, HostCache
<1>n. NoOp.at = "none" /\ NoClone.at = "none"
  BY DEF NoOp, NoClone
<1>r. op \in [at : Steps, host : Hosts \cup {NoHost}, old : Hosts \cup {NoHost},
              ip : Addresses \cup {NoAddress}]
  BY <1>t DEF TypeOK
<1>1. ASSUME NEW h \in Hosts, Lookup(h) PROVE Lockstep'
  <2>0. Calm /\ op = NoOp /\ Mirror(cacheIP, cacheHost)
    BY <1>1, <1>t, <1>n DEF Lookup, Enter, Lockstep, Completes, Calm
  <2>1. CASE h \in Keys(cacheIP)
    <3>1. op'.at = "hit" /\ op'.host = h /\ op'.ip = Value(cacheIP, h)
      BY <1>1, <2>1 DEF Lookup, NoOp
    <3>2. Mirror(cacheIP', Get(cacheHost', op'.ip))
      BY <1>1, <1>s, <2>0, <2>1, <3>1, MirrorGet DEF Lookup
    <3>3. <<h, Value(cacheIP, h)>> \in PairsOf(cacheIP)
      BY <2>1, PairOf
    <3>4. Entries(cacheIP) \subseteq Entries(cacheIP')
      BY <1>1, <1>s, GetEntries DEF Lookup
    <3>5. <<h, Value(cacheIP, h)>> \in Pairs'
      BY <3>3, <3>4, FewerEntries DEF Pairs
    <3> QED
      BY <1>1, <2>0, <3>1, <3>2, <3>5
         DEF Lookup, Lockstep, Turns, Flushing, Cloning, Completes, Fresh, Known, Calm, Assigning, others,
             NoClone
  <2>2. CASE h \notin Keys(cacheIP)
    <3>1. op'.at = "next" /\ op'.host = h /\ cacheIP' = cacheIP /\ cacheHost' = cacheHost
      BY <1>1, <2>2 DEF Lookup, NoOp, Get
    <3> QED
      BY <1>1, <2>0, <2>2, <3>1
         DEF Lookup, Lockstep, Turns, Flushing, Cloning, Completes, Fresh, Known, Calm, Assigning, others,
             NoClone
  <2> QED
    BY <2>1, <2>2
<1>2. ASSUME NEW a \in Addresses, LookBack(a) PROVE Lockstep'
  <2>0. Calm /\ op = NoOp /\ Mirror(cacheIP, cacheHost) /\ Mirror(cacheHost, cacheIP)
    BY <1>2, <1>t, <1>n, MirrorSymmetric DEF LookBack, Enter, Lockstep, Completes, Calm
  <2>1. CASE a \in Keys(cacheHost)
    <3> DEFINE h == Value(cacheHost, a)
    <3>1. op'.at = "back" /\ op'.host = h /\ op'.ip = a
      BY <1>2, <2>1 DEF LookBack, NoOp
    <3>2. Mirror(Get(cacheIP, h), cacheHost')
      BY <1>2, <1>s, <2>0, <2>1, MirrorGet, MirrorSymmetric DEF LookBack
    <3>3. h \in Keys(cacheIP) /\ Value(cacheIP, h) = a
      BY <1>s, <2>0, <2>1, MirrorPlace
    <3> HIDE DEF h
    <3>4. <<h, a>> \in Pairs
      BY <3>3, PairOf DEF Pairs
    <3> QED
      BY <1>2, <2>0, <3>1, <3>2, <3>4
         DEF LookBack, Lockstep, Turns, Flushing, Cloning, Completes, Fresh, Known, Calm, Assigning,
             others, NoClone, Pairs
  <2>2. CASE a \notin Keys(cacheHost)
    <3>1. op' = NoOp /\ cacheIP' = cacheIP /\ cacheHost' = cacheHost
      BY <1>2, <2>2 DEF LookBack, Return, Get
    <3> QED
      BY <1>2, <1>n, <2>0, <3>1
         DEF LookBack, Lockstep, Turns, Flushing, Cloning, Completes, Fresh, Known, Calm, Assigning,
             others, NoClone
  <2> QED
    BY <2>1, <2>2
<1>3. CASE Hit \/ Back \/ PutByHost
  <2>0. Calm
    BY <1>3, <1>t DEF Hit, Back, PutByHost, Lockstep, Turns
  <2>1. Mirror(cacheIP', cacheHost')
    BY <1>3, <1>t DEF Hit, Back, PutByHost, Lockstep, Completes
  <2>2. op' = NoOp /\ flush' = "none" /\ clone' = NoClone
    BY <1>3, <2>0 DEF Hit, Back, PutByHost, Return, others, Calm
  <2> QED
    BY <1>n, <2>1, <2>2
       DEF Lockstep, Turns, Flushing, Cloning, Completes, Fresh, Known, Calm, Assigning
<1>4. CASE NextOffset
  <2>0. /\ Calm /\ Mirror(cacheIP, cacheHost) /\ op.host \notin Keys(cacheIP)
        /\ cacheIP' = cacheIP /\ cacheHost' = cacheHost /\ op'.host = op.host
        /\ flush' = flush /\ clone' = clone
    BY <1>4, <1>t, <1>r DEF NextOffset, Lockstep, Turns, Completes, Fresh, Assigning, others
  <2>1. op'.at = "delete" \/ (op'.at = "putIP" /\ offset' \notin Keys(cacheHost))
    BY <1>4, <1>r DEF NextOffset
  <2> QED
    BY <2>0, <2>1
       DEF Lockstep, Turns, Flushing, Cloning, Completes, Fresh, Known, Calm, Assigning, NoClone
<1>5. CASE DelByIP
  <2>0. /\ Calm /\ Mirror(cacheIP, cacheHost) /\ Mirror(cacheHost, cacheIP)
        /\ op.host \notin Keys(cacheIP) /\ cacheIP' = cacheIP /\ op'.host = op.host
        /\ cacheHost' = Get(cacheHost, offset) /\ op'.ip = offset /\ offset' = offset
        /\ flush' = flush /\ clone' = clone
    BY <1>5, <1>t, <1>r, MirrorSymmetric
       DEF DelByIP, Lockstep, Turns, Completes, Fresh, Assigning, others, fields
  <2>1. CASE offset \in Keys(cacheHost)
    <3>1. op'.at = "deleteHost" /\ op'.old = Value(cacheHost, offset)
      BY <1>5, <1>r, <2>1 DEF DelByIP
    <3>2. /\ Mirror(Delete(cacheHost, offset), Delete(cacheIP, op'.old))
          /\ offset \notin Keys(Delete(cacheHost, offset))
      BY <1>s, <2>0, <2>1, <3>1, MirrorDelete
    <3>3. Delete(cacheHost', offset) = Delete(cacheHost, offset)
      BY <1>s, <2>0, <2>1, <3>2, DeleteAfterGet
    <3>4. Mirror(Delete(cacheIP', op'.old), Delete(cacheHost', offset'))
      BY <2>0, <3>2, <3>3, MirrorSymmetric
    <3> QED
      BY <2>0, <3>1, <3>2, <3>3, <3>4
         DEF Lockstep, Turns, Flushing, Cloning, Completes, Fresh, Known, Calm, Assigning, NoClone
  <2>2. CASE offset \notin Keys(cacheHost)
    <3>1. op'.at = "deleteIP" /\ cacheHost' = cacheHost /\ Delete(cacheHost, offset) = cacheHost
      BY <1>5, <1>r, <2>2 DEF DelByIP, Get, Delete
    <3> QED
      BY <2>0, <2>2, <3>1
         DEF Lockstep, Turns, Flushing, Cloning, Completes, Fresh, Known, Calm, Assigning, NoClone
  <2> QED
    BY <2>1, <2>2
<1>6. CASE DeleteHost
  <2>0. /\ Calm /\ Mirror(cacheIP', Delete(cacheHost, offset))
        /\ op.host \notin Keys(cacheIP) /\ cacheIP' = Delete(cacheIP, op.old)
        /\ cacheHost' = cacheHost /\ offset' = offset /\ op.ip = offset
        /\ offset \notin Keys(Delete(cacheHost, offset))
        /\ op'.at = "deleteIP" /\ op'.host = op.host /\ op'.ip = op.ip
        /\ flush' = flush /\ clone' = clone
    BY <1>6, <1>t, <1>r
       DEF DeleteHost, Lockstep, Turns, Completes, Fresh, Assigning, others, fields
  <2>1. op.host \notin Keys(cacheIP')
    BY <1>s, <2>0, DeleteEntries, FewerEntries
  <2> QED
    BY <2>0, <2>1
       DEF Lockstep, Turns, Flushing, Cloning, Completes, Fresh, Known, Calm, Assigning, NoClone
<1>7. CASE DeleteIP
  <2>0. /\ Calm /\ Mirror(cacheIP, Delete(cacheHost, offset))
        /\ op.host \notin Keys(cacheIP) /\ cacheIP' = cacheIP
        /\ cacheHost' = Delete(cacheHost, offset) /\ offset' = offset
        /\ offset \notin Keys(Delete(cacheHost, offset))
        /\ op'.at = "putIP" /\ op'.host = op.host
        /\ flush' = flush /\ clone' = clone
    BY <1>7, <1>t, <1>r
       DEF DeleteIP, Lockstep, Turns, Completes, Fresh, Assigning, others, fields
  <2> QED
    BY <2>0
       DEF Lockstep, Turns, Flushing, Cloning, Completes, Fresh, Known, Calm, Assigning, NoClone
<1>8. CASE PutByIP
  <2>0. /\ Calm /\ Mirror(cacheIP, cacheHost)
        /\ op.host \in Hosts /\ op.host \notin Keys(cacheIP) /\ offset \notin Keys(cacheHost)
        /\ cacheIP' = cacheIP /\ cacheHost' = Set(cacheHost, offset, op.host, Size)
        /\ op'.at = "putHost" /\ op'.host = op.host /\ op'.ip = offset
        /\ flush' = flush /\ clone' = clone
    BY <1>8, <1>t, <1>r
       DEF PutByIP, Lockstep, Turns, Completes, Fresh, Assigning, others, fields, OpOK
  <2>1. Entry(op.host, offset) \in IPEntry /\ Entry(offset, op.host) \in HostEntry
    BY <1>s, <2>0, NewEntry
  <2>2. Mirror(Set(cacheIP, op.host, offset, Size), cacheHost')
    BY <1>s, <2>0, <2>1, MirrorSet
  <2> QED
    BY <2>0, <2>2
       DEF Lockstep, Turns, Flushing, Cloning, Completes, Fresh, Known, Calm, Assigning, NoClone
<1>9. CASE FlushIP \/ FlushHost \/ FlushFields
  <2>0. op = NoOp /\ op' = NoOp /\ clone = NoClone /\ clone' = NoClone
    BY <1>9, <1>t
       DEF FlushIP, FlushHost, FlushFields, MayOverlap, Calm, Lockstep, Turns
  <2>1. Flushing' /\ (flush' = "none" => cacheIP' = <<>> /\ cacheHost' = <<>>)
    BY <1>9, <1>t DEF FlushIP, FlushHost, FlushFields, Lockstep, Flushing, fields
  <2> QED
    BY <1>n, <2>0, <2>1, MirrorEmpty
       DEF Lockstep, Turns, Cloning, Completes, Fresh, Known, Assigning
<1>10. CASE CloneIP \/ CloneHost
  <2>0. /\ op = NoOp /\ op' = NoOp /\ flush = "none" /\ flush' = "none"
        /\ cacheIP' = cacheIP /\ cacheHost' = cacheHost
    BY <1>10, <1>t, <1>n
       DEF CloneIP, CloneHost, MayOverlap, Calm, Lockstep, Turns
  <2>1. Cloning' /\ clone'.at # "none"
    BY <1>10, <1>t, <2>0 DEF CloneIP, CloneHost, Lockstep, Cloning, TypeOK
  <2> QED
    BY <1>n, <1>t, <2>0, <2>1
       DEF Lockstep, Turns, Flushing, Completes, Fresh, Known, Assigning
<1>11. CASE Switch
  <2>0. /\ op = NoOp /\ flush = "none" /\ op' = NoOp /\ flush' = "none" /\ clone' = NoClone
    BY <1>11, <1>t, <1>n DEF Switch, Calm, Lockstep, Turns
  <2>1. cacheIP' = cacheIP /\ cacheHost' = cacheHost
    BY <1>11, <1>t DEF Switch, Lockstep, Cloning
  <2> QED
    BY <1>n, <1>t, <2>0, <2>1
       DEF Lockstep, Turns, Flushing, Cloning, Completes, Fresh, Known, Assigning
<1>12. CASE UNCHANGED vars
  BY <1>t, <1>12
     DEF vars, Lockstep, Turns, Flushing, Cloning, Completes, Fresh, Known, Calm, Pairs
<1> QED
  BY <1>1, <1>2, <1>3, <1>4, <1>5, <1>6, <1>7, <1>8, <1>9, <1>10, <1>11, <1>12 DEF Next

(* The inductive invariant. *)
LEMMA InvInit == Init => Inv
BY TypedInit, LockInit DEF Inv

(* No step breaks it when flush and reload wait their turn. *)
LEMMA InvNext == ~Overlap /\ Inv /\ [Next]_vars => Inv'
BY TypedNext, LockNext DEF Inv

(* CachesMirror, when the flush and the reload wait for the call under way: *)
(* two caches that evict each on its own (memory.go:42-52) hold the same    *)
(* pairs in the same order of use whenever the pool is idle.                *)
THEOREM Mirrored == ~Overlap => (Spec => []CachesMirror)
<1> SUFFICES ASSUME ~Overlap PROVE Spec => []CachesMirror
  OBVIOUS
<1>1. Inv => CachesMirror
  BY DEF Inv, Lockstep, Completes, CachesMirror, NoOp
<1>2. Inv /\ [Next]_vars => Inv'
  BY InvNext
<1> QED
  BY <1>1, <1>2, InvInit, PTL DEF Spec

-----------------------------------------------------------------------------
(* The refinement of HostMap *)

(* Caches that mirror each other hold a one-to-one map. *)
LEMMA MirrorOneToOne ==
  ASSUME NEW c, NEW d, Mirror(c, d)
  PROVE  HM!OneToOne(PairsOf(c))
<1>1. \A i, j \in 1 .. Len(c) : c[i].key = c[j].key <=> c[i].value = c[j].value
  BY DEF Mirror
<1> QED
  BY <1>1 DEF HM!OneToOne, PairsOf

(* Pairs are of a host and an address. *)
LEMMA PairTypes ==
  ASSUME NEW c \in IPCache, NEW h, NEW a, <<h, a>> \in PairsOf(c)
  PROVE  h \in Hosts /\ a \in Addresses
<1>1. PICK i \in 1 .. Len(c) : c[i].key = h /\ c[i].value = a
  BY DEF PairsOf
<1>2. c[i] \in IPEntry
  BY DEF IPCache
<1> QED
  BY <1>1, <1>2 DEF IPEntry

(* Using an entry changes no pair. *)
LEMMA GetPairs ==
  ASSUME NEW c \in IPCache, NEW k
  PROVE  PairsOf(Get(c, k)) = PairsOf(c)
<1>1. c \in Seq(IPEntry)
  BY DEF IPCache
<1>2. Entries(Get(c, k)) = Entries(c)
  BY <1>1, GetEntries
<1>3. PairsOf(Get(c, k)) \subseteq PairsOf(c)
  BY <1>2, FewerEntries
<1>4. PairsOf(c) \subseteq PairsOf(Get(c, k))
  BY <1>2, FewerEntries
<1> QED
  BY <1>3, <1>4

(* Adding an entry adds its pair, and may drop others. *)
LEMMA SetPairs ==
  ASSUME NEW c \in IPCache, NEW h \in Hosts, NEW a \in Addresses, Len(c) <= Size
  PROVE  /\ PairsOf(Set(c, h, a, Size)) \subseteq PairsOf(c) \cup {<<h, a>>}
         /\ <<h, a>> \in PairsOf(Set(c, h, a, Size))
<1> DEFINE s == Set(c, h, a, Size)
           e == Entry(h, a)
<1>1. c \in Seq(IPEntry) /\ e \in IPEntry /\ Size \in Nat \ {0}
  BY NewEntry, SizeAssumption DEF IPCache
<1>2. Entries(s) \subseteq Entries(c) \cup {e} /\ e \in Entries(s)
  BY <1>1, SetEntries
<1>3. e.key = h /\ e.value = a
  BY DEF Entry
<1> HIDE DEF s, e
<1>4. ASSUME NEW i \in 1 .. Len(s)
      PROVE  <<s[i].key, s[i].value>> \in PairsOf(c) \cup {<<h, a>>}
  <2>1. s[i] = e \/ \E j \in 1 .. Len(c) : s[i] = c[j]
    BY <1>2 DEF Entries
  <2> QED
    BY <1>3, <2>1 DEF PairsOf
<1>5. \E i \in 1 .. Len(s) : s[i] = e
  BY <1>2 DEF Entries
<1> QED
  BY <1>3, <1>4, <1>5 DEF PairsOf, s

(* Every step is a step of HostMap, or none. *)
LEMMA StepImplements == ~Overlap /\ Inv /\ [Next]_vars => [HM!Next]_<<Pairs, answer>>
<1> SUFFICES ASSUME ~Overlap, Inv, [Next]_vars PROVE [HM!Next]_<<Pairs, answer>>
  OBVIOUS
<1>t. TypeOK /\ OpOK /\ Lockstep
  BY DEF Inv, Typed
<1>s. cacheIP \in IPCache /\ cacheHost \in HostCache /\ Len(cacheIP) <= Size
  BY <1>t DEF TypeOK
<1>1. ASSUME NEW h \in Hosts, Lookup(h) PROVE UNCHANGED <<Pairs, answer>>
  BY <1>1, <1>s, GetPairs DEF Lookup, Pairs
<1>2. ASSUME NEW a \in Addresses, LookBack(a) PROVE [HM!Next]_<<Pairs, answer>>
  <2>1. UNCHANGED Pairs
    BY <1>2 DEF LookBack, Pairs
  <2>2. CASE a \in Keys(cacheHost)
    BY <1>2, <2>1, <2>2 DEF LookBack
  <2>3. CASE a \notin Keys(cacheHost)
    <3>1. Mirror(cacheIP, cacheHost)
      BY <1>2, <1>t DEF LookBack, Enter, Calm, Lockstep, Completes, NoOp
    <3>2. \A i \in 1 .. Len(cacheIP) : cacheIP[i].value # a
      BY <2>3, <3>1 DEF Mirror, Keys
    <3>3. \A p \in Pairs : p[2] # a
      BY <3>2 DEF Pairs, PairsOf
    <3>4. answer' = [call |-> "LookBack", host |-> NoHost, ip |-> a]
      BY <1>2, <2>3 DEF LookBack, Return
    <3>5. HM!LookBack(NoHost, a)
      BY <2>1, <3>3, <3>4 DEF HM!LookBack
    <3> QED
      BY <3>5 DEF HM!Next
  <2> QED
    BY <2>2, <2>3
<1>3. CASE Hit
  <2>1. <<op.host, op.ip>> \in Pairs /\ Mirror(cacheIP, cacheHost')
    BY <1>3, <1>t DEF Hit, Lockstep, Known, Completes
  <2>2. op.host \in Hosts /\ op.ip \in Addresses
    BY <1>s, <2>1, PairTypes DEF Pairs
  <2>3. UNCHANGED Pairs
    BY <1>3 DEF Hit, Pairs
  <2>4. HM!OneToOne(Pairs)
    BY <2>1, MirrorOneToOne DEF Pairs
  <2>5. \A p \in Pairs : p[1] = op.host => p[2] = op.ip
    BY <2>1, <2>4 DEF HM!OneToOne
  <2>6. answer' = [call |-> "Lookup", host |-> op.host, ip |-> op.ip]
    BY <1>3 DEF Hit, Return
  <2>7. HM!Lookup(op.host, op.ip)
    BY <2>1, <2>3, <2>4, <2>5, <2>6 DEF HM!Lookup
  <2> QED
    BY <2>2, <2>7 DEF HM!Next
<1>4. CASE PutByHost
  <2>1. /\ op.host \in Hosts /\ op.ip \in Addresses /\ op.host \notin Keys(cacheIP)
        /\ cacheIP' = Set(cacheIP, op.host, op.ip, Size) /\ Mirror(cacheIP', cacheHost')
    BY <1>4, <1>t DEF PutByHost, OpOK, Lockstep, Fresh, Completes, Assigning
  <2>2. Pairs' \subseteq Pairs \cup {<<op.host, op.ip>>} /\ <<op.host, op.ip>> \in Pairs'
    BY <1>s, <2>1, SetPairs DEF Pairs
  <2>3. \A p \in Pairs : p[1] # op.host
    BY <2>1 DEF Pairs, PairsOf, Keys
  <2>4. HM!OneToOne(Pairs')
    BY <2>1, MirrorOneToOne DEF Pairs
  <2>5. answer' = [call |-> "Lookup", host |-> op.host, ip |-> op.ip]
    BY <1>4 DEF PutByHost, Return
  <2>6. HM!Lookup(op.host, op.ip)
    BY <2>2, <2>3, <2>4, <2>5 DEF HM!Lookup
  <2> QED
    BY <2>1, <2>6 DEF HM!Next
<1>5. CASE Back
  <2>1. <<op.host, op.ip>> \in Pairs
    BY <1>5, <1>t DEF Back, Lockstep, Known
  <2>2. op.host \in Hosts /\ op.ip \in Addresses
    BY <1>s, <2>1, PairTypes DEF Pairs
  <2>3. UNCHANGED Pairs
    BY <1>5, <1>s, GetPairs DEF Back, Pairs
  <2>4. answer' = [call |-> "LookBack", host |-> op.host, ip |-> op.ip]
    BY <1>5 DEF Back, Return
  <2>5. HM!LookBack(op.host, op.ip)
    BY <2>1, <2>2, <2>3, <2>4, HostsAssumption DEF HM!LookBack
  <2> QED
    BY <2>2, <2>5 DEF HM!Next
<1>6. CASE DeleteHost
  <2>1. cacheIP \in Seq(IPEntry) /\ cacheIP' = Delete(cacheIP, op.old) /\ UNCHANGED answer
    BY <1>6, <1>s DEF DeleteHost, IPCache
  <2>2. Pairs' \subseteq Pairs
    BY <2>1, DeleteEntries, FewerEntries DEF Pairs
  <2> QED
    BY <2>1, <2>2 DEF HM!Next, HM!Forget
<1>7. CASE FlushIP
  <2>1. Pairs' = {} /\ UNCHANGED answer
    BY <1>7, MirrorEmpty DEF FlushIP, Pairs
  <2> QED
    BY <2>1 DEF HM!Next, HM!Forget
<1>8. CASE NextOffset \/ DelByIP \/ DeleteIP \/ PutByIP
  BY <1>8 DEF NextOffset, DelByIP, DeleteIP, PutByIP, Pairs
<1>9. CASE FlushHost \/ FlushFields \/ CloneIP \/ CloneHost
  BY <1>9 DEF FlushHost, FlushFields, CloneIP, CloneHost, Pairs
<1>10. CASE Switch
  BY <1>10, <1>t DEF Switch, Lockstep, Cloning, Pairs
<1>11. CASE UNCHANGED vars
  BY <1>11 DEF vars, Pairs
<1> QED
  BY <1>1, <1>2, <1>3, <1>4, <1>5, <1>6, <1>7, <1>8, <1>9, <1>10, <1>11 DEF Next

(* Promise, under the same condition: Lookup and LookBack (pool.go:42-64)   *)
(* pair hosts and addresses one to one although a call is many steps on two *)
(* caches that evict, and the ring hands out used addresses again.          *)
THEOREM Implements == ~Overlap => (Spec => Promise)
<1> SUFFICES ASSUME ~Overlap PROVE Spec => Promise
  OBVIOUS
<1>1. Init => HM!Init
  BY MirrorEmpty DEF Init, HM!Init, Pairs, NoAnswer, HM!NoAnswer
<1>2. Inv /\ [Next]_vars => Inv'
  BY InvNext
<1>3. Inv /\ [Next]_vars => [HM!Next]_<<Pairs, answer>>
  BY StepImplements
<1> QED
  BY <1>1, <1>2, <1>3, InvInit, PTL DEF Spec, Promise, HM!Spec
=============================================================================
