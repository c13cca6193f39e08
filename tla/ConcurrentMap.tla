----------------------------- MODULE ConcurrentMap -----------------------------
(***************************************************************************)
(* common/xsync/map.go: a hash table of buckets, each a chain of slots     *)
(* under a mutex of its own.  Loads take no lock.  A resize copies bucket  *)
(* after bucket into a new table and publishes it; writers find out by two *)
(* checks made under the mutex of their bucket.  Old tables stay readable  *)
(* for whoever still holds them.  The bits of a slot's meta byte, which    *)
(* only speed up the search, are left out.                                 *)
(***************************************************************************)
EXTENDS Integers, Sequences, FiniteSets

CONSTANTS
    Threads,         \* goroutines
    Keys,            \* keys: the hash of a key is the key itself
    Values,          \* values
    Absent,            \* "no value", "no thread"
    MinLen,          \* minTableLen
    Entries,         \* entriesPerMapBucket
    ShrinkFraction,  \* mapShrinkFraction
    Functions,       \* which methods are called
    MaxCalls         \* bound: number of calls

(* Both sizes of a new table are positive; Absent is no value, no thread.   *)
Sane ==
    /\ Keys \subseteq Nat /\ Keys # {} /\ IsFiniteSet(Keys) /\ IsFiniteSet(Threads)
    /\ Absent \notin Values \cup Threads
    /\ MinLen \in Nat \ {0} /\ Entries \in Nat \ {0}

VARIABLES
    tables,    \* every table made so far: buckets, counter, made by Clear?
    cur,       \* index of the published table
    resizing,  \* the resize flag
    th,        \* per thread: progress of its call
    abs,       \* history: the abstract map, key by key
    held,      \* history: what abs was at the thread's key since its call
    calls      \* calls made

vars == <<tables, cur, resizing, th, abs, held, calls>>

Empty == <<>>
Bucket(n, k) == (k % n) + 1
NewBucket == [slots |-> [i \in 1 .. Entries |-> Empty], holder |-> Absent]
NewTable(n, clear) ==
    [buckets |-> [b \in 1 .. n |-> NewBucket], size |-> 0, clear |-> clear]

Idle(fn, k, found) ==
    [pc |-> "idle", fn |-> fn, key |-> k, val |-> Absent, tab |-> 1,
     delta |-> 0, hint |-> "grow", new |-> NewTable(0, FALSE), copied |-> 0,
     slot |-> 0, found |-> found, lost |-> FALSE]

Init ==
    /\ tables = <<NewTable(MinLen, FALSE)>>
    /\ cur = 1
    /\ resizing = FALSE
    /\ th = [t \in Threads |-> Idle("load", CHOOSE k \in Keys : TRUE, Absent)]
    /\ abs = [k \in Keys |-> Absent]
    /\ held = [t \in Threads |-> {Absent}]
    /\ calls = 0

-----------------------------------------------------------------------------
TableLen(i) == Len(tables[i].buckets)
Mine(t) == Bucket(TableLen(th[t].tab), th[t].key)
Slots(t) == tables[th[t].tab].buckets[Mine(t)].slots

First(places) == CHOOSE i \in places : \A j \in places : i <= j
Places(slots, k) == {i \in 1 .. Len(slots) : slots[i] # Empty /\ slots[i][1] = k}
Found(slots, k) == IF Places(slots, k) = {} THEN Absent ELSE slots[First(Places(slots, k))][2]
EmptySlots(slots) == {i \in 1 .. Len(slots) : slots[i] = Empty}

(* Insertion takes the first empty slot or appends a bucket to the chain.   *)
Insert(slots, e) ==
    IF EmptySlots(slots) # {} THEN [slots EXCEPT ![First(EmptySlots(slots))] = e]
    ELSE Append(slots, e) \o [i \in 1 .. Entries - 1 |-> Empty]

Add(table, e) ==
    [table EXCEPT !.size = @ + 1,
                  !.buckets[Bucket(Len(table.buckets), e[1])].slots = Insert(@, e)]

(* No slot of the bucket of the chain that slot i belongs to is in use.     *)
BucketEmpty(slots, i) ==
    \A j \in 1 .. Len(slots) : (j - 1) \div Entries = (i - 1) \div Entries => slots[j] = Empty

Content(i) ==
    [k \in Keys |-> Found(tables[i].buckets[Bucket(TableLen(i), k)].slots, k)]

NeedsGrow(i) == 4 * tables[i].size > 3 * TableLen(i) * Entries
MayShrink(i) == TableLen(i) # MinLen /\ tables[i].size <= (TableLen(i) * Entries) \div ShrinkFraction

Go(t, pc) == th' = [th EXCEPT ![t].pc = pc]
Return(t, found) == th' = [th EXCEPT ![t] = Idle(th[t].fn, th[t].key, found)]

Remember(a) ==
    /\ abs' = a
    /\ held' = [t \in Threads |-> IF th[t].pc = "idle" THEN held[t] ELSE held[t] \cup {a[th[t].key]}]

-----------------------------------------------------------------------------
Call(t, fn, k, v) ==
    /\ th[t].pc = "idle"
    /\ calls < MaxCalls
    /\ calls' = calls + 1
    /\ th' = [th EXCEPT ![t] = [Idle(fn, k, Absent) EXCEPT !.pc = "attempt", !.val = v]]
    /\ held' = [held EXCEPT ![t] = {abs[k]}]
    /\ UNCHANGED <<tables, cur, resizing, abs>>

Attempt(t) ==
    /\ th[t].pc = "attempt"
    /\ th' = [th EXCEPT ![t].tab = cur, ![t].hint = IF th[t].fn = "clear" THEN "clear" ELSE "grow",
              ![t].pc = CASE th[t].fn = "store" -> "lock"
                          [] th[t].fn = "clear" -> "resize"
                          [] OTHER -> "scan"]
    /\ UNCHANGED <<tables, cur, resizing, abs, held, calls>>

(* The search without the lock: Load, and the fast paths of the others.     *)
Scan(t) ==
    /\ th[t].pc = "scan"
    /\ LET found == Found(Slots(t), th[t].key) IN
       IF \/ th[t].fn = "load"
          \/ th[t].fn = "loadOrStore" /\ found # Absent
          \/ th[t].fn = "loadAndDelete" /\ found = Absent
       THEN Return(t, found)
       ELSE Go(t, "lock")
    /\ UNCHANGED <<tables, cur, resizing, abs, held, calls>>

SetHolder(t, h) == [tables EXCEPT ![th[t].tab].buckets[Mine(t)].holder = h]

Lock(t) ==
    /\ th[t].pc = "lock"
    /\ tables[th[t].tab].buckets[Mine(t)].holder = Absent
    /\ tables' = SetHolder(t, t)
    /\ Go(t, "checkResizing")
    /\ UNCHANGED <<cur, resizing, abs, held, calls>>

CheckResizing(t) ==
    /\ th[t].pc = "checkResizing"
    /\ tables' = IF resizing THEN SetHolder(t, Absent) ELSE tables
    /\ Go(t, IF resizing THEN "wait" ELSE "checkTable")
    /\ UNCHANGED <<cur, resizing, abs, held, calls>>

CheckTable(t) ==
    /\ th[t].pc = "checkTable"
    /\ tables' = IF th[t].tab # cur THEN SetHolder(t, Absent) ELSE tables
    /\ Go(t, IF th[t].tab # cur THEN "attempt" ELSE "apply")
    /\ UNCHANGED <<cur, resizing, abs, held, calls>>

(* A Clear published its table after the checks of t: the effect of t comes *)
(* before it, seen only by the calls that still look at the cleared table.  *)
Overtaken(t) == \E j \in th[t].tab + 1 .. cur : tables[j].clear
SameView(t, u) ==
    th[u].pc \notin {"idle", "attempt"} /\ th[u].tab = th[t].tab /\ th[u].key = th[t].key

Effect(t, slots, v) ==
    /\ tables' = [tables EXCEPT ![th[t].tab].buckets[Mine(t)] = [slots |-> slots, holder |-> Absent]]
    /\ IF Overtaken(t)
       THEN /\ held' = [u \in Threads |-> held[u] \cup (IF SameView(t, u) THEN {v} ELSE {})]
            /\ abs' = abs
       ELSE Remember([abs EXCEPT ![th[t].key] = v])

(* The function of the call is applied under the lock, which is released.   *)
Apply(t) ==
    /\ th[t].pc = "apply"
    /\ UNCHANGED <<cur, resizing, calls>>
    /\ LET me == th[t]
           slots == Slots(t)
           found == Found(slots, me.key)
           at == First(Places(slots, me.key))
           e == <<me.key, me.val>>
       IN
       \/ /\ found # Absent /\ me.fn = "store"
          /\ Effect(t, [slots EXCEPT ![at] = e], me.val)
          /\ Return(t, found)
       \/ /\ found # Absent /\ me.fn = "loadAndDelete"
          /\ Effect(t, [slots EXCEPT ![at] = Empty], Absent)
          /\ th' = [th EXCEPT ![t].pc = "size", ![t].delta = -1, ![t].found = found,
                    ![t].hint = IF BucketEmpty([slots EXCEPT ![at] = Empty], at)
                                THEN "shrink" ELSE "grow"]
       \/ /\ \/ found # Absent /\ me.fn = "loadOrStore"
             \/ found = Absent /\ me.fn = "loadAndDelete"
          /\ tables' = SetHolder(t, Absent)
          /\ Return(t, found)
          /\ UNCHANGED <<abs, held>>
       \/ /\ found = Absent /\ me.fn # "loadAndDelete"
          /\ IF EmptySlots(slots) = {} /\ NeedsGrow(me.tab)
             THEN /\ tables' = SetHolder(t, Absent)
                  /\ Go(t, "resize")
                  /\ UNCHANGED <<abs, held>>
             ELSE /\ Effect(t, Insert(slots, e), me.val)
                  /\ th' = [th EXCEPT ![t].pc = "size", ![t].delta = 1]

(* Mutant: the counter of the published table is adjusted. *)
AddSizeToPublished(t) ==
    /\ th[t].pc = "size"
    /\ tables' = [tables EXCEPT ![cur].size = @ + th[t].delta]
    /\ IF th[t].hint = "shrink" THEN Go(t, "resize") ELSE Return(t, th[t].found)
    /\ UNCHANGED <<cur, resizing, abs, held, calls>>

(* The counter is adjusted outside the lock, in the table of the call.      *)
AddSize(t) ==
    /\ th[t].pc = "size"
    /\ tables' = [tables EXCEPT ![th[t].tab].size = @ + th[t].delta]
    /\ IF th[t].hint = "shrink" THEN Go(t, "resize") ELSE Return(t, th[t].found)
    /\ UNCHANGED <<cur, resizing, abs, held, calls>>

-----------------------------------------------------------------------------
AfterResize(t) ==
    IF th[t].hint = "grow" THEN Go(t, "attempt") ELSE Return(t, th[t].found)

(* resize(): the fast path of a shrink, the flag, the size of the new table.*)
Resize(t) ==
    /\ th[t].pc = "resize"
    /\ UNCHANGED <<tables, cur, abs, held, calls>>
    /\ \/ /\ th[t].hint = "shrink" /\ ~MayShrink(th[t].tab)
          /\ Return(t, th[t].found)
          /\ UNCHANGED resizing
       \/ /\ ~(th[t].hint = "shrink" /\ ~MayShrink(th[t].tab))
          /\ resizing
          /\ Go(t, "wait")
          /\ UNCHANGED resizing
       \/ /\ ~(th[t].hint = "shrink" /\ ~MayShrink(th[t].tab))
          /\ ~resizing
          /\ resizing' = TRUE
          /\ th' = [th EXCEPT ![t].pc = "make", ![t].copied = 0, ![t].slot = 0]

(* Mutant: a shrink that gives up leaves the flag set. *)
MakeKeepsFlag(t) ==
    /\ th[t].pc = "make"
    /\ th[t].hint = "shrink" /\ ~MayShrink(cur)
    /\ AfterResize(t)
    /\ UNCHANGED <<tables, cur, resizing, abs, held, calls>>

Make(t) ==
    /\ th[t].pc = "make"
    /\ IF th[t].hint = "shrink" /\ ~MayShrink(cur)
       THEN Go(t, "finish")
       ELSE LET n == CASE th[t].hint = "grow" -> 2 * TableLen(cur)
                       [] th[t].hint = "shrink" -> TableLen(cur) \div 2
                       [] OTHER -> MinLen
            IN th' = [th EXCEPT ![t].new = NewTable(n, th[t].hint = "clear"),
                      ![t].pc = IF th[t].hint = "clear" THEN "publish" ELSE "copy"]
    /\ UNCHANGED <<tables, cur, resizing, abs, held, calls>>

(* copyBucket and addSizePlain: a bucket, under its mutex, slot after slot. *)
CopyBucket(t) ==
    /\ th[t].pc = "copy"
    /\ LET me == th[t]
           b == me.copied + 1
           from == tables[cur].buckets[b]
           e == from.slots[me.slot + 1]
           last == me.slot + 1 = Len(from.slots)
       IN /\ from.holder = IF me.slot = 0 THEN Absent ELSE t
          /\ tables' = [tables EXCEPT ![cur].buckets[b].holder = IF last THEN Absent ELSE t]
          /\ th' = [th EXCEPT
                ![t].new = IF e = Empty THEN @ ELSE Add(@, e),
                ![t].slot = IF last THEN 0 ELSE @ + 1,
                ![t].copied = IF last THEN @ + 1 ELSE @,
                ![t].pc = IF last /\ b = TableLen(cur) THEN "publish" ELSE "copy"]
    /\ UNCHANGED <<cur, resizing, abs, held, calls>>

Publish(t) ==
    /\ th[t].pc = "publish"
    /\ tables' = Append(tables, th[t].new)
    /\ cur' = Len(tables) + 1
    /\ Go(t, "finish")
    /\ IF th[t].hint = "clear" THEN Remember([k \in Keys |-> Absent]) ELSE UNCHANGED <<abs, held>>
    /\ UNCHANGED <<resizing, calls>>

Finish(t) ==
    /\ th[t].pc = "finish"
    /\ resizing' = FALSE
    /\ AfterResize(t)
    /\ UNCHANGED <<tables, cur, abs, held, calls>>

(* Who waited for the resize of another has done none of its own: a writer  *)
(* tries again, a shrink is given up, a Clear returns and has cleared       *)
(* nothing.                                                                 *)
WaitForResize(t) ==
    /\ th[t].pc = "wait"
    /\ ~resizing
    /\ IF th[t].hint = "clear"
       THEN th' = [th EXCEPT ![t] = [Idle(@.fn, @.key, @.found) EXCEPT !.lost = TRUE]]
       ELSE AfterResize(t)
    /\ UNCHANGED <<tables, cur, resizing, abs, held, calls>>

Step(t) ==
    \/ Attempt(t) \/ Scan(t) \/ Lock(t) \/ CheckResizing(t) \/ CheckTable(t) \/ Apply(t)
    \/ AddSize(t) \/ Resize(t) \/ Make(t) \/ CopyBucket(t) \/ Publish(t) \/ Finish(t)
    \/ WaitForResize(t)

Next ==
    \E t \in Threads :
        \/ \E fn \in Functions, k \in Keys, v \in Values : Call(t, fn, k, v)
        \/ Step(t)

(* Goroutines run, and a mutex reaches each of its waiters.                 *)
Spec ==
    /\ Init /\ [][Next]_vars
    /\ \A t \in Threads : WF_vars(Step(t)) /\ SF_vars(Lock(t)) /\ SF_vars(CopyBucket(t))

-----------------------------------------------------------------------------
(* The published table holds exactly the abstract map: no update that a     *)
(* writer has made is lost to a resize that ran beside it.                  *)
NoLostUpdate == Content(cur) = abs

(* Whatever a call finds under its key was there at some moment between the *)
(* call and its return, although loads take no lock and tables are replaced;*)
(* nothing was there at some moment of a Clear, whichever key one asks for. *)
(* The exception, against the comment of Clear (map.go:718): one that met   *)
(* the resize of another has waited for it and cleared nothing.             *)
FindsWhatWasThere ==
    \A t \in Threads :
        th[t].pc = "idle" => th[t].found \in held[t] \/ (th[t].fn = "clear" /\ th[t].lost)

(* The counter of the published table, adjusted outside the locks, is exact *)
(* as soon as nobody owes it an adjustment.                                 *)
SizeExact ==
    (\A t \in Threads : th[t].pc = "size" => th[t].tab # cur)
        => tables[cur].size = Cardinality({k \in Keys : Content(cur)[k] # Absent})

(* For its callers the map is one map, whatever overlaps with a resize, but *)
(* for the Clears that such an overlap loses.                               *)
IsOneMap == NoLostUpdate /\ FindsWhatWasThere /\ SizeExact

(* Every call returns: retries end, nobody waits for a resize that is over. *)
CallsReturn == \A t \in Threads : (th[t].pc # "idle") ~> (th[t].pc = "idle")
=============================================================================
