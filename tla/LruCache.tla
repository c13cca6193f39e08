------------------------------- MODULE LruCache -------------------------------
(***************************************************************************)
(* common/lru/lrucache.go without ages: a bounded map that remembers the   *)
(* order of use, as the sequence of its entries.  The front is the entry   *)
(* used longest ago.  Each operation is atomic under the mutex of a cache. *)
(***************************************************************************)
EXTENDS Integers, Sequences, SequencesExt

Entry(k, v) == [key |-> k, value |-> v]

Keys(c) == {c[i].key : i \in 1 .. Len(c)}

At(c, k) == CHOOSE i \in 1 .. Len(c) : c[i].key = k

Value(c, k) == c[At(c, k)].value

Delete(c, k) == IF k \in Keys(c) THEN RemoveAt(c, At(c, k)) ELSE c

(* Get moves the element it finds to the back. *)
Get(c, k) == IF k \in Keys(c) THEN Append(Delete(c, k), c[At(c, k)]) ELSE c

(* A new entry drives out the one at the front once the cache is full. *)
Set(c, k, v, size) ==
    IF k \in Keys(c) THEN Append(Delete(c, k), Entry(k, v))
    ELSE IF Len(c) >= size THEN Append(Tail(c), Entry(k, v)) ELSE Append(c, Entry(k, v))

(* Entry for entry and in the same order of use, each cache is the inverse  *)
(* of the other.                                                            *)
Mirror(c, d) ==
    /\ Len(c) = Len(d)
    /\ \A i \in 1 .. Len(c) : c[i].key = d[i].value /\ c[i].value = d[i].key
    /\ \A i, j \in 1 .. Len(c) :
         i # j => c[i].key # c[j].key /\ c[i].value # c[j].value
=============================================================================
