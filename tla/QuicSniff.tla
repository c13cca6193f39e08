------------------------------- MODULE QuicSniff -------------------------------
(***************************************************************************)
(* The QUIC sniffer: a packetSender that reads the CRYPTO frames of a      *)
(* client's initial packets while it passes them on, puts the pieces of    *)
(* the ClientHello in their places and, once it believes to have all of    *)
(* them, takes the name of the server from it.  The goroutine that dials   *)
(* waits for that, or for quicWaitConn.  A buffer comes out of a pool: what*)
(* no frame has written holds bytes of an earlier use.  Decryption is left *)
(* out: a packet is one of the frames it holds or is refused.              *)
(***************************************************************************)
EXTENDS Integers, Sequences, SequencesExt, TLC

CONSTANTS
    Hello,      \* length of the ClientHello with its header
    MaxFrames   \* bound: CRYPTO frames that are read

HeaderLen == 4
Offsets == 0 .. Hello - 1
Nil == "nil"

(* A hello is a header and what it announces.                               *)
Whole == Hello \in Nat /\ Hello > HeaderLen

VARIABLES
    ranges,     \* what has been received, as the sniffer merges it: <<first, end>>
    len,        \* length of the buffer
    have,       \* offsets of the buffer that hold what the client sent
    result,     \* the name that was read
    closed,     \* chClose is closed, the buffer is back in its pool
    sender,     \* progress of Send, which one goroutine calls
    read,       \* CRYPTO frames read so far
    waiter,     \* DoSniff: waiting, done
    host        \* the domain in the metadata of the connection

vars == <<ranges, len, have, result, closed, sender, read, waiter, host>>

(* WrapperSender, for the first packet of a source. *)
Init ==
    /\ ranges = {} /\ len = 0 /\ have = {}
    /\ result = Nil /\ closed = FALSE
    /\ sender = "idle" /\ read = 0
    /\ waiter = "waiting" /\ host = Nil

(* What Merge yields: the ranges are half-open here, but it is written for  *)
(* closed ones of integers, and gives the longest runs of the offsets in    *)
(* them.  So it joins two ranges between which one offset is missing.       *)
Filled(rs) == UNION {r[1] .. r[2] : r \in rs}
Merge(rs) ==
    {r \in Filled(rs) \X Filled(rs) :
        /\ r[1] <= r[2] /\ r[1] .. r[2] \subseteq Filled(rs)
        /\ r[1] - 1 \notin Filled(rs) /\ r[2] + 1 \notin Filled(rs)}

(* How it goes about it: it sorts, then joins each range with the last one  *)
(* or appends it.                                                           *)
MergeList(rs) ==
    LET s == SortSeq(rs, LAMBDA r, q : r[1] <= q[1])
        Add(merged, r) ==
            IF r[1] > Last(merged)[2] + 1 THEN Append(merged, r)
            ELSE [merged EXCEPT ![Len(merged)][2] = IF r[2] > @ THEN r[2] ELSE @]
    IN FoldLeft(Add, <<Head(s)>>, Tail(s))

(* The two agree on up to three ranges of up to six offsets.                *)
Cuts == {r \in (0 .. 5) \X (0 .. 5) : r[1] < r[2]}
ListsAgree ==
    \A n \in 1 .. 3 : \A rs \in [1 .. n -> Cuts] :
        {MergeList(rs)[i] : i \in 1 .. Len(MergeList(rs))} = Merge({rs[i] : i \in 1 .. n})

CloseLocked == closed' = TRUE /\ ranges' = {} /\ len' = 0 /\ have' = {}

-----------------------------------------------------------------------------
(* Once closed, Send only passes the packet on.                             *)
Send ==
    /\ sender = "idle" /\ ~closed
    /\ sender' = "frames"
    /\ UNCHANGED <<ranges, len, have, result, closed, read, waiter, host>>

(* No initial packet of QUIC, one that cannot be decrypted, or a frame that *)
(* is cut off or not allowed in it.                                         *)
Refuse ==
    /\ sender = "frames"
    /\ sender' = "idle"
    /\ CloseLocked
    /\ UNCHANGED <<result, read, waiter, host>>

(* The wrapper was closed meanwhile.                                        *)
Abandon ==
    /\ sender = "frames" /\ closed
    /\ sender' = "idle"
    /\ UNCHANGED <<ranges, len, have, result, closed, read, waiter, host>>

(* Mutant: the buffer ends with the frame that came last. *)
CryptoCuts(offset, end) ==
    /\ sender = "frames" /\ ~closed /\ read < MaxFrames
    /\ read' = read + 1
    /\ len' = end
    /\ have' = have \cup (offset .. end - 1)
    /\ ranges' = Merge(ranges \cup {<<offset, end>>})
    /\ UNCHANGED <<result, closed, sender, waiter, host>>

Crypto(offset, end) ==
    /\ sender = "frames" /\ ~closed /\ read < MaxFrames
    /\ read' = read + 1
    /\ len' = IF end > len THEN end ELSE len
    /\ have' = have \cup (offset .. end - 1)
    /\ ranges' = Merge(ranges \cup {<<offset, end>>})
    /\ UNCHANGED <<result, closed, sender, waiter, host>>

(* A hello without a name is an error; what stands where no frame has       *)
(* written decides when a byte is missing.                                  *)
ReadClientHello ==
    {"name", "error"} \cup IF have = 0 .. len - 1 THEN {} ELSE {"other"}

Complete == ranges = {<<0, len>>}

(* The header is longer than the buffer, or gives another length.           *)
TooShort ==
    IF {2, 3} \subseteq have THEN {len <= HeaderLen \/ len # Hello}
    ELSE {TRUE, len <= HeaderLen}

TryAssemble ==
    /\ sender = "frames"
    /\ UNCHANGED <<read, waiter, host>>
    /\ \/ /\ closed \/ ~Complete \/ TRUE \in TooShort
          /\ sender' = "idle"
          /\ UNCHANGED <<ranges, len, have, result, closed>>
       \/ /\ ~closed /\ Complete /\ FALSE \in TooShort
          /\ \E domain \in ReadClientHello :
                IF domain = "error" THEN sender' = "idle" /\ CloseLocked /\ UNCHANGED result
                ELSE sender' = domain /\ UNCHANGED <<ranges, len, have, result, closed>>

(* Between the two locks the wrapper may have been closed.                  *)
Assembled ==
    /\ sender \in {"name", "other"}
    /\ result' = sender
    /\ sender' = "idle"
    /\ CloseLocked
    /\ UNCHANGED <<read, waiter, host>>

-----------------------------------------------------------------------------
(* The configuration may forbid to replace the domain by this one.          *)
DoSniff ==
    /\ waiter = "waiting" /\ closed
    /\ waiter' = "done"
    /\ host' \in {result, Nil}
    /\ UNCHANGED <<ranges, len, have, result, closed, sender, read>>

(* quicWaitConn is over.                                                    *)
Expire ==
    /\ waiter = "waiting"
    /\ waiter' = "done"
    /\ CloseLocked
    /\ UNCHANGED <<result, sender, read, host>>

(* The dial has failed, or the relay ends.                                  *)
Close ==
    /\ waiter = "done"
    /\ CloseLocked
    /\ UNCHANGED <<result, sender, read, waiter, host>>

Next ==
    \/ Send \/ Refuse \/ Abandon \/ TryAssemble \/ Assembled
    \/ \E offset, end \in 0 .. Hello : offset < end /\ Crypto(offset, end)
    \/ DoSniff \/ Expire \/ Close

Spec == Init /\ [][Next]_vars

-----------------------------------------------------------------------------
(* However the client cuts its ClientHello into frames, in whatever order   *)
(* and however often they come: once all of it is there and the packet has  *)
(* been read, the wait is over; and only what the sniffer has read gets into*)
(* the metadata.                                                            *)
EveryFragmentCounts ==
    /\ sender = "idle" => have # Offsets
    /\ host # Nil => host = result /\ closed

(* "incomplete fragment, just return": a name is read only when every byte  *)
(* of the ClientHello has been received.                                    *)
NameWasSent == sender \in {"name", "other"} => have = Offsets \/ closed
=============================================================================
