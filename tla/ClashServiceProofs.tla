------------------------- MODULE ClashServiceProofs -------------------------
(***************************************************************************)
(* Proofs about ClashService for any number of children and of steps of    *)
(* the user, when every child prints its pid before it ends.               *)
(*                                                                         *)
(*   OneServedChild    SingleChild, which ClashProcess keeps whoever calls *)
(*   VpnFollowsChild   TunFollowsChild, from SvcInv                        *)
(***************************************************************************)
EXTENDS ClashService, ClashProcessProofs

(* What is in a queue, and where.                                           *)
In(s, x) == \E i \in 1 .. Len(s) : s[i] = x
Between(s, i, k, x) == \E j \in i .. k : s[j] = x
Once(s, x) == \A i, j \in 1 .. Len(s) : s[i] = x /\ s[j] = x => i = j

SvcType ==
    /\ queue \in Seq(Tasks)
    /\ current \in Events
    /\ inbox \in Seq(Callbacks)
    /\ DOMAIN pc = Threads
    /\ tun \in {"none", "binding", "connected", "stopping"}
    /\ fd \in BOOLEAN /\ registered \in BOOLEAN

(* A child that has a pid and does not serve yet is the one start() reads.  *)
NamedInv ==
    \A c \in Children : phase[c] = "named" =>
        /\ c = spawned
        /\ \/ stage = "pid" /\ out[c] = <<"[PID]">>
           \/ stage = "controller" /\ out[c] = <<>>

ClosingInv == \A c \in Children : reader[c] = "closing" => phase[c] = "dead"

(* STARTED is the last event the observers see only while a reader owes them*)
(* a STOPPED.                                                               *)
StartedLast(q, e) ==
    \/ e = "STARTED" /\ ~In(q, "STOPPED")
    \/ \E i \in 1 .. Len(q) : q[i] = "STARTED" /\ ~Between(q, i, Len(q), "STOPPED")

WordInv == StartedLast(queue, current) => Owing # {}

(* The callbacks that wait for a TunService are those its life calls for.   *)
InboxInv ==
    /\ In(inbox, "tunConnected") => tun = "binding"
    /\ In(inbox, "tunDestroy") => tun = "stopping"
    /\ pc["main"] = "tunDestroy" => tun = "stopping" /\ ~In(inbox, "tunDestroy")
    /\ Once(inbox, "tunConnected") /\ Once(inbox, "tunDestroy")

(* Registrations alternate with their ends, and without a connected         *)
(* TunService the end is the last word.                                     *)
Alternate(q, reg) ==
    \A i \in 1 .. Len(q) : q[i] = "REGISTER" =>
        /\ reg => Between(q, 1, i, "UNREGISTER")
        /\ \A k \in i + 1 .. Len(q) :
             q[k] = "REGISTER" => Between(q, i, k, "UNREGISTER")

EndsOff(q, reg) ==
    /\ reg => In(q, "UNREGISTER")
    /\ \A i \in 1 .. Len(q) :
         q[i] = "REGISTER" => Between(q, i, Len(q), "UNREGISTER")

RegInv ==
    /\ Alternate(queue, registered)
    /\ tun \in {"none", "binding"} => EndsOff(queue, registered)

(* The descriptor of a connected TunService is given away exactly by the    *)
(* first STARTED that its own registration lets it hear, unless one before  *)
(* was hidden from it.                                                      *)
FdInv ==
    tun = "connected" =>
        /\ registered /\ ~In(queue, "UNREGISTER") /\ current = "STARTED" /\ hidden = "none" => ~fd
        /\ ~fd => registered /\ ~In(queue, "UNREGISTER")

(* After that a STOPPED is on its way to it, or the child that serves has   *)
(* the descriptor.                                                          *)
Ending == \E c \in Children : \/ reader[c] \in {"closing", "announcing"}
                              \/ reader[c] = "reading" /\ phase[c] = "dead"
Driven == pid \in Serving /\ reader[pid] = "reading" /\ tunDevice = pid

VpnInv ==
    tun = "connected" /\ ~fd /\ hidden = "none" => In(queue, "STOPPED") \/ Ending \/ Driven

ProcessInv == MachineOK /\ LifeInv /\ PipeInv /\ NamedInv /\ ClosingInv
TunInv == SvcType /\ WordInv /\ InboxInv /\ RegInv /\ FdInv /\ VpnInv
SvcInv == ProcessInv /\ TunInv

-----------------------------------------------------------------------------
(* Sequences that grow at their end and are taken from their front.         *)
LEMMA Grown ==
    ASSUME NEW S, NEW s \in Seq(S), NEW e \in S, NEW t, t = Append(s, e)
    PROVE  /\ t \in Seq(S) /\ Len(s) \in Nat /\ Len(t) = Len(s) + 1
           /\ \A i \in 1 .. Len(s) : t[i] = s[i]
           /\ t[Len(s) + 1] = e
BY AppendProperties

LEMMA Shrunk ==
    ASSUME NEW S, NEW s \in Seq(S), s # <<>>, NEW t, t = Tail(s)
    PROVE  /\ t \in Seq(S) /\ Len(s) \in Nat \ {0} /\ Len(t) = Len(s) - 1
           /\ Head(s) = s[1] /\ Head(s) \in S
           /\ \A i \in 1 .. Len(t) : t[i] = s[i + 1]
BY HeadTailProperties, EmptySeq

LEMMA InGrown ==
    ASSUME NEW S, NEW s \in Seq(S), NEW e \in S, NEW t, t = Append(s, e), NEW x
    PROVE  In(t, x) <=> In(s, x) \/ e = x
<1>1. /\ Len(s) \in Nat /\ Len(t) = Len(s) + 1
      /\ \A i \in 1 .. Len(s) : t[i] = s[i]
      /\ t[Len(s) + 1] = e
    BY Grown
<1>2. QED
    BY <1>1 DEF In

LEMMA InShrunk ==
    ASSUME NEW S, NEW s \in Seq(S), s # <<>>, NEW t, t = Tail(s), NEW x
    PROVE  In(s, x) <=> In(t, x) \/ Head(s) = x
<1>1. /\ Len(s) \in Nat \ {0} /\ Len(t) = Len(s) - 1
      /\ Head(s) = s[1]
      /\ \A i \in 1 .. Len(t) : t[i] = s[i + 1]
    BY Shrunk
<1>2. ASSUME NEW i \in 1 .. Len(s), s[i] = x PROVE In(t, x) \/ Head(s) = x
    <2>1. CASE i = 1
        BY <1>1, <1>2, <2>1
    <2>2. CASE i # 1
        <3>1. i - 1 \in 1 .. Len(t) /\ (i - 1) + 1 = i
            BY <1>1, <2>2
        <3>2. t[i - 1] = x
            BY <1>1, <1>2, <3>1
        <3>3. QED
            BY <3>1, <3>2 DEF In
    <2>3. QED
        BY <2>1, <2>2
<1>3. ASSUME NEW i \in 1 .. Len(t), t[i] = x PROVE In(s, x)
    <2>1. i + 1 \in 1 .. Len(s) /\ s[i + 1] = x
        BY <1>1, <1>3
    <2>2. QED
        BY <2>1 DEF In
<1>4. Head(s) = x => In(s, x)
    BY <1>1 DEF In
<1>5. QED
    BY <1>2, <1>3, <1>4 DEF In

LEMMA OnceGrown ==
    ASSUME NEW S, NEW s \in Seq(S), NEW e \in S, NEW t, t = Append(s, e), NEW x,
           Once(s, x), e = x => ~In(s, x)
    PROVE  Once(t, x)
<1>1. /\ Len(s) \in Nat /\ Len(t) = Len(s) + 1
      /\ \A i \in 1 .. Len(s) : t[i] = s[i]
      /\ t[Len(s) + 1] = e
    BY Grown
<1>2. ASSUME NEW i \in 1 .. Len(t), NEW j \in 1 .. Len(t), t[i] = x, t[j] = x
      PROVE  i = j
    <2>1. CASE i \in 1 .. Len(s) /\ j \in 1 .. Len(s)
        BY <1>1, <1>2, <2>1 DEF Once
    <2>2. CASE i \notin 1 .. Len(s) /\ j \notin 1 .. Len(s)
        BY <1>1, <2>2
    <2>3. CASE i \in 1 .. Len(s) /\ j \notin 1 .. Len(s)
        BY <1>1, <1>2, <2>3 DEF In
    <2>4. CASE i \notin 1 .. Len(s) /\ j \in 1 .. Len(s)
        BY <1>1, <1>2, <2>4 DEF In
    <2>5. QED
        BY <2>1, <2>2, <2>3, <2>4
<1>3. QED
    BY <1>2 DEF Once

LEMMA OnceShrunk ==
    ASSUME NEW S, NEW s \in Seq(S), s # <<>>, NEW t, t = Tail(s), NEW x, Once(s, x)
    PROVE  Once(t, x) /\ (Head(s) = x => ~In(t, x))
<1>1. /\ Len(s) \in Nat \ {0} /\ Len(t) = Len(s) - 1
      /\ Head(s) = s[1]
      /\ \A i \in 1 .. Len(t) : t[i] = s[i + 1]
    BY Shrunk
<1>2. \A i \in 1 .. Len(t) : i + 1 \in 1 .. Len(s)
    BY <1>1
<1>3. ASSUME NEW i \in 1 .. Len(t), NEW j \in 1 .. Len(t), t[i] = x, t[j] = x
      PROVE  i = j
    <2>1. i + 1 = j + 1
        BY <1>1, <1>2, <1>3 DEF Once
    <2>2. QED
        BY <2>1
<1>4. ASSUME Head(s) = x, NEW i \in 1 .. Len(t), t[i] = x PROVE FALSE
    <2>1. 1 \in 1 .. Len(s) /\ i + 1 \in 1 .. Len(s) /\ i + 1 # 1
        BY <1>1, <1>2
    <2>2. QED
        BY <1>1, <1>4, <2>1 DEF Once
<1>5. QED
    BY <1>3, <1>4 DEF Once, In

-----------------------------------------------------------------------------
(* Registrations in a queue. *)
LEMMA AlternateGrown ==
    ASSUME NEW S, NEW s \in Seq(S), NEW e \in S, NEW t, t = Append(s, e), NEW reg,
           Alternate(s, reg), e = "REGISTER" => EndsOff(s, reg)
    PROVE  Alternate(t, reg)
<1>1. /\ Len(s) \in Nat /\ Len(t) = Len(s) + 1
      /\ \A i \in 1 .. Len(s) : t[i] = s[i]
      /\ t[Len(s) + 1] = e
    BY Grown
<1>2. ASSUME NEW i \in 1 .. Len(s), NEW k \in i .. Len(s),
             Between(s, i, k, "UNREGISTER"), NEW l \in k .. Len(t)
      PROVE  Between(t, i, l, "UNREGISTER")
    BY <1>1, <1>2 DEF Between
<1>3. ASSUME NEW i \in 1 .. Len(t), t[i] = "REGISTER", reg
      PROVE  Between(t, 1, i, "UNREGISTER")
    <2>1. CASE i \in 1 .. Len(s)
        BY <1>1, <1>3, <2>1 DEF Alternate, Between
    <2>2. CASE i = Len(s) + 1
        <3>1. In(s, "UNREGISTER")
            BY <1>1, <1>3, <2>2 DEF EndsOff
        <3>2. QED
            BY <1>1, <2>2, <3>1 DEF In, Between
    <2>3. QED
        BY <1>1, <2>1, <2>2
<1>4. ASSUME NEW i \in 1 .. Len(t), t[i] = "REGISTER",
             NEW k \in i + 1 .. Len(t), t[k] = "REGISTER"
      PROVE  Between(t, i, k, "UNREGISTER")
    <2>1. i \in 1 .. Len(s) /\ s[i] = "REGISTER"
        BY <1>1, <1>4
    <2>2. CASE k \in 1 .. Len(s)
        <3>1. k \in i + 1 .. Len(s) /\ s[k] = "REGISTER"
            BY <1>1, <1>4, <2>2
        <3>2. Between(s, i, k, "UNREGISTER")
            BY <2>1, <3>1 DEF Alternate
        <3>3. QED
            BY <1>2, <2>1, <3>1, <3>2, <1>1
    <2>3. CASE k = Len(s) + 1
        <3>1. Between(s, i, Len(s), "UNREGISTER")
            BY <1>1, <1>4, <2>1, <2>3 DEF EndsOff
        <3>2. Len(s) \in i .. Len(s) /\ k \in Len(s) .. Len(t)
            BY <1>1, <2>1, <2>3
        <3>3. QED
            BY <1>2, <2>1, <3>1, <3>2
    <2>4. QED
        BY <1>1, <1>4, <2>2, <2>3
<1>5. QED
    BY <1>3, <1>4 DEF Alternate

LEMMA EndsOffGrown ==
    ASSUME NEW S, NEW s \in Seq(S), NEW e \in S, NEW t, t = Append(s, e), NEW reg,
           e = "UNREGISTER" \/ (e # "REGISTER" /\ EndsOff(s, reg))
    PROVE  EndsOff(t, reg)
<1>1. /\ Len(s) \in Nat /\ Len(t) = Len(s) + 1
      /\ \A i \in 1 .. Len(s) : t[i] = s[i]
      /\ t[Len(s) + 1] = e
    BY Grown
<1>2. CASE e = "UNREGISTER"
    BY <1>1, <1>2 DEF EndsOff, In, Between
<1>3. CASE e # "REGISTER" /\ EndsOff(s, reg)
    <2>1. reg => In(t, "UNREGISTER")
        BY <1>1, <1>3 DEF EndsOff, In
    <2>2. ASSUME NEW i \in 1 .. Len(t), t[i] = "REGISTER"
          PROVE  Between(t, i, Len(t), "UNREGISTER")
        <3>1. i \in 1 .. Len(s) /\ s[i] = "REGISTER"
            BY <1>1, <1>3, <2>2
        <3>2. Between(s, i, Len(s), "UNREGISTER")
            BY <1>3, <3>1 DEF EndsOff
        <3>3. QED
            BY <1>1, <3>1, <3>2 DEF Between
    <2>3. QED
        BY <2>1, <2>2 DEF EndsOff
<1>4. QED
    BY <1>2, <1>3

(* Is the TunService an observer after a task? *)
After(reg, x) == IF x = "REGISTER" THEN TRUE
                 ELSE IF x = "UNREGISTER" THEN FALSE ELSE reg

LEMMA BetweenShrunk ==
    ASSUME NEW S, NEW s \in Seq(S), s # <<>>, NEW t, t = Tail(s), NEW x,
           NEW i \in 1 .. Len(s), NEW k \in 1 .. Len(s),
           Between(s, i, k, x), i > 1 \/ Head(s) # x
    PROVE  Between(t, IF i = 1 THEN 1 ELSE i - 1, k - 1, x)
<1>1. /\ Len(s) \in Nat \ {0} /\ Len(t) = Len(s) - 1
      /\ Head(s) = s[1]
      /\ \A j \in 1 .. Len(t) : t[j] = s[j + 1]
    BY Shrunk
<1>2. PICK j \in i .. k : s[j] = x
    BY DEF Between
<1>3. j # 1
    BY <1>1, <1>2
<1>4. j - 1 \in 1 .. Len(t) /\ (j - 1) + 1 = j
    BY <1>1, <1>2, <1>3
<1>5. t[j - 1] = x
    BY <1>1, <1>2, <1>4
<1>6. j - 1 \in (IF i = 1 THEN 1 ELSE i - 1) .. (k - 1)
    BY <1>1, <1>3, <1>4
<1>7. QED
    BY <1>5, <1>6 DEF Between

LEMMA AlternateShrunk ==
    ASSUME NEW S, NEW s \in Seq(S), s # <<>>, NEW t, t = Tail(s), NEW reg \in BOOLEAN,
           Alternate(s, reg)
    PROVE  /\ Alternate(t, After(reg, Head(s)))
           /\ Head(s) = "REGISTER" => ~reg
<1>1. /\ Len(s) \in Nat \ {0} /\ Len(t) = Len(s) - 1
      /\ Head(s) = s[1]
      /\ \A j \in 1 .. Len(t) : t[j] = s[j + 1]
      /\ \A j \in 1 .. Len(t) : j + 1 \in 1 .. Len(s)
    BY Shrunk
<1>2. Head(s) = "REGISTER" => ~reg
    BY <1>1 DEF Alternate, Between
<1>3. ASSUME NEW i \in 1 .. Len(t), t[i] = "REGISTER", After(reg, Head(s))
      PROVE  Between(t, 1, i, "UNREGISTER")
    <2>1. i + 1 \in 1 .. Len(s) /\ s[i + 1] = "REGISTER" /\ (i + 1) - 1 = i
        BY <1>1, <1>3
    <2>2. 1 \in 1 .. Len(s) /\ Head(s) # "UNREGISTER"
        BY <1>1, <1>3 DEF After
    <2>3. Between(s, 1, i + 1, "UNREGISTER")
        <3>1. CASE Head(s) = "REGISTER"
            <4>1. i + 1 \in 1 + 1 .. Len(s) /\ s[1] = "REGISTER"
                BY <1>1, <3>1
            <4>2. QED
                BY <2>1, <2>2, <4>1 DEF Alternate
        <3>2. CASE Head(s) # "REGISTER"
            BY <1>3, <2>1, <3>2 DEF Alternate, After
        <3>3. QED
            BY <3>1, <3>2
    <2>4. QED
        BY <2>1, <2>2, <2>3, BetweenShrunk
<1>4. ASSUME NEW i \in 1 .. Len(t), t[i] = "REGISTER",
             NEW k \in i + 1 .. Len(t), t[k] = "REGISTER"
      PROVE  Between(t, i, k, "UNREGISTER")
    <2>1. /\ i + 1 \in 1 .. Len(s) /\ s[i + 1] = "REGISTER"
          /\ k \in 1 .. Len(t) /\ k + 1 \in (i + 1) + 1 .. Len(s)
          /\ i + 1 > 1 /\ i + 1 # 1 /\ (i + 1) - 1 = i /\ (k + 1) - 1 = k
          /\ k + 1 \in 1 .. Len(s)
        BY <1>1, <1>4
    <2>2. s[k + 1] = "REGISTER"
        BY <1>1, <1>4, <2>1
    <2>3. Between(s, i + 1, k + 1, "UNREGISTER")
        BY <2>1, <2>2 DEF Alternate
    <2>4. Between(t, IF i + 1 = 1 THEN 1 ELSE (i + 1) - 1, (k + 1) - 1, "UNREGISTER")
        BY <2>1, <2>3, BetweenShrunk
    <2>5. QED
        BY <2>1, <2>4
<1>5. QED
    BY <1>2, <1>3, <1>4 DEF Alternate

LEMMA EndsOffShrunk ==
    ASSUME NEW S, NEW s \in Seq(S), s # <<>>, NEW t, t = Tail(s), NEW reg,
           EndsOff(s, reg)
    PROVE  EndsOff(t, After(reg, Head(s)))
<1>1. /\ Len(s) \in Nat \ {0} /\ Len(t) = Len(s) - 1
      /\ Head(s) = s[1]
      /\ \A j \in 1 .. Len(t) : t[j] = s[j + 1]
      /\ \A j \in 1 .. Len(t) : j + 1 \in 1 .. Len(s)
    BY Shrunk
<1>2. ASSUME After(reg, Head(s)) PROVE In(t, "UNREGISTER")
    <2>1. Head(s) # "UNREGISTER"
        BY <1>2 DEF After
    <2>2. In(s, "UNREGISTER")
        BY <1>1, <1>2, <2>1 DEF EndsOff, After, In, Between
    <2>3. QED
        BY <2>1, <2>2, InShrunk
<1>3. ASSUME NEW i \in 1 .. Len(t), t[i] = "REGISTER"
      PROVE  Between(t, i, Len(t), "UNREGISTER")
    <2>1. /\ i + 1 \in 1 .. Len(s) /\ s[i + 1] = "REGISTER"
          /\ i + 1 > 1 /\ i + 1 # 1 /\ (i + 1) - 1 = i /\ Len(s) \in 1 .. Len(s)
        BY <1>1, <1>3
    <2>2. Between(s, i + 1, Len(s), "UNREGISTER")
        BY <2>1 DEF EndsOff
    <2>3. Between(t, IF i + 1 = 1 THEN 1 ELSE (i + 1) - 1, Len(s) - 1, "UNREGISTER")
        BY <2>1, <2>2, BetweenShrunk
    <2>4. QED
        BY <1>1, <2>1, <2>3
<1>4. QED
    BY <1>2, <1>3 DEF EndsOff

-----------------------------------------------------------------------------
(* Events in a queue. *)
LEMMA WordGrown ==
    ASSUME NEW S, NEW s \in Seq(S), NEW e \in S, NEW t, t = Append(s, e), NEW x,
           e # "STARTED"
    PROVE  StartedLast(t, x) => StartedLast(s, x)
<1>1. /\ Len(s) \in Nat /\ Len(t) = Len(s) + 1
      /\ \A i \in 1 .. Len(s) : t[i] = s[i]
      /\ t[Len(s) + 1] = e
    BY Grown
<1>2. CASE x = "STARTED" /\ ~In(t, "STOPPED")
    BY <1>2, InGrown DEF StartedLast
<1>3. ASSUME NEW i \in 1 .. Len(t), t[i] = "STARTED",
             ~Between(t, i, Len(t), "STOPPED")
      PROVE  StartedLast(s, x)
    <2>1. i \in 1 .. Len(s) /\ s[i] = "STARTED"
        BY <1>1, <1>3
    <2>2. ~Between(s, i, Len(s), "STOPPED")
        BY <1>1, <1>3, <2>1 DEF Between
    <2>3. QED
        BY <2>1, <2>2 DEF StartedLast
<1>4. QED
    BY <1>2, <1>3 DEF StartedLast

LEMMA WordStopped ==
    ASSUME NEW S, NEW s \in Seq(S), "STOPPED" \in S, NEW t, t = Append(s, "STOPPED"),
           NEW x
    PROVE  ~StartedLast(t, x)
<1>1. /\ Len(s) \in Nat /\ Len(t) = Len(s) + 1
      /\ \A i \in 1 .. Len(s) : t[i] = s[i]
      /\ t[Len(s) + 1] = "STOPPED"
    BY Grown
<1>2. QED
    BY <1>1 DEF StartedLast, In, Between

LEMMA WordShrunk ==
    ASSUME NEW S, NEW s \in Seq(S), s # <<>>, NEW t, t = Tail(s), NEW x, NEW y,
           y = IF Head(s) \in Events THEN Head(s) ELSE x, StartedLast(t, y)
    PROVE  StartedLast(s, x)
<1>1. /\ Len(s) \in Nat \ {0} /\ Len(t) = Len(s) - 1
      /\ Head(s) = s[1]
      /\ \A j \in 1 .. Len(t) : t[j] = s[j + 1]
      /\ \A j \in 1 .. Len(t) : j + 1 \in 1 .. Len(s)
      /\ \A j \in 1 .. Len(s) : j = 1 \/ (j - 1 \in 1 .. Len(t) /\ (j - 1) + 1 = j)
    BY Shrunk
<1>2. CASE y = "STARTED" /\ ~In(t, "STOPPED")
    <2>1. CASE Head(s) = "STARTED"
        <3>1. ~In(s, "STOPPED")
            BY <1>2, <2>1, InShrunk
        <3>2. 1 \in 1 .. Len(s) /\ s[1] = "STARTED"
            BY <1>1, <2>1
        <3>3. ~Between(s, 1, Len(s), "STOPPED")
            BY <3>1 DEF In, Between
        <3>4. QED
            BY <3>2, <3>3 DEF StartedLast
    <2>2. CASE Head(s) \notin Events
        <3>1. ~In(s, "STOPPED")
            BY <1>2, <2>2, InShrunk, EventNames
        <3>2. QED
            BY <1>2, <2>2, <3>1 DEF StartedLast
    <2>3. QED
        BY <1>2, <2>1, <2>2
<1>3. ASSUME NEW i \in 1 .. Len(t), t[i] = "STARTED",
             ~Between(t, i, Len(t), "STOPPED")
      PROVE  StartedLast(s, x)
    <2>1. i + 1 \in 1 .. Len(s) /\ s[i + 1] = "STARTED"
        BY <1>1, <1>3
    <2>2. ASSUME NEW j \in i + 1 .. Len(s), s[j] = "STOPPED" PROVE FALSE
        <3>1. j - 1 \in i .. Len(t) /\ t[j - 1] = "STOPPED"
            BY <1>1, <2>1, <2>2
        <3>2. QED
            BY <1>3, <3>1 DEF Between
    <2>3. QED
        BY <2>1, <2>2 DEF StartedLast, Between
<1>4. QED
    BY <1>2, <1>3 DEF StartedLast

-----------------------------------------------------------------------------
(* The process inside the app. *)
LEMMA SvcMoves ==
    ASSUME [SvcNext]_svcVars
    PROVE  Moves
<1> USE DEF vars, machineVars, processVars, monitorVars, childVars, eventVars
<1> HIDE DEF monitorVars, childVars
<1>0. /\ "main" \in Callers /\ "handler" \in Callers
      /\ "loader" \in Callers /\ "binder" \in Callers
    BY ThreadsAssumption DEF Threads
<1>1. CASE UNCHANGED machineVars
    BY <1>1 DEF Moves
<1>2. ASSUME NEW t \in {"main", "handler"}, CallStart(t) PROVE Moves
    BY <1>0, <1>1, <1>2 DEF CallStart, Moves
<1>3. CASE InStart \/ Background
    BY <1>3 DEF InStart, Background, Moves
<1>4. CASE Handle
    BY <1>1, <1>4 DEF Handle, PerformProcessEvent, Created, RegisterEventObserver,
                      UnregisterEventObserver, ProfileChanged, Take
<1>5. ASSUME NEW t, Stop(t) PROVE Moves
    BY <1>5 DEF Stop, Kill, Moves
<1>6. CASE Loader
    BY <1>1, <1>5, <1>6 DEF Loader, ReloadCheck, ReloadQuery, ReloadLoad, ReloadStop
<1>7. CASE Main
    <2>1. CASE OnStartCommand \/ TunConnected \/ TunDestroy \/ OnDestroy
        BY <1>1, <2>1 DEF OnStartCommand, TunConnected, TunDestroy, OnDestroy, Callback
    <2>2. CASE TunDestroyed
        BY <2>2 DEF TunDestroyed, Kill, Moves
    <2>3. CASE Destroyed
        BY <1>5, <2>3 DEF Destroyed
    <2>4. QED
        BY <1>7, <2>1, <2>2, <2>3 DEF Main
<1>8. CASE BringDown \/ User \/ Watch \/ UiDies \/ Unwatch
    BY <1>1, <1>5, <1>8 DEF BringDown, User, Bind, Watch, UiDies, Unwatch, StartClashService,
                            StartTunService, Revoke, UserStop, UserChange
<1>9. CASE UNCHANGED svcVars
    BY <1>1, <1>9 DEF svcVars
<1>10. QED
    BY <1>2, <1>3, <1>4, <1>6, <1>7, <1>8, <1>9 DEF SvcNext, Does, Work

(* A child that is killed, or a reader that closes one, only ends lives. *)
LEMMA Ended ==
    ASSUME MachineOK, NEW c, Killed(c)
    PROVE  \A d \in Children : phase'[d] = phase[d] \/ phase'[d] = "dead"
BY DEF Killed, MachineOK

LEMMA NamedStep ==
    ASSUME ~MayFailEarly, MachineOK, LifeInv, PipeInv, NamedInv, Moves
    PROVE  NamedInv'
<1> USE DEF monitorVars, childVars
<1>1. ASSUME NEW t \in Callers, StartEnter(t) PROVE NamedInv'
    BY <1>1 DEF StartEnter, NamedInv, LifeInv
<1>2. ASSUME NEW c, Killed(c), lock = NoThread PROVE NamedInv'
    BY <1>2, Ended DEF NamedInv, LifeInv
<1>3. ASSUME UNCHANGED phase, stage = "spawn" \/ stage = "free" PROVE NamedInv'
    BY <1>3 DEF NamedInv
<1>4. CASE Spawn
    BY <1>4 DEF Spawn, NamedInv, MachineOK
<1>5. CASE ReadPidLine
    <2>1. /\ stage = "pid" /\ stage' = "controller" /\ spawned \in Children
          /\ out' = [out EXCEPT ![spawned] = Tail(@)]
          /\ UNCHANGED <<spawned, phase>>
        BY <1>5 DEF ReadPidLine, PipeInv, TakeLine, LifeInv
    <2>2. Tail(<<"[PID]">>) = <<>>
        OBVIOUS
    <2>3. out'[spawned] = Tail(out[spawned])
        BY <2>1 DEF MachineOK
    <2>4. QED
        BY <2>1, <2>2, <2>3 DEF NamedInv
<1>6. ASSUME stage = "controller" \/ stage = "pid",
             (out[spawned] # <<>> /\ stage = "controller") \/ phase[spawned] = "dead",
             UNCHANGED phase
      PROVE  NamedInv'
    BY <1>6 DEF NamedInv
<1>7. CASE ReadPidEOF
    BY <1>6, <1>7 DEF ReadPidEOF, EOF
<1>8. CASE ReadControllerLine
    BY <1>6, <1>8 DEF ReadControllerLine, Commit
<1>9. CASE ReadControllerEOF
    BY <1>6, <1>9 DEF ReadControllerEOF, Commit, EOF
<1>10. ASSUME NEW c \in Children, ReaderEOF(c) PROVE NamedInv'
    BY <1>10 DEF ReaderEOF, NamedInv, MachineOK
<1>11. ASSUME NEW c \in Children, ChildPrintsPid(c) PROVE NamedInv'
    <2>1. /\ stage = "pid" /\ c = spawned /\ out[c] = <<>> /\ phase[c] = "booting"
          /\ UNCHANGED <<stage, spawned>>
          /\ phase' = [phase EXCEPT ![c] = "named"]
          /\ out' = [out EXCEPT ![c] = Append(@, "[PID]")]
        BY <1>11 DEF ChildPrintsPid, PipeInv
    <2>2. out'[c] = <<"[PID]">>
        BY <2>1 DEF MachineOK
    <2>3. \A d \in Children : phase'[d] = "named" => d = c \/ phase[d] = "named"
        BY <2>1 DEF MachineOK
    <2>4. QED
        BY <2>1, <2>2, <2>3 DEF NamedInv
<1>12. ASSUME NEW c \in Children, ChildServes(c) PROVE NamedInv'
    <2>1. \A d \in Children : phase'[d] = "named" => phase[d] = "named" /\ d # c
        BY <1>12 DEF ChildServes, MachineOK
    <2>2. phase[c] = "named"
        BY <1>12 DEF ChildServes
    <2>3. QED
        BY <2>1, <2>2 DEF NamedInv
<1>13. ASSUME NEW c \in Children, ChildDies(c) PROVE NamedInv'
    BY <1>13 DEF ChildDies, NamedInv, MachineOK
<1>14. CASE UNCHANGED <<stage, spawned, phase, out>>
    BY <1>14 DEF NamedInv
<1>15. ASSUME NEW c \in Children, ReaderStep(c) \/ ChildStep(c) PROVE NamedInv'
    <2>1. CASE ReaderClose(c)
        BY <1>2, <2>1 DEF ReaderClose
    <2>2. CASE ReaderAnnounce(c)
        BY <1>14, <2>2 DEF ReaderAnnounce
    <2>3. QED
        BY <1>10, <1>11, <1>12, <1>13, <1>15, <2>1, <2>2
           DEF ReaderStep, ChildStep, ChildFails
<1>16. QED
    BY <1>1, <1>2, <1>3, <1>4, <1>5, <1>7, <1>8, <1>9, <1>14, <1>15
       DEF Moves, Kill, StartStep, SpawnFail, machineVars

LEMMA ClosingStep ==
    ASSUME MachineOK, LifeInv, ClosingInv, Moves
    PROVE  ClosingInv'
<1> USE DEF monitorVars, childVars
<1>1. ASSUME NEW c, Killed(c),
             \A d \in Children : reader'[d] = "closing" => reader[d] = "closing"
      PROVE  ClosingInv'
    BY <1>1, Ended DEF ClosingInv
<1>2. CASE UNCHANGED <<phase, reader>>
    BY <1>2 DEF ClosingInv
<1>3. CASE Spawn
    <2>1. \A c \in Children : phase[c] = "dead" => phase'[c] = "dead"
        BY <1>3 DEF Spawn, LifeInv, MachineOK
    <2>2. QED
        BY <1>3, <2>1 DEF Spawn, ClosingInv
<1>4. CASE Commit
    BY <1>4 DEF Commit, ClosingInv, MachineOK
<1>5. ASSUME NEW c \in Children, ReaderStep(c) PROVE ClosingInv'
    <2>1. CASE ReaderEOF(c)
        BY <2>1 DEF ReaderEOF, ClosingInv, MachineOK
    <2>2. CASE ReaderClose(c)
        BY <1>1, <2>2 DEF ReaderClose, MachineOK
    <2>3. CASE ReaderAnnounce(c)
        BY <2>3 DEF ReaderAnnounce, ClosingInv, MachineOK
    <2>4. QED
        BY <1>5, <2>1, <2>2, <2>3 DEF ReaderStep
<1>6. ASSUME NEW c \in Children, ChildStep(c) PROVE ClosingInv'
    BY <1>6 DEF ChildStep, ChildFails, ChildPrintsPid, ChildServes, ChildDies,
                ClosingInv, MachineOK, Alive
<1>7. QED
    BY <1>1, <1>2, <1>3, <1>4, <1>5, <1>6
       DEF Moves, Kill, StartStep, StartEnter, SpawnFail, ReadPidLine, ReadPidEOF,
           ReadControllerLine, ReadControllerEOF, machineVars

LEMMA ProcessStep == ~MayFailEarly /\ ProcessInv /\ [SvcNext]_svcVars => ProcessInv'
<1> SUFFICES ASSUME ~MayFailEarly, ProcessInv, [SvcNext]_svcVars PROVE ProcessInv'
    OBVIOUS
<1>1. Moves /\ MachineOK /\ LifeInv /\ PipeInv /\ NamedInv /\ ClosingInv
    BY SvcMoves DEF ProcessInv
<1>2. MachineOK' /\ LifeInv' /\ PipeInv'
    BY <1>1, MachineStep, LifeStep, PipeStep
<1>3. NamedInv' /\ ClosingInv'
    BY <1>1, NamedStep, ClosingStep
<1>4. QED
    BY <1>2, <1>3 DEF ProcessInv

LEMMA ProcessInit == SvcInit => ProcessInv
BY BoundsAssumption, CallersAssumption
   DEF SvcInit, ProcessInv, MachineOK, LifeInv, PipeInv, NamedInv, ClosingInv,
       NoError, Alive, Children, Phases, Readers

(* One child at a time in the running app, although the main thread, the    *)
(* event handler, the loader and binder threads all start and stop it       *)
(* (ClashProcess.kt:29).                                                    *)
THEOREM OneServedChild == ~MayFailEarly => (SvcSpec => []SingleChild)
<1> SUFFICES ASSUME ~MayFailEarly PROVE SvcSpec => []SingleChild
    OBVIOUS
<1>1. ProcessInv => SingleChild
    BY PipeIsSingle DEF ProcessInv
<1>2. ProcessInv /\ [SvcNext]_svcVars => ProcessInv'
    BY ProcessStep
<1>3. QED
    BY <1>1, <1>2, ProcessInit, PTL DEF SvcSpec

-----------------------------------------------------------------------------
(* What the children and their readers do to the debts to the observers.    *)
LEMMA OwingStays ==
    ASSUME MachineOK, LifeInv, Moves, Owing # {}
    PROVE  Owing' # {} \/ \E c \in Children : ReaderAnnounce(c)
<1> USE DEF monitorVars, childVars
<1>1. CASE UNCHANGED reader
    BY <1>1 DEF Owing
<1>2. CASE Commit /\ stage = "controller"
    <2>1. spawned \in Owing'
        BY <1>2 DEF Commit, Owing, LifeInv, MachineOK
    <2>2. QED
        BY <2>1
<1>3. ASSUME NEW c \in Children, ReaderEOF(c) \/ ReaderClose(c) PROVE Owing' # {}
    <2>1. c \in Owing'
        BY <1>3 DEF ReaderEOF, ReaderClose, Owing, MachineOK
    <2>2. QED
        BY <2>1
<1>4. QED
    BY <1>1, <1>2, <1>3
       DEF Moves, Kill, StartStep, StartEnter, Spawn, SpawnFail, ReadPidLine,
           ReadPidEOF, ReadControllerLine, ReadControllerEOF, machineVars,
           ReaderStep, ChildStep, ChildFails, ChildPrintsPid, ChildServes, ChildDies

LEMMA EndingStays ==
    ASSUME MachineOK, LifeInv, Moves, Ending
    PROVE  Ending' \/ \E c \in Children : ReaderAnnounce(c)
<1> USE DEF monitorVars, childVars
<1>1. ASSUME \A c \in Children :
               /\ reader'[c] = reader[c] \/ reader'[c] \in {"closing", "announcing"}
                                        \/ reader[c] = "none"
               /\ phase[c] = "dead" => phase'[c] = "dead"
      PROVE  Ending'
    BY <1>1 DEF Ending
<1>2. ASSUME NEW c, Killed(c),
             \A d \in Children :
               reader'[d] = reader[d] \/ reader'[d] \in {"closing", "announcing"}
      PROVE  Ending'
    BY <1>1, <1>2, Ended
<1>3. CASE UNCHANGED <<phase, reader>>
    BY <1>1, <1>3
<1>4. CASE Spawn
    <2>1. \A c \in Children : phase[c] = "dead" => phase'[c] = "dead"
        BY <1>4 DEF Spawn, LifeInv, MachineOK
    <2>2. QED
        BY <1>1, <1>4, <2>1 DEF Spawn
<1>5. CASE Commit /\ stage = "controller"
    <2>1. \A c \in Children : reader'[c] = reader[c] \/ reader[c] = "none"
        BY <1>5 DEF Commit, LifeInv, MachineOK
    <2>2. QED
        BY <1>1, <1>5, <2>1 DEF Commit
<1>6. ASSUME NEW c \in Children, ReaderEOF(c) PROVE Ending'
    BY <1>1, <1>6 DEF ReaderEOF, MachineOK
<1>7. ASSUME NEW c \in Children, ReaderClose(c) PROVE Ending'
    BY <1>2, <1>7 DEF ReaderClose, MachineOK
<1>8. ASSUME NEW c \in Children, ChildStep(c) PROVE Ending'
    <2>1. \A d \in Children : phase[d] = "dead" => phase'[d] = "dead"
        BY <1>8 DEF ChildStep, ChildFails, ChildPrintsPid, ChildServes, ChildDies,
                    MachineOK
    <2>2. UNCHANGED reader
        BY <1>8 DEF ChildStep, ChildFails, ChildPrintsPid, ChildServes, ChildDies
    <2>3. QED
        BY <1>1, <2>1, <2>2
<1>9. QED
    BY <1>2, <1>3, <1>4, <1>5, <1>6, <1>7, <1>8
       DEF Moves, Kill, StartStep, StartEnter, SpawnFail, ReadPidLine,
           ReadPidEOF, ReadControllerLine, ReadControllerEOF, machineVars, ReaderStep

(* The child that has the tun device keeps it until its end is announced.   *)
LEMMA DrivenStays ==
    ASSUME MachineOK, LifeInv, PipeInv, ClosingInv, Moves, Driven, UNCHANGED tunDevice
    PROVE  Driven' \/ Ending'
<1> USE DEF monitorVars, childVars
<1>0. /\ pid \in Children /\ phase[pid] = "serving" /\ reader[pid] = "reading"
      /\ stage = "free" /\ lock = NoThread
    BY BoundsAssumption DEF Driven, Serving, LifeInv, MachineOK, Children
<1>1. ASSUME UNCHANGED pid, UNCHANGED reader,
             phase'[pid] = "serving" \/ phase'[pid] = "dead"
      PROVE  Driven' \/ Ending'
    BY <1>0, <1>1 DEF Driven, Ending, Serving
<1>2. CASE UNCHANGED <<pid, reader, phase>>
    BY <1>0, <1>1, <1>2
<1>3. CASE Kill
    BY <1>0, <1>1, <1>3, Ended DEF Kill
<1>4. CASE StartStep
    BY <1>0, <1>4 DEF StartStep, SpawnFail, Spawn, ReadPidLine, ReadPidEOF,
                      ReadControllerLine, ReadControllerEOF
<1>5. ASSUME NEW c \in Children, ReaderEOF(c) PROVE Driven' \/ Ending'
    BY <1>5 DEF ReaderEOF, Ending, MachineOK
<1>6. ASSUME NEW c \in Children, ReaderClose(c) PROVE Driven' \/ Ending'
    BY <1>6 DEF ReaderClose, Ending, MachineOK
<1>7. ASSUME NEW c \in Children, ReaderAnnounce(c) PROVE Driven' \/ Ending'
    <2>1. c # pid
        BY <1>0, <1>7 DEF ReaderAnnounce
    <2>2. QED
        BY <1>0, <1>7, <2>1 DEF ReaderAnnounce, Driven, Serving, MachineOK
<1>8. ASSUME NEW c \in Children, ChildStep(c) PROVE Driven' \/ Ending'
    <2>1. phase'[pid] = "serving" \/ phase'[pid] = "dead"
        BY <1>0, <1>8 DEF ChildStep, ChildFails, ChildPrintsPid, ChildServes,
                          ChildDies, MachineOK
    <2>2. QED
        BY <1>1, <1>8, <2>1
           DEF ChildStep, ChildFails, ChildPrintsPid, ChildServes, ChildDies
<1>9. QED
    BY <1>2, <1>3, <1>4, <1>5, <1>6, <1>7, <1>8
       DEF Moves, StartEnter, machineVars, ReaderStep

(* A debt that nobody pays yet is that of the one child, which serves.      *)
LEMMA OwedByServing ==
    ASSUME ProcessInv, Owing # {}, ~Ending
    PROVE  pid \in Serving /\ reader[pid] = "reading" /\ Serving = {pid}
<1>1. PICK c \in Children : reader[c] = "reading" /\ phase[c] # "dead"
    BY DEF Owing, Ending
<1>2. pid = c /\ c \in Children
    BY <1>1 DEF ProcessInv, PipeInv
<1>3. phase[c] = "serving"
    <2>1. phase[c] \in Phases
        BY <1>2 DEF ProcessInv, MachineOK
    <2>2. phase[c] # "none"
        BY <1>1 DEF ProcessInv, LifeInv
    <2>3. phase[c] # "booting"
        BY <1>1 DEF ProcessInv, PipeInv, LifeInv
    <2>4. phase[c] # "named"
        BY <1>1 DEF ProcessInv, NamedInv, LifeInv
    <2>5. QED
        BY <1>1, <2>1, <2>2, <2>3, <2>4 DEF Phases
<1>4. \A d \in Serving : d = c
    <2>1. SingleChild
        BY PipeIsSingle DEF ProcessInv
    <2>2. \A d \in Serving : d \in Alive
        BY DEF Serving, Alive
    <2>3. c \in Alive
        BY <1>2, <1>3 DEF Alive
    <2>4. QED
        BY <2>1, <2>2, <2>3 DEF SingleChild
<1>5. QED
    BY <1>1, <1>2, <1>3, <1>4 DEF Serving

-----------------------------------------------------------------------------
(* The steps, by what they do to the TunService and to its way there.       *)
Other == {"onStartCommand", "onDestroy"}

Far ==
    /\ Moves
    /\ UNCHANGED tunVars
    /\ \/ UNCHANGED <<queue, current>>
       \/ \E e \in {"STOPPED", "CHANGED"} : Submit(e)
       \/ Submit("STARTED") /\ Owing' # {}
    /\ DOMAIN pc' = Threads
    /\ \/ UNCHANGED inbox /\ (pc'["main"] = "tunDestroy" => pc["main"] = "tunDestroy")
       \/ UNCHANGED pc /\ \E x \in Other : Post(x)
       \/ /\ inbox # <<>> /\ Head(inbox) \in Other /\ inbox' = Tail(inbox)
          /\ pc'["main"] # "tunDestroy"

(* A task of the handler: nothing for the TunService, a STOPPED it obeys, a *)
(* STARTED, or an event that is hidden from it.                             *)
Passes ==
    /\ UNCHANGED <<inbox, tun, fd, tunDevice>>
    /\ ~(Head(queue) = "STOPPED" /\ registered /\ ~In(queue, "UNREGISTER")
                                /\ tun = "connected")
    /\ ~(Head(queue) = "STARTED" /\ registered)
    /\ ~(Head(queue) = "REGISTER" /\ ~registered /\ current = "STARTED")

Stops ==
    /\ Head(queue) = "STOPPED" /\ tun = "connected"
    /\ tun' = "stopping" /\ Post("tunDestroy")
    /\ UNCHANGED <<fd, tunDevice>>

Hands ==
    /\ current' = "STARTED" /\ registered' /\ Head(queue) \in {"STARTED", "REGISTER"}
    /\ fd' = (fd /\ In(queue, "UNREGISTER"))
    /\ IF fd /\ ~In(queue, "UNREGISTER") /\ Serving # {}
         THEN tunDevice' \in Serving ELSE UNCHANGED tunDevice
    /\ UNCHANGED <<inbox, tun>>

Hidden ==
    /\ UNCHANGED <<inbox, tun, fd, tunDevice>>
    /\ registered /\ Head(queue) \in Events
    /\ hidden' # "none" \/ In(queue, "UNREGISTER")

Handled ==
    /\ queue # <<>> /\ queue' = Tail(queue)
    /\ current' = IF Head(queue) \in Events THEN Head(queue) ELSE current
    /\ registered' = After(registered, Head(queue))
    /\ UNCHANGED processVars
    /\ DOMAIN pc' = Threads /\ pc'["main"] = pc["main"]
    /\ Passes \/ Stops \/ Hands \/ Hidden
    /\ hidden' = "none" => hidden = "none" \/ Head(queue) = "REGISTER"

LEMMA TaskNames == /\ "STARTED" \in Tasks /\ "STOPPED" \in Tasks /\ "CHANGED" \in Tasks
                   /\ "REGISTER" \in Tasks /\ "UNREGISTER" \in Tasks
BY DEF Tasks, Events

LEMMA FarSteps ==
    ASSUME ProcessInv, SvcType,
           \/ \E t \in {"main", "handler"} : CallStart(t)
           \/ InStart \/ Background \/ Loader \/ BringDown
           \/ OnStartCommand \/ OnDestroy \/ Destroyed
           \/ Bind \/ Watch \/ UiDies \/ Unwatch
           \/ StartClashService \/ UserStop \/ UserChange
           \/ UNCHANGED svcVars,
           Moves
    PROVE  Far
<1> DEFINE Silent == UNCHANGED <<queue, current>>
           Says == \/ Silent
                   \/ \E e \in {"STOPPED", "CHANGED"} : Submit(e)
                   \/ Submit("STARTED") /\ Owing' # {}
           Sits == UNCHANGED inbox /\ (pc'["main"] = "tunDestroy" => pc["main"] = "tunDestroy")
           Posts == UNCHANGED pc /\ \E x \in Other : Post(x)
           Takes == /\ inbox # <<>> /\ Head(inbox) \in Other /\ inbox' = Tail(inbox)
                    /\ pc'["main"] # "tunDestroy"
<1>0. DOMAIN pc = Threads /\ "main" \in Threads /\ MachineOK /\ LifeInv
    BY DEF SvcType, Threads, ProcessInv
<1>1. ASSUME UNCHANGED tunVars, Says, DOMAIN pc' = Threads, Sits \/ Posts \/ Takes
      PROVE  Far
    BY <1>1 DEF Far
<1>2. ASSUME NEW e \in {"STOPPED", "CHANGED"}, Listener(e) \/ Submit(e) PROVE Says
    BY <1>2 DEF Listener, Submit
<1>3. CASE \E t \in {"main", "handler"} : CallStart(t)
    <2>1. Silent /\ UNCHANGED <<tunVars, inbox>>
        BY <1>3 DEF CallStart, StartEnter, vars, eventVars, lifeVars
    <2>2. DOMAIN pc' = Threads /\ (pc'["main"] = "tunDestroy" => pc["main"] = "tunDestroy")
        BY <1>0, <1>3 DEF CallStart, Goto
    <2>3. QED
        BY <1>1, <2>1, <2>2
<1>4. CASE InStart
    <2>1. /\ UNCHANGED <<tunVars, inbox>> /\ DOMAIN pc' = Threads
          /\ (pc'["main"] = "tunDestroy" => pc["main"] = "tunDestroy")
        BY <1>0, <1>4 DEF InStart
    <2>2. ASSUME Commit, stage = "controller" PROVE Says
        <3>1. spawned \in Owing'
            BY <1>0, <2>2 DEF Commit, Owing, LifeInv, MachineOK
        <3>2. QED
            BY <2>2, <3>1 DEF Commit, Listener, Submit
    <2>3. Says
        BY <1>2, <1>4, <2>2
           DEF InStart, StartStep, SpawnFail, Spawn, ReadPidLine, ReadPidEOF,
               ReadControllerLine, ReadControllerEOF, eventVars
    <2>4. QED
        BY <1>1, <2>1, <2>3
<1>5. CASE Background
    <2>1. UNCHANGED <<tunVars, inbox, pc>>
        BY <1>5 DEF Background, lifeVars
    <2>2. Says
        BY <1>2, <1>5
           DEF Background, ReaderStep, ReaderEOF, ReaderClose, ReaderAnnounce,
               ChildStep, ChildFails, ChildPrintsPid, ChildServes, ChildDies, eventVars
    <2>3. QED
        BY <1>0, <1>1, <2>1, <2>2
<1>6. ASSUME NEW t, Stop(t) PROVE Says
    BY <1>2, <1>6 DEF Stop, eventVars
<1>7. CASE Loader
    <2>1. /\ UNCHANGED <<tunVars, inbox>> /\ DOMAIN pc' = Threads
          /\ pc'["main"] = pc["main"]
        BY <1>0, <1>7 DEF Loader, ReloadCheck, ReloadQuery, ReloadLoad, ReloadStop,
                          Goto, lifeVars
    <2>2. Says
        BY <1>6, <1>7 DEF Loader, ReloadCheck, ReloadQuery, ReloadLoad, ReloadStop,
                          vars, eventVars
    <2>3. QED
        BY <1>1, <2>1, <2>2
<1>8. CASE OnStartCommand
    <2>1. Silent /\ UNCHANGED tunVars /\ DOMAIN pc' = Threads /\ Takes
        BY <1>0, <1>8 DEF OnStartCommand, Callback, tunVars, Goto, Other
    <2>2. QED
        BY <1>1, <2>1
<1>9. CASE OnDestroy
    <2>1. Silent /\ UNCHANGED tunVars /\ DOMAIN pc' = Threads /\ Takes
        BY <1>0, <1>9 DEF OnDestroy, Callback, tunVars, Goto, Other
    <2>2. QED
        BY <1>1, <2>1
<1>10. CASE Destroyed
    <2>1. UNCHANGED tunVars /\ DOMAIN pc' = Threads /\ Sits
        BY <1>0, <1>10 DEF Destroyed, Goto
    <2>2. QED
        BY <1>1, <1>6, <1>10, <2>1 DEF Destroyed
<1>11. CASE BringDown \/ StartClashService
    <2>1. Silent /\ UNCHANGED tunVars /\ UNCHANGED pc /\ Posts
        BY <1>11 DEF BringDown, StartClashService, vars, eventVars, Other
    <2>2. QED
        BY <1>0, <1>1, <2>1
<1>12. CASE Bind \/ Watch \/ UiDies \/ Unwatch \/ UserStop \/ UserChange
    <2>1. UNCHANGED <<tunVars, inbox, pc>>
        BY <1>12 DEF Bind, Watch, UiDies, Unwatch, UserStop, UserChange, lifeVars
    <2>2. Says
        BY <1>2, <1>6, <1>12 DEF Bind, Watch, UiDies, Unwatch, UserStop, UserChange, vars, eventVars
    <2>3. QED
        BY <1>0, <1>1, <2>1, <2>2
<1>13. CASE UNCHANGED svcVars
    BY <1>0, <1>1, <1>13 DEF svcVars, vars, eventVars, lifeVars
<1>14. QED
    BY <1>3, <1>4, <1>5, <1>7, <1>8, <1>9, <1>10, <1>11, <1>12, <1>13

LEMMA HandleSteps ==
    ASSUME SvcType, Handle, Alternate(queue, registered)
    PROVE  Handled
<1>0. DOMAIN pc = Threads /\ "main" \in Threads /\ "handler" # "main"
    BY DEF SvcType, Threads
<1>1. ASSUME NEW e, Take(e)
      PROVE  /\ queue # <<>> /\ queue' = Tail(queue) /\ Head(queue) = e
             /\ UNCHANGED processVars
    BY <1>1 DEF Take
<1>2. TunAway => UNCHANGED <<inbox, tun, fd, tunDevice>> /\ UNCHANGED pc
    BY DEF TunAway
<1>3. Gone <=> In(queue, "UNREGISTER")
    BY DEF Gone, In
<1>4. ASSUME NEW e \in Events, NEW first \in BOOLEAN, TunOn(e, first)
      PROVE  DOMAIN pc' = Threads /\ pc'["main"] = pc["main"]
    BY <1>0, <1>4 DEF TunOn, Goto
<1>5. ASSUME NEW e \in Events, PerformProcessEvent(e) PROVE Handled
    <2>1. /\ Take(e) /\ current' = e /\ registered' = registered
          /\ e # "REGISTER" /\ e # "UNREGISTER"
        BY <1>5 DEF PerformProcessEvent, Events
    <2>0. hidden' = "none" => hidden = "none"
        BY <1>5 DEF PerformProcessEvent
    <2>2. CASE ~registered
        BY <1>0, <1>1, <1>2, <1>5, <2>0, <2>1, <2>2
           DEF PerformProcessEvent, Handled, Passes, After
    <2>6. CASE registered /\ ~Reached
        <3>1. /\ UNCHANGED <<inbox, tun, fd, tunDevice>> /\ UNCHANGED pc
              /\ hidden' # "none" \/ In(queue, "UNREGISTER")
            BY <1>2, <1>3, <1>5, <2>6 DEF PerformProcessEvent
        <3>2. Hidden
            BY <1>1, <2>1, <2>6, <3>1 DEF Hidden
        <3>3. QED
            BY <1>0, <1>1, <2>0, <2>1, <2>6, <3>1, <3>2 DEF Handled, After
    <2>3. CASE registered /\ Reached /\ e = "STARTED"
        <3>1. Hands
            BY <1>1, <1>3, <1>5, <2>1, <2>3 DEF PerformProcessEvent, TunOn, Hands
        <3>2. QED
            BY <1>1, <1>4, <1>5, <2>0, <2>1, <2>3, <3>1 DEF PerformProcessEvent, Handled, After
    <2>4. CASE registered /\ Reached /\ e = "STOPPED"
        <3>1. /\ IF Gone THEN UNCHANGED <<tun, inbox>> ELSE StopTun
              /\ UNCHANGED <<pc, fd, tunDevice>>
            BY <1>5, <2>4 DEF PerformProcessEvent, TunOn
        <3>2. Passes \/ Stops
            BY <1>1, <1>3, <2>1, <2>4, <3>1 DEF Passes, Stops, StopTun
        <3>3. QED
            BY <1>0, <1>1, <2>0, <2>1, <2>4, <3>1, <3>2 DEF Handled, After
    <2>5. QED
        BY <2>2, <2>3, <2>4, <2>6 DEF Events
<1>6. CASE Created \/ ProfileChanged
    <2>1. PICK e \in {"CREATED", "CHANGED"} : Take(e)
        BY <1>6 DEF Created, ProfileChanged
    <2>2. TunAway /\ UNCHANGED <<current, registered, hidden>>
        BY <1>6 DEF Created, ProfileChanged
    <2>3. QED
        BY <1>0, <1>1, <1>2, <2>1, <2>2 DEF Handled, Passes, After, Events
<1>7. CASE UnregisterEventObserver
    <2>1. /\ Take("UNREGISTER") /\ TunAway
          /\ current' = current /\ registered' = FALSE /\ hidden' = hidden
        BY <1>7 DEF UnregisterEventObserver
    <2>2. /\ queue # <<>> /\ queue' = Tail(queue) /\ Head(queue) = "UNREGISTER"
          /\ UNCHANGED processVars
        BY <1>1, <2>1
    <2>3. registered' = After(registered, Head(queue)) /\ Head(queue) \notin Events
        BY <2>1, <2>2 DEF After, Events
    <2>4. Passes /\ UNCHANGED pc
        BY <1>2, <2>1, <2>2 DEF Passes
    <2>5. QED
        BY <1>0, <2>1, <2>2, <2>3, <2>4 DEF Handled
<1>8. CASE RegisterEventObserver
    <2>1. /\ Take("REGISTER") /\ current' = current /\ registered'
          /\ registered' = TRUE
        BY <1>8 DEF RegisterEventObserver
    <2>2. ~registered
        BY <1>1, <2>1, AlternateShrunk DEF SvcType
    <2>3. TunOn(current, TRUE) /\ current \in Events
        BY <1>8, <2>2 DEF RegisterEventObserver, SvcType
    <2>4. /\ queue # <<>> /\ queue' = Tail(queue) /\ Head(queue) = "REGISTER"
          /\ UNCHANGED processVars
        BY <1>1, <2>1
    <2>5. registered' = After(registered, Head(queue)) /\ Head(queue) \notin Events
        BY <2>1, <2>4 DEF After, Events
    <2>6. DOMAIN pc' = Threads /\ pc'["main"] = pc["main"]
        BY <1>4, <2>3
    <2>7. CASE current = "STARTED"
        <3>1. Hands
            BY <1>1, <1>3, <2>1, <2>3, <2>7 DEF TunOn, Hands
        <3>2. QED
            BY <2>1, <2>4, <2>5, <2>6, <3>1 DEF Handled
    <2>8. CASE current = "STOPPED"
        <3>1. UNCHANGED <<inbox, tun, fd, tunDevice>>
            BY <2>3, <2>8 DEF TunOn
        <3>2. Passes
            BY <1>1, <2>1, <2>8, <3>1 DEF Passes
        <3>3. QED
            BY <2>1, <2>4, <2>5, <2>6, <3>2 DEF Handled
    <2>9. QED
        BY <2>3, <2>7, <2>8 DEF Events
<1>9. QED
    BY <1>5, <1>6, <1>7, <1>8 DEF Handle

(* Every step of the app is one of these. *)
LEMMA SvcKinds ==
    ASSUME ProcessInv, SvcType, Alternate(queue, registered), [SvcNext]_svcVars
    PROVE  \/ Far \/ Handled
           \/ TunConnected \/ TunDestroy \/ TunDestroyed
           \/ StartTunService \/ Revoke
<1>1. Moves
    BY SvcMoves
<1>2. \/ \E t \in {"main", "handler"} : CallStart(t)
      \/ InStart \/ Background \/ Handle \/ Loader \/ Main
      \/ Watch \/ UiDies \/ Unwatch
      \/ BringDown \/ User \/ UNCHANGED svcVars
    BY DEF SvcNext, Does, Work
<1>3. Main => \/ OnStartCommand \/ OnDestroy \/ Destroyed
              \/ TunConnected \/ TunDestroy \/ TunDestroyed
    BY DEF Main
<1>4. User => \/ Bind \/ StartClashService \/ UserStop \/ UserChange
              \/ StartTunService \/ Revoke
    BY DEF User
<1>5. QED
    BY <1>1, <1>2, <1>3, <1>4, FarSteps, HandleSteps

-----------------------------------------------------------------------------
(* A reader that announces puts a STOPPED last. *)
LEMMA Announced ==
    ASSUME SvcType, NEW c \in Children, ReaderAnnounce(c)
    PROVE  ~StartedLast(queue', current') /\ In(queue', "STOPPED")
<1>1. /\ queue \in Seq(Tasks) /\ "STOPPED" \in Tasks
      /\ queue' = Append(queue, "STOPPED") /\ "STOPPED" # "STARTED"
    BY TaskNames DEF SvcType, ReaderAnnounce, Listener
<1> DEFINE t == queue'
           x == current'
<1>2. t = Append(queue, "STOPPED")
    BY <1>1
<1> HIDE DEF t, x
<1>3. In(t, "STOPPED")
    BY <1>1, <1>2, InGrown
<1>4. ~StartedLast(t, x)
    BY <1>1, <1>2, WordStopped
<1>5. QED
    BY <1>3, <1>4 DEF t, x

(* What a submission does to the queue. *)
LEMMA Submitted ==
    ASSUME SvcType, NEW e \in Tasks, Submit(e)
    PROVE  /\ queue' \in Seq(Tasks)
           /\ \A x : In(queue', x) <=> In(queue, x) \/ e = x
           /\ e # "STARTED" /\ StartedLast(queue', current')
                => StartedLast(queue, current) /\ e # "STOPPED"
           /\ \A reg : Alternate(queue, reg) /\ (e = "REGISTER" => EndsOff(queue, reg))
                      => Alternate(queue', reg)
           /\ \A reg : e = "UNREGISTER" \/ (e # "REGISTER" /\ EndsOff(queue, reg))
                      => EndsOff(queue', reg)
<1> DEFINE t == queue'
<1>1. queue \in Seq(Tasks) /\ t = Append(queue, e) /\ current' = current
    BY DEF Submit, SvcType
<1> HIDE DEF t
<1>2. t \in Seq(Tasks)
    BY <1>1, Grown
<1>3. \A x : In(t, x) <=> In(queue, x) \/ e = x
    BY <1>1, InGrown
<1>4. ASSUME e # "STARTED", NEW x, StartedLast(t, x)
      PROVE  StartedLast(queue, x) /\ e # "STOPPED"
    <2>1. queue \in Seq(Tasks) /\ e \in Tasks /\ t = Append(queue, e)
        BY <1>1
    <2>2. StartedLast(queue, x)
        BY <1>4, <2>1, WordGrown
    <2>3. ASSUME e = "STOPPED" PROVE FALSE
        BY <1>4, <2>1, <2>3, WordStopped
    <2>4. QED
        BY <2>2, <2>3
<1>5. ASSUME NEW reg, Alternate(queue, reg), e = "REGISTER" => EndsOff(queue, reg)
      PROVE  Alternate(t, reg)
    <2>1. queue \in Seq(Tasks) /\ e \in Tasks /\ t = Append(queue, e)
        BY <1>1
    <2>2. QED
        BY <1>5, <2>1, AlternateGrown
<1>6. ASSUME NEW reg, e = "UNREGISTER" \/ (e # "REGISTER" /\ EndsOff(queue, reg))
      PROVE  EndsOff(t, reg)
    <2>1. queue \in Seq(Tasks) /\ e \in Tasks /\ t = Append(queue, e)
        BY <1>1
    <2>2. QED
        BY <1>6, <2>1, EndsOffGrown
<1>7. QED
    BY <1>1, <1>2, <1>3, <1>4, <1>5, <1>6 DEF t

(* What a callback that is posted does to the inbox. *)
LEMMA Posted ==
    ASSUME SvcType, NEW e \in Callbacks, Post(e)
    PROVE  /\ inbox' \in Seq(Callbacks)
           /\ \A x : In(inbox', x) <=> In(inbox, x) \/ e = x
           /\ \A x : Once(inbox, x) /\ (e = x => ~In(inbox, x)) => Once(inbox', x)
<1> DEFINE t == inbox'
<1>1. inbox \in Seq(Callbacks) /\ t = Append(inbox, e)
    BY DEF Post, SvcType
<1> HIDE DEF t
<1>2. t \in Seq(Callbacks)
    BY <1>1, Grown
<1>3. \A x : In(t, x) <=> In(inbox, x) \/ e = x
    BY <1>1, InGrown
<1>4. \A x : Once(inbox, x) /\ (e = x => ~In(inbox, x)) => Once(t, x)
    BY <1>1, OnceGrown
<1>5. QED
    BY <1>2, <1>3, <1>4 DEF t

(* What a callback that is taken does to the inbox. *)
LEMMA CalledBack ==
    ASSUME SvcType, inbox # <<>>, inbox' = Tail(inbox)
    PROVE  /\ inbox' \in Seq(Callbacks)
           /\ \A x : In(inbox, x) <=> In(inbox', x) \/ Head(inbox) = x
           /\ \A x : Once(inbox, x) => Once(inbox', x) /\ (Head(inbox) = x => ~In(inbox', x))
<1> DEFINE t == inbox'
<1>1. inbox \in Seq(Callbacks) /\ t = Tail(inbox)
    BY DEF SvcType
<1> HIDE DEF t
<1>2. t \in Seq(Callbacks)
    BY <1>1, Shrunk
<1>3. \A x : In(inbox, x) <=> In(t, x) \/ Head(inbox) = x
    BY <1>1, InShrunk
<1>4. \A x : Once(inbox, x) => Once(t, x) /\ (Head(inbox) = x => ~In(t, x))
    BY <1>1, OnceShrunk
<1>5. QED
    BY <1>2, <1>3, <1>4 DEF t

(* What a task that is taken does to the queue. *)
LEMMA Taken ==
    ASSUME SvcType, queue # <<>>, queue' = Tail(queue)
    PROVE  /\ queue' \in Seq(Tasks) /\ Head(queue) \in Tasks
           /\ \A x : In(queue, x) <=> In(queue', x) \/ Head(queue) = x
           /\ \A x : StartedLast(queue', IF Head(queue) \in Events THEN Head(queue) ELSE x)
                    => StartedLast(queue, x)
           /\ \A reg \in BOOLEAN : Alternate(queue, reg)
                => /\ Alternate(queue', After(reg, Head(queue)))
                   /\ Head(queue) = "REGISTER" => ~reg
           /\ \A reg : EndsOff(queue, reg) => EndsOff(queue', After(reg, Head(queue)))
<1> DEFINE t == queue'
<1>1. queue \in Seq(Tasks) /\ t = Tail(queue)
    BY DEF SvcType
<1> HIDE DEF t
<1>2. t \in Seq(Tasks) /\ Head(queue) \in Tasks
    BY <1>1, Shrunk
<1>3. \A x : In(queue, x) <=> In(t, x) \/ Head(queue) = x
    BY <1>1, InShrunk
<1>4. ASSUME NEW x, StartedLast(t, IF Head(queue) \in Events THEN Head(queue) ELSE x)
      PROVE  StartedLast(queue, x)
    <2> DEFINE y == IF Head(queue) \in Events THEN Head(queue) ELSE x
    <2>1. StartedLast(t, y)
        BY <1>4
    <2>2. y = IF Head(queue) \in Events THEN Head(queue) ELSE x
        OBVIOUS
    <2> HIDE DEF y
    <2>3. QED
        BY <1>1, <2>1, <2>2, WordShrunk
<1>5. \A reg \in BOOLEAN : Alternate(queue, reg)
        => /\ Alternate(t, After(reg, Head(queue)))
           /\ Head(queue) = "REGISTER" => ~reg
    BY <1>1, AlternateShrunk
<1>6. \A reg : EndsOff(queue, reg) => EndsOff(t, After(reg, Head(queue)))
    BY <1>1, EndsOffShrunk
<1>7. QED
    BY <1>2, <1>3, <1>4, <1>5, <1>6 DEF t

-----------------------------------------------------------------------------
(* The steps that are not the TunService's. *)
LEMMA FarWord ==
    ASSUME ProcessInv, SvcType, WordInv, Far
    PROVE  WordInv'
<1>1. ASSUME StartedLast(queue', current') PROVE Owing' # {}
    <2>1. CASE Owing' # {}
        BY <2>1
    <2>2. CASE StartedLast(queue, current)
        <3>1. Owing # {} /\ MachineOK /\ LifeInv /\ Moves
            BY <2>2 DEF WordInv, ProcessInv, Far
        <3>2. QED
            BY <1>1, <3>1, OwingStays, Announced
    <2>3. CASE UNCHANGED <<queue, current>>
        BY <1>1, <2>2, <2>3
    <2>4. ASSUME NEW e \in {"STOPPED", "CHANGED"}, Submit(e) PROVE Owing' # {}
        <3>1. e \in Tasks /\ e # "STARTED"
            BY TaskNames, <2>4
        <3>2. QED
            BY <1>1, <2>2, <2>4, <3>1, Submitted
    <2>5. QED
        BY <2>1, <2>3, <2>4 DEF Far
<1>2. QED
    BY <1>1 DEF WordInv

LEMMA FarInbox ==
    ASSUME SvcType, InboxInv, Far
    PROVE  InboxInv' /\ inbox' \in Seq(Callbacks)
<1>1. tun' = tun
    BY DEF Far, tunVars
<1>2. CASE UNCHANGED inbox /\ (pc'["main"] = "tunDestroy" => pc["main"] = "tunDestroy")
    BY <1>1, <1>2 DEF InboxInv, SvcType
<1>3. ASSUME UNCHANGED pc, NEW e \in Other, Post(e)
      PROVE  InboxInv' /\ inbox' \in Seq(Callbacks)
    <2>1. e \in Callbacks /\ e # "tunConnected" /\ e # "tunDestroy"
        BY <1>3 DEF Other, Callbacks
    <2>2. QED
        BY <1>1, <1>3, <2>1, Posted DEF InboxInv
<1>4. ASSUME inbox # <<>>, Head(inbox) \in Other, inbox' = Tail(inbox),
             pc'["main"] # "tunDestroy"
      PROVE  InboxInv' /\ inbox' \in Seq(Callbacks)
    BY <1>1, <1>4, CalledBack DEF InboxInv
<1>5. QED
    BY <1>2, <1>3, <1>4 DEF Far

LEMMA FarQueue ==
    ASSUME SvcType, RegInv, FdInv, Far
    PROVE  /\ RegInv' /\ FdInv' /\ queue' \in Seq(Tasks) /\ current' = current
           /\ In(queue, "STOPPED") => In(queue', "STOPPED")
<1>1. tun' = tun /\ fd' = fd /\ registered' = registered /\ tunDevice' = tunDevice
      /\ hidden' = hidden
    BY DEF Far, tunVars
<1>2. CASE UNCHANGED <<queue, current>>
    BY <1>1, <1>2 DEF RegInv, FdInv, SvcType
<1>3. ASSUME NEW e \in {"STOPPED", "CHANGED", "STARTED"}, Submit(e)
      PROVE  /\ RegInv' /\ FdInv' /\ queue' \in Seq(Tasks) /\ current' = current
             /\ In(queue, "STOPPED") => In(queue', "STOPPED")
    <2>1. e \in Tasks /\ e # "REGISTER" /\ e # "UNREGISTER" /\ current' = current
        BY TaskNames, <1>3 DEF Submit
    <2>2. QED
        BY <1>1, <1>3, <2>1, Submitted DEF RegInv, FdInv
<1>4. QED
    BY <1>2, <1>3 DEF Far

LEMMA FarKeeps ==
    ASSUME ProcessInv, TunInv, Far
    PROVE  TunInv'
<1>1. /\ SvcType /\ WordInv /\ InboxInv /\ RegInv /\ FdInv /\ VpnInv
      /\ MachineOK /\ LifeInv /\ PipeInv /\ ClosingInv /\ Moves
    BY DEF TunInv, ProcessInv, Far
<1>2. tun' = tun /\ fd' = fd /\ registered' = registered /\ tunDevice' = tunDevice
      /\ hidden' = hidden
    BY DEF Far, tunVars
<1>3. /\ RegInv' /\ FdInv' /\ queue' \in Seq(Tasks) /\ current' = current
      /\ In(queue, "STOPPED") => In(queue', "STOPPED")
    BY <1>1, FarQueue
<1>4. InboxInv' /\ inbox' \in Seq(Callbacks)
    BY <1>1, FarInbox
<1>5. WordInv'
    BY <1>1, FarWord
<1>6. SvcType'
    BY <1>1, <1>2, <1>3, <1>4 DEF SvcType, Far
<1>7. ASSUME tun = "connected", ~fd, hidden = "none"
      PROVE  In(queue', "STOPPED") \/ Ending' \/ Driven'
    <2>1. In(queue, "STOPPED") \/ Ending \/ Driven
        BY <1>1, <1>7 DEF VpnInv
    <2>2. CASE Ending
        BY <1>1, <2>2, EndingStays, Announced
    <2>3. CASE Driven
        BY <1>1, <1>2, <2>3, DrivenStays
    <2>4. QED
        BY <1>3, <2>1, <2>2, <2>3
<1>8. VpnInv'
    BY <1>2, <1>7 DEF VpnInv
<1>9. QED
    BY <1>3, <1>4, <1>5, <1>6, <1>8 DEF TunInv

-----------------------------------------------------------------------------
(* The handler takes a task. *)
LEMMA HandledKeeps ==
    ASSUME ProcessInv, ProcessInv', TunInv, Handled
    PROVE  TunInv'
<1> DEFINE task == Head(queue)
<1>1. /\ SvcType /\ WordInv /\ InboxInv /\ RegInv /\ FdInv /\ VpnInv
    BY DEF TunInv
<1>2. /\ queue # <<>> /\ queue' = Tail(queue)
      /\ current' = IF task \in Events THEN task ELSE current
      /\ registered' = After(registered, task)
      /\ phase' = phase /\ reader' = reader /\ pid' = pid
      /\ DOMAIN pc' = Threads /\ pc'["main"] = pc["main"]
    BY DEF Handled, processVars, monitorVars, childVars
<1>3. /\ queue' \in Seq(Tasks) /\ task \in Tasks
      /\ \A x : In(queue, x) <=> In(queue', x) \/ task = x
      /\ \A x : StartedLast(queue', IF task \in Events THEN task ELSE x)
               => StartedLast(queue, x)
      /\ \A reg \in BOOLEAN : Alternate(queue, reg)
           => Alternate(queue', After(reg, task)) /\ (task = "REGISTER" => ~reg)
      /\ \A reg : EndsOff(queue, reg) => EndsOff(queue', After(reg, task))
    BY <1>1, <1>2, Taken
<1> HIDE DEF task
<1>4. registered \in BOOLEAN /\ fd \in BOOLEAN /\ current \in Events
    BY <1>1 DEF SvcType
<1>5. \/ Passes /\ UNCHANGED <<inbox, tun, fd, tunDevice>>
      \/ Stops
      \/ Hands /\ UNCHANGED <<inbox, tun>>
      \/ Hidden /\ UNCHANGED <<inbox, tun, fd, tunDevice>>
    BY DEF Handled, Passes, Hands, Hidden
<1>0. /\ hidden' = "none" => hidden = "none" \/ task = "REGISTER"
      /\ Hidden => task \in Events /\ registered /\ (hidden' # "none" \/ In(queue, "UNREGISTER"))
    BY DEF Handled, Hidden, task
<1>6. WordInv'
    <2>1. Owing' = Owing
        BY <1>2 DEF Owing
    <2>2. StartedLast(queue', current') => StartedLast(queue, current)
        BY <1>2, <1>3
    <2>3. QED
        BY <1>1, <2>1, <2>2 DEF WordInv
<1>7. SvcType' /\ InboxInv'
    <2>1. current' \in Events /\ registered' \in BOOLEAN /\ fd' \in BOOLEAN
        BY <1>2, <1>4, <1>5 DEF After, Passes, Stops, Hands
    <2>2. CASE UNCHANGED <<inbox, tun>>
        BY <1>1, <1>2, <1>3, <2>1, <2>2 DEF SvcType, InboxInv
    <2>3. CASE Stops
        <3>1. /\ tun = "connected" /\ tun' = "stopping" /\ Post("tunDestroy")
              /\ "tunDestroy" \in Callbacks
            BY <2>3 DEF Stops, Callbacks
        <3>2. ~In(inbox, "tunDestroy") /\ ~In(inbox, "tunConnected")
            BY <1>1, <3>1 DEF InboxInv
        <3>3. InboxInv' /\ inbox' \in Seq(Callbacks)
            BY <1>1, <1>2, <3>1, <3>2, Posted DEF InboxInv
        <3>4. QED
            BY <1>2, <1>3, <2>1, <3>1, <3>3 DEF SvcType
    <2>4. QED
        BY <1>5, <2>2, <2>3
<1>8. tun' = tun \/ (tun = "connected" /\ tun' = "stopping")
    BY <1>5 DEF Stops
<1>9. RegInv'
    <2>1. Alternate(queue', registered')
        BY <1>1, <1>2, <1>3, <1>4 DEF RegInv
    <2>2. tun' \in {"none", "binding"} => EndsOff(queue', registered')
        BY <1>1, <1>2, <1>3, <1>8 DEF RegInv
    <2>3. QED
        BY <2>1, <2>2 DEF RegInv
<1>10. FdInv'
    <2> SUFFICES ASSUME tun' = "connected"
                 PROVE  /\ registered' /\ ~In(queue', "UNREGISTER") /\ current' = "STARTED"
                             /\ hidden' = "none" => ~fd'
                        /\ ~fd' => registered' /\ ~In(queue', "UNREGISTER")
        BY DEF FdInv
    <2>1. tun = "connected" /\ ~Stops
        BY <1>8 DEF Stops
    <2>2. CASE Hands
        BY <1>1, <1>2, <1>3, <1>4, <2>1, <2>2 DEF Hands, FdInv, task
    <2>3. CASE Passes
        <3>1. fd' = fd
            BY <2>3 DEF Passes
        <3>2. ASSUME ~fd PROVE registered' /\ ~In(queue', "UNREGISTER")
            BY <1>1, <1>2, <1>3, <2>1, <3>2 DEF FdInv, After
        <3>3. ASSUME registered', ~In(queue', "UNREGISTER"), current' = "STARTED", fd,
                     hidden' = "none"
              PROVE  FALSE
            <4>1. task # "UNREGISTER" /\ ~In(queue, "UNREGISTER")
                BY <1>2, <1>3, <3>3 DEF After
            <4>2. CASE task = "REGISTER"
                <5>1. ~registered /\ current = "STARTED"
                    BY <1>1, <1>2, <1>3, <1>4, <3>3, <4>2 DEF RegInv, Events
                <5>2. QED
                    BY <2>3, <4>2, <5>1 DEF Passes, task
            <4>3. CASE task # "REGISTER"
                <5>1. registered
                    BY <1>2, <3>3, <4>1, <4>3 DEF After
                <5>2. task # "STARTED"
                    BY <2>3, <5>1 DEF Passes, task
                <5>3. current = "STARTED"
                    BY <1>2, <3>3, <5>2
                <5>4. QED
                    BY <1>0, <1>1, <2>1, <3>3, <4>1, <4>3, <5>1, <5>3 DEF FdInv
            <4>4. QED
                BY <4>2, <4>3
        <3>4. QED
            BY <3>1, <3>2, <3>3
    <2>5. CASE Hidden
        <3>1. /\ fd' = fd /\ registered' = registered /\ task \notin {"REGISTER", "UNREGISTER"}
              /\ hidden' # "none" \/ In(queue', "UNREGISTER")
            BY <1>0, <1>2, <1>3, <2>5 DEF Hidden, Events, After
        <3>2. QED
            BY <1>1, <1>3, <2>1, <3>1 DEF FdInv
    <2>4. QED
        BY <1>5, <2>1, <2>2, <2>3, <2>5
<1>11. VpnInv'
    <2> SUFFICES ASSUME tun' = "connected", ~fd', hidden' = "none"
                 PROVE  In(queue', "STOPPED") \/ Ending' \/ Driven'
        BY DEF VpnInv
    <2>1. tun = "connected" /\ ~Stops
        BY <1>8 DEF Stops
    <2>2. Ending' <=> Ending
        BY <1>2 DEF Ending
    <2>3. Serving' = Serving
        BY <1>2 DEF Serving
    <2>4. CASE ~fd
        <3>1. tunDevice' = tunDevice
            BY <1>5, <2>1, <2>4 DEF Passes, Hands
        <3>2. registered /\ ~In(queue, "UNREGISTER")
            BY <1>1, <2>1, <2>4 DEF FdInv
        <3>3. task # "STOPPED" /\ hidden = "none"
            <4>1. ~Hidden
                BY <1>0, <3>2
            <4>2. task # "REGISTER"
                BY <1>1, <1>3, <1>4, <3>2 DEF RegInv
            <4>3. QED
                BY <1>0, <1>5, <2>1, <3>2, <4>1, <4>2 DEF Passes, Hands, task
        <3>4. In(queue, "STOPPED") => In(queue', "STOPPED")
            BY <1>3, <3>3
        <3>5. Driven => Driven'
            BY <1>2, <2>3, <3>1 DEF Driven
        <3>6. QED
            BY <1>1, <2>1, <2>2, <2>4, <3>3, <3>4, <3>5 DEF VpnInv
    <2>5. CASE fd
        <3>1. /\ Hands /\ current' = "STARTED"
              /\ Serving # {} => tunDevice' \in Serving
            BY <1>5, <2>1, <2>5 DEF Passes, Hands
        <3>2. ASSUME ~In(queue', "STOPPED"), ~Ending' PROVE Driven'
            <4>1. StartedLast(queue', current')
                BY <3>1, <3>2 DEF StartedLast
            <4>2. Owing # {}
                BY <1>2, <1>6, <4>1 DEF WordInv, Owing
            <4>3. pid \in Serving /\ reader[pid] = "reading" /\ Serving = {pid}
                BY <2>2, <3>2, <4>2, OwedByServing
            <4>4. tunDevice' = pid
                BY <3>1, <4>3
            <4>5. QED
                BY <1>2, <2>3, <4>3, <4>4 DEF Driven
        <3>3. QED
            BY <3>2
    <2>6. QED
        BY <2>4, <2>5
<1>12. QED
    BY <1>6, <1>7, <1>9, <1>10, <1>11 DEF TunInv

-----------------------------------------------------------------------------
(* The system posts a callback of the TunService, and the main thread runs  *)
(* it.                                                                      *)
LEMMA StartTunKeeps ==
    ASSUME TunInv, StartTunService
    PROVE  TunInv'
<1>1. /\ SvcType /\ WordInv /\ InboxInv /\ RegInv
    BY DEF TunInv
<1>2. /\ tun = "none" /\ pc["main"] = "idle" /\ tun' = "binding"
      /\ Post("tunConnected") /\ "tunConnected" \in Callbacks
      /\ UNCHANGED <<queue, current, reader, pc, fd, registered>>
    BY DEF StartTunService, Callbacks, vars, childVars, eventVars
<1>3. ~In(inbox, "tunDestroy") /\ ~In(inbox, "tunConnected")
    BY <1>1, <1>2 DEF InboxInv
<1>4. InboxInv' /\ inbox' \in Seq(Callbacks)
    BY <1>1, <1>2, <1>3, Posted DEF InboxInv
<1>5. SvcType'
    BY <1>1, <1>2, <1>4 DEF SvcType
<1>6. WordInv' /\ RegInv' /\ FdInv' /\ VpnInv'
    BY <1>1, <1>2 DEF WordInv, RegInv, FdInv, VpnInv, Owing
<1>7. QED
    BY <1>4, <1>5, <1>6 DEF TunInv

LEMMA RevokeKeeps ==
    ASSUME TunInv, Revoke
    PROVE  TunInv'
<1>1. /\ SvcType /\ WordInv /\ InboxInv /\ RegInv
    BY DEF TunInv
<1>2. /\ tun = "connected" /\ tun' = "stopping"
      /\ Post("tunDestroy") /\ "tunDestroy" \in Callbacks
      /\ UNCHANGED <<queue, current, reader, pc, fd, registered>>
    BY DEF Revoke, StopTun, Callbacks, vars, childVars, eventVars
<1>3. ~In(inbox, "tunDestroy") /\ ~In(inbox, "tunConnected")
    BY <1>1, <1>2 DEF InboxInv
<1>4. InboxInv' /\ inbox' \in Seq(Callbacks)
    BY <1>1, <1>2, <1>3, Posted DEF InboxInv
<1>5. SvcType'
    BY <1>1, <1>2, <1>4 DEF SvcType
<1>6. WordInv' /\ RegInv' /\ FdInv' /\ VpnInv'
    BY <1>1, <1>2 DEF WordInv, RegInv, FdInv, VpnInv, Owing
<1>7. QED
    BY <1>4, <1>5, <1>6 DEF TunInv

LEMMA ConnectedKeeps ==
    ASSUME TunInv, TunConnected
    PROVE  TunInv'
<1>1. /\ SvcType /\ WordInv /\ InboxInv /\ RegInv
    BY DEF TunInv
<1>2. /\ pc["main"] = "idle" /\ inbox # <<>> /\ Head(inbox) = "tunConnected"
      /\ inbox' = Tail(inbox) /\ tun' = "connected" /\ fd' = TRUE
      /\ Submit("REGISTER") /\ "REGISTER" \in Tasks /\ current' = current
      /\ UNCHANGED <<reader, pc, registered>>
    BY TaskNames DEF TunConnected, Callback, Submit, processVars
<1>3. In(inbox, "tunConnected")
    BY <1>1, <1>2, CalledBack
<1>4. tun = "binding" /\ ~In(inbox, "tunDestroy")
    BY <1>1, <1>3 DEF InboxInv
<1>5. InboxInv' /\ inbox' \in Seq(Callbacks)
    BY <1>1, <1>2, <1>4, CalledBack DEF InboxInv
<1>6. EndsOff(queue, registered)
    BY <1>1, <1>4 DEF RegInv
<1>7. /\ queue' \in Seq(Tasks)
      /\ \A x : In(queue', x) <=> In(queue, x) \/ "REGISTER" = x
      /\ StartedLast(queue', current') => StartedLast(queue, current)
      /\ Alternate(queue', registered)
    BY <1>1, <1>2, <1>6, Submitted DEF RegInv
<1>8. SvcType'
    BY <1>1, <1>2, <1>5, <1>7 DEF SvcType
<1>9. WordInv' /\ RegInv'
    BY <1>1, <1>2, <1>7 DEF WordInv, RegInv, Owing
<1>10. FdInv' /\ VpnInv'
    <2>1. registered => In(queue', "UNREGISTER")
        BY <1>6, <1>7 DEF EndsOff
    <2>2. QED
        BY <1>2, <2>1 DEF FdInv, VpnInv
<1>11. QED
    BY <1>5, <1>8, <1>9, <1>10 DEF TunInv

LEMMA DestroyKeeps ==
    ASSUME TunInv, TunDestroy
    PROVE  TunInv'
<1>1. /\ SvcType /\ WordInv /\ InboxInv /\ RegInv
    BY DEF TunInv
<1>2. /\ pc["main"] = "idle" /\ inbox # <<>> /\ Head(inbox) = "tunDestroy"
      /\ inbox' = Tail(inbox) /\ fd' = FALSE /\ Goto("main", "tunDestroy")
      /\ UNCHANGED <<queue, current, tun, reader, registered>>
    BY DEF TunDestroy, Callback, processVars
<1>3. In(inbox, "tunDestroy")
    BY <1>1, <1>2, CalledBack
<1>4. tun = "stopping"
    BY <1>1, <1>3 DEF InboxInv
<1>5. pc'["main"] = "tunDestroy" /\ DOMAIN pc' = Threads
    BY <1>1, <1>2 DEF SvcType, Goto, Threads
<1>6. InboxInv' /\ inbox' \in Seq(Callbacks)
    BY <1>1, <1>2, <1>4, <1>5, CalledBack DEF InboxInv
<1>7. SvcType'
    BY <1>1, <1>2, <1>5, <1>6 DEF SvcType
<1>8. WordInv' /\ RegInv' /\ FdInv' /\ VpnInv'
    BY <1>1, <1>2, <1>4 DEF WordInv, RegInv, FdInv, VpnInv, Owing
<1>9. QED
    BY <1>6, <1>7, <1>8 DEF TunInv

LEMMA DestroyedKeeps ==
    ASSUME TunInv, TunDestroyed
    PROVE  TunInv'
<1>1. /\ SvcType /\ WordInv /\ InboxInv /\ RegInv
    BY DEF TunInv
<1>2. /\ pc["main"] = "tunDestroy" /\ tun' = "none" /\ Goto("main", "idle")
      /\ queue' = queue \o StopTask \o <<"UNREGISTER">>
      /\ UNCHANGED <<inbox, current, reader, fd, registered>>
    BY DEF TunDestroyed, lifeVars
<1>3. tun = "stopping" /\ ~In(inbox, "tunDestroy") /\ ~In(inbox, "tunConnected")
    BY <1>1, <1>2 DEF InboxInv
<1>4. pc'["main"] = "idle" /\ DOMAIN pc' = Threads
    BY <1>1, <1>2 DEF SvcType, Goto, Threads
<1>5. PICK q : q = queue \o StopTask
    OBVIOUS
<1>6. /\ q \in Seq(Tasks)
      /\ StartedLast(q, current) => StartedLast(queue, current)
      /\ Alternate(q, registered)
    <2>0. /\ queue \in Seq(Tasks) /\ "STOPPED" \in Tasks
          /\ Alternate(queue, registered) /\ "STOPPED" # "REGISTER"
        BY <1>1, TaskNames DEF SvcType, RegInv
    <2>1. CASE StopTask = <<>>
        BY <1>5, <2>0, <2>1, ConcatEmptySeq
    <2>2. CASE StopTask = <<"STOPPED">>
        <3>1. q = Append(queue, "STOPPED")
            BY <1>5, <2>0, <2>2, AppendIsConcat
        <3>2. QED
            BY <2>0, <3>1, Grown, WordStopped, AlternateGrown
    <2>3. QED
        BY <2>1, <2>2 DEF StopTask
<1>7. PICK t : t = queue'
    OBVIOUS
<1>8. t = Append(q, "UNREGISTER") /\ "UNREGISTER" \in Tasks
    BY <1>2, <1>5, <1>6, <1>7, TaskNames, AppendIsConcat
<1>9. /\ t \in Seq(Tasks)
      /\ StartedLast(t, current) => StartedLast(queue, current)
      /\ Alternate(t, registered)
      /\ EndsOff(t, registered)
    <2>1. t \in Seq(Tasks)
        BY <1>6, <1>8, Grown
    <2>2. PICK e, r : e = "UNREGISTER" /\ r = registered
        OBVIOUS
    <2>3. StartedLast(t, current) => StartedLast(queue, current)
        <3>1. q \in Seq(Tasks) /\ e \in Tasks /\ t = Append(q, e) /\ e # "STARTED"
            BY <1>6, <1>8, <2>2
        <3>2. StartedLast(t, current) => StartedLast(q, current)
            BY <3>1, WordGrown
        <3>3. QED
            BY <1>6, <3>2
    <2>4. /\ q \in Seq(Tasks) /\ e \in Tasks /\ t = Append(q, e)
          /\ Alternate(q, r) /\ e # "REGISTER"
        BY <1>6, <1>8, <2>2
    <2>5. Alternate(t, r)
        BY <2>4, AlternateGrown
    <2>6. EndsOff(t, r)
        BY <2>2, <2>4, EndsOffGrown
    <2>7. QED
        BY <2>1, <2>3, <2>2, <2>5, <2>6
<1>10. InboxInv' /\ SvcType'
    BY <1>1, <1>2, <1>3, <1>4, <1>7, <1>9 DEF InboxInv, SvcType
<1>11. WordInv' /\ RegInv' /\ FdInv' /\ VpnInv'
    BY <1>1, <1>2, <1>7, <1>9 DEF WordInv, RegInv, FdInv, VpnInv, Owing
<1>12. QED
    BY <1>10, <1>11 DEF TunInv

-----------------------------------------------------------------------------
LEMMA SvcStep == ~MayFailEarly /\ SvcInv /\ [SvcNext]_svcVars => SvcInv'
<1> SUFFICES ASSUME ~MayFailEarly, SvcInv, [SvcNext]_svcVars PROVE SvcInv'
    OBVIOUS
<1>1. ProcessInv /\ TunInv /\ SvcType /\ Alternate(queue, registered)
    BY DEF SvcInv, TunInv, RegInv
<1>2. ProcessInv'
    BY <1>1, ProcessStep
<1>3. TunInv'
    BY <1>1, <1>2, SvcKinds, FarKeeps, HandledKeeps, StartTunKeeps, RevokeKeeps,
       ConnectedKeeps, DestroyKeeps, DestroyedKeeps
<1>4. QED
    BY <1>2, <1>3 DEF SvcInv

LEMMA SvcInitInv == SvcInit => SvcInv
<1> SUFFICES ASSUME SvcInit PROVE SvcInv
    OBVIOUS
<1>1. ProcessInv
    BY ProcessInit
<1>2. /\ queue = <<"CREATED">> /\ current = "STOPPED" /\ fd = TRUE /\ registered = FALSE
      /\ pc = [t \in Threads |-> "idle"] /\ tun \in {"none", "binding"}
      /\ \/ inbox = <<"onStartCommand">> \/ inbox = <<>>
         \/ inbox = <<"tunConnected">> /\ tun = "binding"
    BY DEF SvcInit
<1>3. SvcType
    <2>1. /\ "CREATED" \in Tasks /\ "onStartCommand" \in Callbacks
          /\ "tunConnected" \in Callbacks /\ "STOPPED" \in Events
        BY EventNames DEF Tasks, Callbacks
    <2>2. queue \in Seq(Tasks)
        <3>1. <<"CREATED">> \in Seq(Tasks)
            BY <2>1
        <3>2. QED
            BY <1>2, <3>1
    <2>3. inbox \in Seq(Callbacks)
        <3>1. /\ <<"onStartCommand">> \in Seq(Callbacks)
              /\ <<>> \in Seq(Callbacks)
              /\ <<"tunConnected">> \in Seq(Callbacks)
            BY <2>1, EmptySeq
        <3>2. QED
            BY <1>2, <3>1
    <2>4. DOMAIN pc = Threads
        BY <1>2
    <2>5. QED
        BY <1>2, <2>1, <2>2, <2>3, <2>4 DEF SvcType
<1>4. WordInv
    <2>1. Len(queue) = 1 /\ queue[1] = "CREATED"
        BY <1>2
    <2>2. \A i \in 1 .. Len(queue) : queue[i] # "STARTED"
        BY <2>1
    <2>3. QED
        BY <1>2, <2>2 DEF WordInv, StartedLast
<1>5. InboxInv
    <2>1. pc["main"] = "idle"
        BY <1>2 DEF Threads
    <2>2. \A x : Once(inbox, x)
        <3>1. Len(inbox) \in {0, 1}
            BY <1>2
        <3>2. \A i, j \in 1 .. Len(inbox) : i = j
            <4>1. CASE Len(inbox) = 0
                BY <4>1
            <4>2. CASE Len(inbox) = 1
                BY <4>2
            <4>3. QED
                BY <3>1, <4>1, <4>2
        <3>3. QED
            BY <3>2 DEF Once
    <2>3. ~In(inbox, "tunDestroy")
        BY <1>2 DEF In
    <2>4. In(inbox, "tunConnected") => tun = "binding"
        BY <1>2 DEF In
    <2>5. QED
        BY <2>1, <2>2, <2>3, <2>4 DEF InboxInv
<1>6. RegInv
    BY <1>2 DEF RegInv, Alternate, EndsOff
<1>7. FdInv /\ VpnInv
    BY <1>2 DEF FdInv, VpnInv
<1>8. QED
    BY <1>1, <1>3, <1>4, <1>5, <1>6, <1>7 DEF SvcInv, TunInv

(* At rest the child that serves has the tun device.                        *)
LEMMA AtRestFollows == SvcInv => TunFollowsChild
<1> SUFFICES ASSUME SvcInv, AtRest, registered, tun = "connected",
                    hidden = "none", current = "STARTED", pid \in Serving
             PROVE  tunDevice = pid
    BY DEF TunFollowsChild
<1>1. FdInv /\ VpnInv /\ PipeInv /\ ClosingInv
    BY DEF SvcInv, TunInv, ProcessInv
<1>2. ~In(queue, "UNREGISTER") /\ ~In(queue, "STOPPED")
    BY DEF AtRest, In
<1>3. Ending \/ Driven
    BY <1>1, <1>2 DEF FdInv, VpnInv
<1>4. ~Ending
    <2>1. ASSUME NEW c \in Children, reader[c] \in {"reading", "closing"},
                 phase[c] = "dead"
          PROVE  FALSE
        BY <1>1, <2>1 DEF PipeInv, Serving
    <2>2. QED
        BY <1>1, <2>1 DEF Ending, AtRest, ClosingInv
<1>5. QED
    BY <1>3, <1>4 DEF Driven

(* A connected VPN interface whose core serves is driven by it whenever no  *)
(* event is on its way, through any number of children, of TunServices that *)
(* come and go, and of stops and starts by four threads - unless an event   *)
(* since its registration was hidden from the TunService by an activity that*)
(* had died (TunService.kt:40-75, ClashEventService.kt:27-35, 64-96,        *)
(* ClashProcess.kt:28-117).                                                 *)
THEOREM VpnFollowsChild == ~MayFailEarly => (SvcSpec => []TunFollowsChild)
<1> SUFFICES ASSUME ~MayFailEarly PROVE SvcSpec => []TunFollowsChild
    OBVIOUS
<1>1. SvcInv /\ [SvcNext]_svcVars => SvcInv'
    BY SvcStep
<1>2. QED
    BY <1>1, SvcInitInv, AtRestFollows, PTL DEF SvcSpec
=============================================================================
