-------------------------------- MODULE Listeners --------------------------------
(***************************************************************************)
(* listener: the servers of the program are closed and opened again when a *)
(* configuration is applied or patched.  Every ReCreate function holds a   *)
(* lock of its own; whole configurations are applied one at a time, patches*)
(* at any time.  An address is its port; who may connect (allowLan, the    *)
(* address to bind) and what the servers do with connections is left out.  *)
(***************************************************************************)
EXTENDS Integers, Sequences, FiniteSets, SequencesExt

CONSTANTS
    Confs,       \* configurations: ports, inbound, tunnels, tun
    Changes,     \* patches: the ports they name
    Requests,    \* requests to the REST interface
    Ports,
    MaxToggles   \* bound: times another program takes or frees a port

Kinds == {"http", "socks", "redir", "tproxy", "mixed", "ss", "vmess", "tuic"}
Protos == {"tcp", "udp"}
Inbounds == UNION {DOMAIN c.inbound : c \in Confs}

(* Who holds a port, besides a kind of server or an inbound listener.       *)
Free == "free"
Other == "other"
Tunnel == "tunnel"
Lost == "lost"
Nil == [addr |-> 0, open |-> FALSE]

(* What the configurations and patches may ask for; 0 stands for no port.   *)
Sane ==
    /\ 0 \notin Ports
    /\ Inbounds \cap (Kinds \cup {Free, Other, Tunnel, Lost}) = {}
    /\ \A c \in Confs :
         /\ c.ports \in [Kinds -> Ports \cup {0}]
         /\ c.inbound \in [DOMAIN c.inbound -> Ports]
         /\ \A t \in c.tunnels : t[1] \in Protos /\ t[2] \in Ports
    /\ \A change \in Changes :
         DOMAIN change \subseteq Kinds /\ \A k \in DOMAIN change : change[k] \in Ports \cup {0}

VARIABLES
    net,      \* ports held, and the variables that hold listeners
    toggles,
    mux,      \* executor.mux
    req       \* per request: what it asks, what is left to do, what it found

vars == <<net, toggles, mux, req>>

NoConf == [ports |-> [k \in Kinds |-> 0], inbound |-> <<>>, tunnels |-> {}, tun |-> 0]
FreePorts == [x \in Protos |-> [p \in Ports |-> Free]]

(* todo: the calls to make; left: the inbound listeners still to walk.      *)
Resting(state) ==
    [state |-> state, solo |-> FALSE, force |-> FALSE, conf |-> NoConf, named |-> {},
     before |-> FreePorts, todo |-> <<>>, left |-> {}]

Init ==
    /\ net = [held |-> FreePorts,
              lis |-> [k \in Kinds |-> [x \in Protos |-> Nil]], lastTuic |-> 0,
              inbound |-> [name \in Inbounds |-> Nil], tunnels |-> {}, tun |-> 0, lastTun |-> 0]
    /\ toggles = 0
    /\ mux = 0
    /\ req = [r \in Requests |-> Resting("idle")]

-----------------------------------------------------------------------------
CanListen(n, x, p) == n.held[x][p] = Free
Listen(n, k, x, p) == [n EXCEPT !.held[x][p] = k, !.lis[k][x] = [addr |-> p, open |-> TRUE]]
CloseSocket(n, k, x) ==
    IF n.lis[k][x].open THEN [n EXCEPT !.held[x][n.lis[k][x].addr] = Free, !.lis[k][x].open = FALSE]
    ELSE n
CloseAndForget(n, k, x) == [CloseSocket(n, k, x) EXCEPT !.lis[k][x] = Nil]
ForgetOther(n, k, x, p) == IF n.lis[k][x].addr = p THEN n ELSE CloseAndForget(n, k, x)

(* HTTP, VMess and TUIC: one listener.                                      *)
ReCreateOne(n, k, x, p) ==
    LET m == ForgetOther(n, k, x, p) IN
    IF m.lis[k][x].addr = p \/ p = 0 \/ ~CanListen(m, x, p) THEN m
    ELSE Listen(m, k, x, p)
ReCreateHTTP(n, p) == ReCreateOne(n, "http", "tcp", p)
ReCreateVmess(n, p) == ReCreateOne(n, "vmess", "tcp", p)
ReCreateTuic(n, p) == [ReCreateOne(n, "tuic", "udp", p) EXCEPT !.lastTuic = p]

ForgetBoth(n, k, p) == ForgetOther(ForgetOther(n, k, "tcp", p), k, "udp", p)
Same(n, k, p) == \A x \in Protos : n.lis[k][x].addr = p
ListenBoth(n, k, p) == Listen(Listen(n, k, "tcp", p), k, "udp", p)

(* Shadowsocks: a UDP socket whose TCP one then cannot be opened is lost.   *)
ReCreateShadowSocks(n, p) ==
    LET m == ForgetBoth(n, "ss", p) IN
    IF Same(m, "ss", p) \/ p = 0 \/ ~CanListen(m, "udp", p) THEN m
    ELSE IF CanListen(m, "tcp", p) THEN ListenBoth(m, "ss", p)
    ELSE [m EXCEPT !.held["udp"][p] = Lost]

(* Mutant: the TCP listener is kept when the UDP listener fails. *)
ReCreateSocksKeeps(n, p) ==
    LET m == ForgetBoth(n, "socks", p) IN
    IF Same(m, "socks", p) \/ p = 0 \/ ~CanListen(m, "tcp", p) THEN m
    ELSE IF ~CanListen(m, "udp", p) THEN [m EXCEPT !.held["tcp"][p] = "socks"]
    ELSE ListenBoth(m, "socks", p)

(* SOCKS: both listeners or none.                                           *)
ReCreateSocks(n, p) ==
    LET m == ForgetBoth(n, "socks", p) IN
    IF Same(m, "socks", p) \/ p = 0 \/ ~CanListen(m, "tcp", p) \/ ~CanListen(m, "udp", p) THEN m
    ELSE ListenBoth(m, "socks", p)

(* Mixed: the TCP listener is in its variable before the UDP one is tried.  *)
ReCreateMixed(n, p) ==
    LET m == ForgetBoth(n, "mixed", p) IN
    IF Same(m, "mixed", p) \/ p = 0 THEN m
    ELSE IF ~CanListen(m, "tcp", p) THEN [m EXCEPT !.lis["mixed"]["tcp"] = Nil]
    ELSE IF CanListen(m, "udp", p) THEN ListenBoth(m, "mixed", p)
    ELSE [m EXCEPT !.lis["mixed"] = [tcp |-> [addr |-> p, open |-> FALSE], udp |-> Nil]]

(* Redirect and TProxy: they run without UDP when that fails.               *)
ReCreateRedir(n, k, p) ==
    LET m == CloseAndForget(n, k, "tcp")
        c == CloseAndForget(m, k, "udp") IN
    IF n.lis[k]["tcp"] # Nil /\ n.lis[k]["tcp"].addr = p THEN n
    ELSE IF n.lis[k]["udp"] # Nil /\ n.lis[k]["udp"].addr = p THEN m
    ELSE IF p = 0 \/ ~CanListen(c, "tcp", p) THEN c
    ELSE IF CanListen(c, "udp", p) THEN ListenBoth(c, k, p) ELSE Listen(c, k, "tcp", p)
ReCreateTProxy(n, p) == ReCreateRedir(n, "tproxy", p)

(* One that does not start is remembered as not enabled.                    *)
ReCreateTun(n, conf, starts) ==
    IF conf = n.lastTun THEN n
    ELSE LET t == IF starts THEN conf ELSE 0 IN [n EXCEPT !.tun = t, !.lastTun = t]

(* One that cannot listen is skipped: its predecessor, by then closed, stays*)
(* in the map under its name.                                               *)
PatchInbound(n, name, p) ==
    LET was == n.inbound[name]
        c == IF was.open THEN [n EXCEPT !.held["tcp"][was.addr] = Free, !.inbound[name].open = FALSE]
             ELSE n
    IN  IF was.addr = p THEN n
        ELSE IF ~CanListen(c, "tcp", p) THEN c
        ELSE [c EXCEPT !.held["tcp"][p] = name, !.inbound[name] = [addr |-> p, open |-> TRUE]]

DropInbound(n, names) ==
    [n EXCEPT
        !.held["tcp"] = [p \in Ports |-> IF @[p] \in Inbounds \ names THEN Free ELSE @[p]],
        !.inbound = [name \in Inbounds |-> IF name \in names THEN @[name] ELSE Nil]]

(* Tunnels <<network, port, target>>: what differs is closed, then created; *)
(* of those with one port one at most.                                      *)
SamePort(t, u) == t[1] = u[1] /\ t[2] = u[2]
CloseTunnels(n, close) ==
    [n EXCEPT !.tunnels = @ \ close,
              !.held = [x \in Protos |-> [p \in Ports |->
                  IF \E t \in close : SamePort(t, <<x, p>>) THEN Free ELSE @[x][p]]]]
OpenTunnels(n, made) ==
    [n EXCEPT !.tunnels = @ \cup made,
              !.held = [x \in Protos |-> [p \in Ports |->
                  IF \E t \in made : SamePort(t, <<x, p>>) THEN Tunnel ELSE @[x][p]]]]
Startable(n, new) == {t \in new \ n.tunnels : CanListen(n, t[1], t[2])}
Started(able) ==
    {made \in SUBSET able :
        /\ \A t, u \in made : SamePort(t, u) => t = u
        /\ \A t \in able : \E u \in made : SamePort(t, u)}
PatchTunnel(n, new) ==
    LET c == CloseTunnels(n, n.tunnels \ new) IN
    {OpenTunnels(c, made) : made \in Started(Startable(c, new))}

-----------------------------------------------------------------------------
Idle(r) == req[r].state = "idle" /\ \A q \in Requests : q < r => req[q].state # "idle"
Active == {r \in Requests : req[r].state \in {"put", "patch"}}
Overlap == [r \in Requests |-> IF r \in Active THEN [req[r] EXCEPT !.solo = FALSE] ELSE req[r]]

PutSteps(force) ==
    IF force THEN <<"inbound", "http", "socks", "redir", "tproxy", "mixed", "ss", "vmess", "tuic",
                    "tun", "tunnels">>
    ELSE <<"inbound", "tun", "tunnels">>
PatchSteps == <<"http", "socks", "redir", "tproxy", "mixed", "tun", "ss", "vmess", "tuic">>

(* ApplyConfig; without force the ports stay as they are.                   *)
ApplyConfig(r) ==
    /\ Idle(r) /\ mux = 0
    /\ mux' = r
    /\ \E conf \in Confs, force \in BOOLEAN :
         req' = [Overlap EXCEPT ![r] =
             [state |-> "put", solo |-> Active = {}, force |-> force, conf |-> conf, named |-> {},
              before |-> net.held, todo |-> PutSteps(force), left |-> DOMAIN conf.inbound]]
    /\ UNCHANGED <<net, toggles>>

(* Of Shadowsocks and VMess GetPorts has the JSON of the configuration; what*)
(* takes it expects a URL, fails to parse it, and goes on as for an empty   *)
(* one: it closes the server.                                               *)
Unparsable == {"ss", "vmess"}
GetPorts == [k \in Kinds |-> IF k \in Unparsable THEN 0 ELSE net.lis[k]["tcp"].addr]

(* patchConfigs: what the patch does not name is what GetPorts found.       *)
PatchConfigs(r) ==
    /\ Idle(r)
    /\ \E change \in Changes :
         LET ports == [k \in Kinds |-> IF k \in DOMAIN change THEN change[k] ELSE GetPorts[k]] IN
         req' = [Overlap EXCEPT ![r] =
             [state |-> "patch", solo |-> Active = {}, force |-> FALSE,
              conf |-> [NoConf EXCEPT !.ports = ports], named |-> DOMAIN change,
              before |-> net.held, todo |-> PatchSteps, left |-> {}]]
    /\ UNCHANGED <<net, toggles, mux>>

(* A patch that does not name them leaves TUIC and TUN as they were last    *)
(* asked for, which is read when their turn comes.                          *)
Target(r, k) ==
    IF req[r].state = "patch" /\ k = "tuic" /\ k \notin req[r].named THEN net.lastTuic
    ELSE req[r].conf.ports[k]
TunTarget(r) == IF req[r].state = "patch" THEN net.lastTun ELSE req[r].conf.tun

ReCreate(n, k, p) ==
    CASE k = "http" -> ReCreateHTTP(n, p)
      [] k = "socks" -> ReCreateSocks(n, p)
      [] k = "redir" -> ReCreateRedir(n, k, p)
      [] k = "tproxy" -> ReCreateTProxy(n, p)
      [] k = "mixed" -> ReCreateMixed(n, p)
      [] k = "ss" -> ReCreateShadowSocks(n, p)
      [] k = "vmess" -> ReCreateVmess(n, p)
      [] k = "tuic" -> ReCreateTuic(n, p)

(* PatchInboundListeners walks the map in any order.                        *)
Walk(r) ==
    /\ req[r].todo # <<>> /\ Head(req[r].todo) = "inbound"
    /\ \E name \in req[r].left :
         /\ net' = PatchInbound(net, name, req[r].conf.inbound[name])
         /\ req' = [req EXCEPT ![r].left = @ \ {name}]
    /\ UNCHANGED <<toggles, mux>>

(* The calls of a request that end with a step.                             *)
Step(r) ==
    /\ req[r].todo # <<>>
    /\ LET k == Head(req[r].todo)
           conf == req[r].conf IN
       \/ k \in Kinds /\ net' = ReCreate(net, k, Target(r, k))
       \/ k = "tun" /\ \E starts \in BOOLEAN : net' = ReCreateTun(net, TunTarget(r), starts)
       \/ k = "tunnels" /\ net' \in PatchTunnel(net, conf.tunnels)
       \/ k = "inbound" /\ req[r].left = {} /\ net' = DropInbound(net, DOMAIN conf.inbound)
    /\ req' = [req EXCEPT ![r].todo = Tail(@)]
    /\ UNCHANGED <<toggles, mux>>

Done(r) ==
    /\ r \in Active /\ req[r].todo = <<>>
    /\ req' = [req EXCEPT ![r] = Resting("done")]
    /\ mux' = IF mux = r THEN 0 ELSE mux
    /\ UNCHANGED <<net, toggles>>

(* Another program takes a port or frees it.                                *)
Toggle(x, p) ==
    /\ toggles < MaxToggles
    /\ toggles' = toggles + 1
    /\ net.held[x][p] \in {Free, Other}
    /\ net' = [net EXCEPT !.held[x][p] = IF @ = Free THEN Other ELSE Free]
    /\ UNCHANGED <<mux, req>>

Next ==
    \/ \E r \in Requests : ApplyConfig(r) \/ PatchConfigs(r) \/ Walk(r) \/ Step(r) \/ Done(r)
    \/ \E x \in Protos, p \in Ports : Toggle(x, p)

Spec == Init /\ [][Next]_vars

-----------------------------------------------------------------------------
(* Every port the program holds is the port of a listener it can still      *)
(* reach and close, but for the one socket that Shadowsocks loses.          *)
NoSocketLeaks ==
    \A x \in Protos, p \in Ports :
        LET k == net.held[x][p] IN
        /\ k \in Kinds => net.lis[k][x] = [addr |-> p, open |-> TRUE]
        /\ k = Tunnel => \E t \in net.tunnels : SamePort(t, <<x, p>>)
        /\ k \in Inbounds => net.inbound[k] = [addr |-> p, open |-> TRUE]

(* The ports that request r leaves open, when nothing else was going on:    *)
(* after a configuration none that it does not ask for, those of the servers*)
(* if it was applied by force; after a patch those of every server that it  *)
(* does not name.  Excepted are Shadowsocks and VMess, which a patch closes *)
(* that does not name them.                                                 *)
LeftAsSaid(r) ==
    \A x \in Protos, p \in Ports :
        LET k == net.held[x][p]
            conf == req[r].conf
            before == req[r].before[x][p] IN
        /\ req[r].state = "put" =>
             /\ req[r].force /\ k \in Kinds => conf.ports[k] = p
             /\ k = Tunnel => \E t \in conf.tunnels : SamePort(t, <<x, p>>)
             /\ k \in Inbounds => k \in DOMAIN conf.inbound /\ conf.inbound[k] = p
        /\ req[r].state = "patch" /\ before \in Kinds \ (req[r].named \cup Unparsable) => k = before

(* Whatever of two requests and failures to listen overlap, no socket is    *)
(* left that nobody can close, and a request leaves open what it says.      *)
RequestsAreObeyed ==
    [][/\ net' # net => NoSocketLeaks'
       /\ \A r \in Requests :
            req'[r].state = "done" /\ req[r].solo => LeftAsSaid(r)]_vars
=============================================================================
