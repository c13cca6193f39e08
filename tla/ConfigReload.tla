------------------------------ MODULE ConfigReload ------------------------------
(***************************************************************************)
(* hub: a configuration is parsed, with the general part of it in force    *)
(* for the time being, and then applied part by part under a mutex while   *)
(* the tunnel is suspended.  Connections that are already past the test of *)
(* the status read what they find; patches of the REST interface change    *)
(* the general part and the ports without the mutex.  A part of the state  *)
(* is the number of the request that wrote it, 0 before the first one.  The *)
(* ports, with the addresses they are bound to, are the business of forced  *)
(* applications and of patches; TUN, which every application and every     *)
(* patch re-creates, is left out.                                          *)
(***************************************************************************)
EXTENDS Naturals, FiniteSets

CONSTANTS
    Puts,         \* requests that bring a whole configuration
    Patches,      \* requests that patch the ports and the mode
    Conns,        \* connections from outside
    InnerConns    \* connections of the program's own (providers, updates)

Nobody == 0

(* Request 0 is nobody's.                                                   *)
Numbered == Nobody \notin Puts /\ Nobody \notin Patches /\ Puts \cap Patches = {}

VARIABLES
    status,    \* tunnel.status
    mux,       \* executor.mux: the request that holds it
    part,      \* what each part of the tunnel was last written by
    ports,     \* who made the listeners of the ports as they are
    general,   \* mode, IPv6, geodata settings: updateGeneral's globals
    applied,   \* the last configuration that was applied to the end
    begun,     \* applications begun
    req,       \* per request: progress, and the general part or the ports it saved
    conn       \* per connection: progress, begun when it came, what it read

vars == <<status, mux, part, ports, general, applied, begun, req, conn>>

Parts == {"proxies", "rules", "dns", "inbounds"}

Init ==
    /\ status = "suspend"
    /\ mux = Nobody
    /\ part = [p \in Parts |-> 0]
    /\ ports = 0
    /\ general = 0
    /\ applied = 0
    /\ begun = 0
    /\ req = [r \in Puts \cup Patches |-> [pc |-> "idle", old |-> 0]]
    /\ conn = [c \in Conns \cup InnerConns |-> [pc |-> "new", begun |-> 0, host |-> 0, by |-> {}]]

Go(r, from, to) == req[r].pc = from /\ req' = [req EXCEPT ![r].pc = to]

-----------------------------------------------------------------------------
(* ParseRawConfig: the general part is exchanged first and rolled back last,*)
(* whatever the other parsers say.                                          *)
GetGeneral(r) ==
    /\ req[r].pc = "idle"
    /\ req' = [req EXCEPT ![r] = [pc |-> "saved", old |-> general]]
    /\ UNCHANGED <<status, mux, part, ports, general, applied, begun, conn>>

UpdateTemporarily(r) ==
    /\ Go(r, "saved", "parsing")
    /\ general' = r
    /\ UNCHANGED <<status, mux, part, ports, applied, begun, conn>>

ParseEnds(r) ==
    /\ req[r].pc = "parsing"
    /\ general' = req[r].old
    /\ \E pc \in {"parsed", "refused"} : req' = [req EXCEPT ![r] = [pc |-> pc, old |-> 0]]
    /\ UNCHANGED <<status, mux, part, ports, applied, begun, conn>>

(* ApplyConfig.                                                             *)
LockAndSuspend(r) ==
    /\ mux = Nobody
    /\ Go(r, "parsed", "proxies")
    /\ mux' = r
    /\ status' = "suspend"
    /\ begun' = begun + 1
    /\ UNCHANGED <<part, ports, general, applied, conn>>

Update(r, p, next) ==
    /\ Go(r, p, next)
    /\ part' = [part EXCEPT ![p] = r]
    /\ UNCHANGED <<status, mux, ports, general, applied, begun, conn>>

UpdateProxies(r) == Update(r, "proxies", "rules")
UpdateRules(r) == Update(r, "rules", "general")

UpdateGeneral(r) ==
    /\ Go(r, "general", "dns")
    /\ general' = r
    /\ UNCHANGED <<status, mux, part, ports, applied, begun, conn>>

UpdateDNS(r) == Update(r, "dns", "inbounds")

(* The ports only when the request forces it.                               *)
UpdateListeners(r) ==
    /\ Go(r, "inbounds", "inner")
    /\ part' = [part EXCEPT !["inbounds"] = r]
    /\ ports' \in {ports, r}
    /\ UNCHANGED <<status, mux, general, applied, begun, conn>>

OnInnerLoading(r) ==
    /\ Go(r, "inner", "providers")
    /\ status' = "inner"
    /\ UNCHANGED <<mux, part, ports, general, applied, begun, conn>>

(* Mutant: a provider that fails leaves the tunnel where it was. *)
OnRunningIfLoaded(r) ==
    /\ Go(r, "providers", "done")
    /\ status' \in {status, "running"}
    /\ applied' = r
    /\ mux' = Nobody
    /\ UNCHANGED <<part, ports, general, begun, conn>>

(* loadProvider waits for all of them; one that fails is logged.            *)
OnRunning(r) ==
    /\ Go(r, "providers", "done")
    /\ status' = "running"
    /\ applied' = r
    /\ mux' = Nobody
    /\ UNCHANGED <<part, ports, general, begun, conn>>

(* patchConfigs: what the patch does not name is made again as it was when  *)
(* the ports were read, though an application may have made others since.   *)
GetPorts(r) ==
    /\ req[r].pc = "idle"
    /\ req' = [req EXCEPT ![r] = [pc |-> "got", old |-> ports]]
    /\ UNCHANGED <<status, mux, part, ports, general, applied, begun, conn>>

ReCreatePorts(r) ==
    /\ req[r].pc = "got"
    /\ ports' \in {r, req[r].old}
    /\ req' = [req EXCEPT ![r] = [pc |-> "made", old |-> 0]]
    /\ UNCHANGED <<status, mux, part, general, applied, begun, conn>>

(* The fields that updateGeneral writes too.                                *)
PatchGeneral(r) ==
    /\ Go(r, "made", "done")
    /\ general' \in {general, r}
    /\ UNCHANGED <<status, mux, part, ports, applied, begun, conn>>

-----------------------------------------------------------------------------
IsHandle(c) == status = "running" \/ (status = "inner" /\ c \in InnerConns)

Accept(c) ==
    /\ conn[c].pc = "new"
    /\ conn' = [conn EXCEPT ![c].pc = IF IsHandle(c) THEN "accepted" ELSE "closed", ![c].begun = begun]
    /\ UNCHANGED <<status, mux, part, ports, general, applied, begun, req>>

(* The host of a fake address is looked up: it may be unknown by now.       *)
PreHandleMetadata(c) ==
    /\ conn[c].pc = "accepted"
    /\ \/ conn' = [conn EXCEPT ![c].pc = "handled", ![c].host = part["dns"]]
       \/ conn' = [conn EXCEPT ![c].pc = "closed"]
    /\ UNCHANGED <<status, mux, part, ports, general, applied, begun, req>>

(* The mode is read first, the rules and the proxies under configMux.       *)
ResolveMetadata(c) ==
    /\ conn[c].pc = "handled"
    /\ conn' = [conn EXCEPT ![c].pc = "decided",
                            ![c].by = {conn[c].host, part["rules"], part["proxies"]}]
    /\ UNCHANGED <<status, mux, part, ports, general, applied, begun, req>>

-----------------------------------------------------------------------------
Parse(r) == GetGeneral(r) \/ UpdateTemporarily(r) \/ ParseEnds(r)

ApplyConfig(r) ==
    \/ LockAndSuspend(r) \/ UpdateProxies(r) \/ UpdateRules(r) \/ UpdateGeneral(r)
    \/ UpdateDNS(r) \/ UpdateListeners(r) \/ OnInnerLoading(r) \/ OnRunning(r)

PatchConfigs(r) == GetPorts(r) \/ ReCreatePorts(r) \/ PatchGeneral(r)

Next ==
    \/ \E r \in Puts : Parse(r) \/ ApplyConfig(r)
    \/ \E r \in Patches : PatchConfigs(r)
    \/ \E c \in Conns \cup InnerConns : Accept(c) \/ PreHandleMetadata(c) \/ ResolveMetadata(c)

Spec == Init /\ [][Next]_vars /\ \A r \in Puts : WF_vars(ApplyConfig(r))

-----------------------------------------------------------------------------
(* Between two applications the proxies, the rules, the DNS and the listed  *)
(* inbounds are of one configuration, whatever requests overlapped.  The    *)
(* ports and the general part are excepted: an application that is not      *)
(* forced leaves the ports (executor.go:190-192), and a patch makes its own,*)
(* or those it read before the application, without the mutex               *)
(* (configs.go:340-350).                                                    *)
ConfigIsWhole == mux = Nobody => \A p \in Parts : part[p] = applied

(* A connection is decided by parts of one configuration, unless a reload   *)
(* began after it had been accepted: nothing accepted in the middle of a    *)
(* reload, the program's own downloads included, sees half of it.           *)
DecidedByOneConfig ==
    \A c \in DOMAIN conn :
        conn[c].pc = "decided" /\ conn[c].begun = begun => Cardinality(conn[c].by) = 1

(* A reload never leaves the tunnel suspended, also when providers fail.    *)
RunsAgain == mux # Nobody ~> status = "running"
=============================================================================
