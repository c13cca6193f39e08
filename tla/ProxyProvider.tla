---------------------------- MODULE ProxyProvider ----------------------------
(***************************************************************************)
(* A proxy provider: the Fetcher that reads its contents (HTTP or a file), *)
(* keeps them in a file and hands the proxies to the provider, and a group *)
(* that caches them under the version it saw.                              *)
(*                                                                         *)
(* Contents are numbers; the torn copy of c that a write leaves behind     *)
(* which fails or is cut off is -c.  Every parsed list of proxies is a     *)
(* load, numbered as it is published.                                      *)
(***************************************************************************)
EXTENDS Integers, Sequences

CONSTANTS
    Updaters,       \* the pull loop, or watcher, and the calls of the REST API
    Readers,        \* callers of GetProxies
    Unparsable,     \* contents the parser refuses, whole or torn
    Filtered,       \* contents of which the filter of the group leaves nothing
    MaxContent,     \* bound: the remote changes up to this content
    MaxLoads,       \* bound: loads between two crashes
    MaxCrashes      \* bound: how often the program is killed

Nothing == 0        \* no file, no hash, no contents

VARIABLES
    kind,           \* "HTTP" or "File"
    remote,         \* what the server has
    file,
    crashes,
    hash,           \* Fetcher.hash
    loads,          \* the contents of each load
    proxies,        \* baseProvider.proxies: number of a load
    version,        \* baseProvider.version
    late,           \* Initial took the file and loaded it after another load
    mutex,          \* loadBufMutex
    updater,        \* [at, buf, hash] of each updater
    seen, cached,   \* GroupBase.providerVersions, providerProxies
    lock,           \* getProxiesMutex
    reader,         \* [at, seen, got, began] of each reader
    outdated        \* a reader returned less than was published when it began

sourceVars == <<kind, remote, file, crashes>>
fetchVars == <<hash, loads, proxies, version, late>>
readerVars == <<seen, cached, lock, reader, outdated>>
vars == <<sourceVars, fetchVars, mutex, updater, readerVars>>

Free == "free"
IdleUpdater == [at |-> "idle", buf |-> Nothing, hash |-> Nothing]
IdleReader == [at |-> "idle", seen |-> 0, got |-> {}, began |-> 0]

Fresh ==
    /\ hash = Nothing /\ loads = <<>> /\ proxies = 0 /\ version = 0 /\ late = FALSE
    /\ mutex = Free
    /\ seen = -1 /\ cached = {} /\ lock = Free

Init ==
    /\ kind \in {"HTTP", "File"}
    /\ remote = 1 /\ crashes = 0
    /\ file \in {Nothing, 1}
    /\ Fresh
    /\ \E first \in Updaters :      \* Initial is under way
         updater = [u \in Updaters |-> IF u = first THEN [IdleUpdater EXCEPT !.at = "initial"]
                                                    ELSE IdleUpdater]
    /\ reader = [r \in Readers |-> IdleReader]
    /\ outdated = FALSE

Go(u, l) == updater' = [updater EXCEPT ![u].at = l]
GiveUp(u) == updater' = [updater EXCEPT ![u] = IdleUpdater]

-----------------------------------------------------------------------------
(* Initial takes the file if there is one, and updates if that fails.       *)
Initial(u) ==
    /\ updater[u].at = "initial"
    /\ updater' = [updater EXCEPT ![u] =
         IF file # Nothing THEN [at |-> "load file", buf |-> file, hash |-> file]
                           ELSE [IdleUpdater EXCEPT !.at = "read"]]
    /\ UNCHANGED <<sourceVars, fetchVars, mutex, readerVars>>

(* The hash goes into the request. *)
Update(u) ==
    /\ \/ updater[u].at = "idle"
          /\ \A v \in Updaters : updater[v].at # "initial"
       \/ updater[u].at = "read"
    /\ updater' = [updater EXCEPT ![u] = [at |-> "reading", buf |-> Nothing, hash |-> hash]]
    /\ UNCHANGED <<sourceVars, fetchVars, mutex, readerVars>>

Source == IF kind = "HTTP" THEN remote ELSE file

(* The contents, "not modified", or an error. *)
Read(u) ==
    /\ updater[u].at = "reading"
    /\ \/ /\ Source # Nothing
          /\ updater' = [updater EXCEPT ![u] = [at |-> "load", buf |-> Source, hash |-> Source]]
       \/ /\ kind = "HTTP" /\ updater[u].hash = remote
          /\ updater' = [updater EXCEPT ![u].at = "load"]
       \/ GiveUp(u)
    /\ UNCHANGED <<sourceVars, fetchVars, mutex, readerVars>>

(* loadBuf: what is the same, or empty because it is not modified, or makes *)
(* no sense is left.                                                        *)
LoadBuf(u) ==
    LET buf == updater[u].buf
        same == updater[u].hash = hash \/ buf = Nothing
    IN
    /\ updater[u].at \in {"load", "load file"} /\ mutex = Free
    /\ Len(loads) < MaxLoads       \* bound
    /\ IF same \/ buf \in Unparsable
         THEN /\ IF ~same /\ updater[u].at = "load file" THEN Go(u, "read") ELSE GiveUp(u)
              /\ UNCHANGED <<mutex, late>>
         ELSE /\ Go(u, IF updater[u].at = "load" /\ kind = "HTTP" THEN "write" ELSE "assign")
              /\ mutex' = u
              /\ late' = (updater[u].at = "load file" /\ loads # <<>>)
    /\ UNCHANGED <<sourceVars, hash, loads, proxies, version, readerVars>>

(* WriteFile truncates, then writes; a failure ends the update. *)
Truncate(u) ==
    /\ updater[u].at = "write"
    /\ file' = -updater[u].buf
    /\ Go(u, "writing")
    /\ UNCHANGED <<kind, remote, crashes, fetchVars, mutex, readerVars>>

Written(u) ==
    /\ updater[u].at = "writing"
    /\ file' = updater[u].buf
    /\ Go(u, "assign")
    /\ UNCHANGED <<kind, remote, crashes, fetchVars, mutex, readerVars>>

WriteFails(u) ==
    /\ updater[u].at = "writing"
    /\ GiveUp(u)
    /\ mutex' = Free
    /\ UNCHANGED <<sourceVars, fetchVars, readerVars>>

(* The hash, and setProxies: the proxies before their version. *)
Assign(u) ==
    /\ updater[u].at = "assign"
    /\ hash' = updater[u].hash
    /\ loads' = Append(loads, updater[u].buf)
    /\ proxies' = Len(loads')
    /\ Go(u, "version")
    /\ UNCHANGED <<sourceVars, version, late, mutex, readerVars>>

SetVersion(u) ==
    /\ updater[u].at = "version"
    /\ version' = version + 1
    /\ GiveUp(u)
    /\ mutex' = Free
    /\ UNCHANGED <<sourceVars, hash, loads, proxies, late, readerVars>>

-----------------------------------------------------------------------------
(* GetProxies: the version is read outside the mutex *)

ReadVersion(r) ==
    /\ reader[r].at = "idle"
    /\ reader' = [reader EXCEPT ![r] = [at |-> "lock", seen |-> version, got |-> {}, began |-> version]]
    /\ UNCHANGED <<sourceVars, fetchVars, mutex, updater, seen, cached, lock, outdated>>

Return(r, got) ==
    /\ reader' = [reader EXCEPT ![r] = IdleReader]
    /\ outdated' = (outdated \/ \E l \in got : l < reader[r].began)

Lock(r) ==
    /\ reader[r].at = "lock" /\ lock = Free
    /\ IF reader[r].seen # seen
         THEN /\ reader' = [reader EXCEPT ![r].at = "first"]
              /\ lock' = r
              /\ UNCHANGED outdated
         ELSE Return(r, cached) /\ UNCHANGED lock
    /\ UNCHANGED <<sourceVars, fetchVars, mutex, updater, seen, cached>>

(* The proxies are read again for each pattern of the filter. *)
Collect(r) ==
    /\ reader[r].at = "first"
    /\ reader' = [reader EXCEPT ![r].at = "second", ![r].got = {proxies}]
    /\ UNCHANGED <<sourceVars, fetchVars, mutex, updater, seen, cached, lock, outdated>>

Kept(r) == {l \in (reader[r].got \cup {proxies}) \ {0} : loads[l] \notin Filtered}

(* Mutant: the cache is given the version of its end. *)
CollectAtVersion(r) ==
    /\ reader[r].at = "second"
    /\ Return(r, Kept(r))
    /\ IF Kept(r) = {} THEN UNCHANGED <<seen, cached>>
                       ELSE seen' = version /\ cached' = Kept(r)
    /\ lock' = Free
    /\ UNCHANGED <<sourceVars, fetchVars, mutex, updater>>

(* Without any proxy left the group stands in with one of its own, and      *)
(* keeps the cache.                                                         *)
CollectLast(r) ==
    /\ reader[r].at = "second"
    /\ Return(r, Kept(r))
    /\ IF Kept(r) = {} THEN UNCHANGED <<seen, cached>>
                       ELSE seen' = reader[r].seen /\ cached' = Kept(r)
    /\ lock' = Free
    /\ UNCHANGED <<sourceVars, fetchVars, mutex, updater>>

-----------------------------------------------------------------------------
(* The server publishes; the user edits the file of a file provider.        *)
Publish ==
    /\ remote < MaxContent
    /\ remote' = remote + 1
    /\ file' = IF kind = "File" THEN remote' ELSE file
    /\ UNCHANGED <<kind, crashes, fetchVars, mutex, updater, readerVars>>

(* The program is killed, and starts again with what the file has. *)
Crash ==
    /\ crashes < MaxCrashes
    /\ crashes' = crashes + 1
    /\ hash' = Nothing /\ loads' = <<>> /\ proxies' = 0 /\ version' = 0 /\ late' = FALSE
    /\ mutex' = Free
    /\ \E first \in Updaters :
         updater' = [u \in Updaters |-> IF u = first THEN [IdleUpdater EXCEPT !.at = "initial"]
                                                     ELSE IdleUpdater]
    /\ seen' = -1 /\ cached' = {} /\ lock' = Free
    /\ reader' = [r \in Readers |-> IdleReader]
    /\ UNCHANGED <<kind, remote, file, outdated>>

-----------------------------------------------------------------------------
Next ==
    \/ \E u \in Updaters :
         \/ Initial(u) \/ Update(u) \/ Read(u) \/ LoadBuf(u)
         \/ Truncate(u) \/ Written(u) \/ WriteFails(u) \/ Assign(u) \/ SetVersion(u)
    \/ \E r \in Readers : ReadVersion(r) \/ Lock(r) \/ Collect(r) \/ CollectLast(r)
    \/ Publish \/ Crash

-----------------------------------------------------------------------------
(* GetProxies returns nothing older than what was published when it began.  *)
NothingOutdated == ~outdated

(* Between updates the hash, by which an unchanged download is recognised,  *)
(* is that of the proxies in use, and the file a restart begins with is     *)
(* the same contents or a torn one.                                         *)
HashIsServed ==
    mutex = Free =>
        /\ proxies > 0 => loads[proxies] = hash
        /\ kind = "HTTP" /\ hash # Nothing /\ ~late => file \in {hash} \cup -MaxContent .. -1

ProviderIsSound == NothingOutdated /\ HashIsServed
=============================================================================
