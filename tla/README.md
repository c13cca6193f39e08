# Verification of Clash for Android

This directory holds TLA+ models of the parts of this repository where ordering,
concurrency and failure decide whether the program is right, the TLC
configurations that check them, and TLAPS proofs of the results that matter most.
Paths are relative to `src/`; `…/golang` is `core/src/main/golang`, and the paths of
the core are below `…/golang/clash`.

1. [The system](#1-the-system)
2. [Modules and how they correspond to the code](#2-modules-and-how-they-correspond-to-the-code)
3. [What is checked](#3-what-is-checked)
4. [What is proved](#4-what-is-proved)
5. [What the code does not do](#5-what-the-code-does-not-do)
6. [What is not modelled](#6-what-is-not-modelled)
7. [Plan](#7-plan)

## 1. The system

Clash for Android is three programs: two processes of the phone and a child.

| part | where | process |
|---|---|---|
| user interface: activities, tile, import, settings | `app` | application |
| service: clash service, VPN service, event service, profiles, notification | `service` | `:clash` |
| bridge: control of the child, client of its socket | `core/src/main/java` | `:clash` |
| control server, TUN device, profile loader | `…/golang/{main.go,server,tun,profile}` | the child |
| the mihomo (clash.meta) core | `…/golang/clash` | the child |

### 1.1 Components of the application and the service

**Clash process** (`core/ClashProcess.kt`, `…/golang/main.go`). *State:* the field
`pid` (0 at first, positive while a child is known, -1 after a death) under the
monitor of the object; one reader thread per announced child. *Operations:* `start`
spawns the child and parses its standard output *inside* the monitor; `stop` sends
SIGKILL; the reader clears `pid` inside the monitor and announces STOPPED outside it.
*Hard:* the announcement races with the next start, and the child can end between any
two lines. *Right when* there is one child, a death is always announced, and nobody
waits for the monitor for ever.

**Event service** (`service/ClashEventService.kt`). *State:* the last process event,
the registered observers, one thread with a task queue. *Operations:* register and
unregister an observer, submit an event, recompute which streams are wanted. *Hard:*
the calls come from binder threads, the reader thread and the main thread; observers
die with their process; the one thread of the queue itself calls `start`. *Right when*
every observer ends up with the last event and exactly the wanted streams are pulled.

**Clash service** (`service/ClashService.kt`). *State:* the child, a loader thread
for reloads, its own life as an Android service (started, bound, destroyed).
*Operations:* start, stop, attach a tun device, load the active profile. *Hard:* it is
an observer of the events it causes, and a reload that fails stops whatever child
there is by then.

**TUN service** (`service/TunService.kt`). *State:* the file descriptor of the VPN
interface, whether it wants the process started. *Operations:* bind, process events,
destruction. *Hard:* it hands its descriptor out once, the core can die under it, and
destruction unregisters late. *Right when* the VPN never outlives the core.

**Event puller** (`service/ClashEventPuller.kt`, `core/Clash.kt`,
`…/golang/server/event.go`). *State:* one socket field per stream, a thread per start.
*Hard:* two starts race, a stop arrives before the socket is stored, and closing a
socket does not wake its reader.

**Log stream** (`log`, `common/observable`, `…/golang/server/event.go`,
`hub/route/server.go`). *State:* an unbuffered channel all log calls send on, a
goroutine that copies into a buffer per subscriber while it holds the mutex. *Hard:* a
full buffer blocks it with the mutex held.

**Profile store** (`service/ClashProfileService.kt`, the database, the profile files,
`app/ProfilesActivity.kt`, `…/golang/server/profile.go`). *State:* two tables, a file
per profile, the configuration of the core. *Hard:* the files belong to another
process than the database, an update inserts a copy made long before, and the core is
told of a selection before the database is.

**Activity connection** (`app/BaseActivity.kt`). *State:* the connection all
activities share, a handler thread, a queue of requests. *Hard:* the service dies and
is bound again while the old handler ends, and two places lock different objects.
**Main screen** (`app/MainActivity.kt`). *State:* what it shows. *Hard:* it asks on one
thread and is told on another. **Control server** (`…/golang/server`): one goroutine
per command. **Notification**, **settings**, **network observer**, **tile**, the other
screens: presentation and values without shared state.

### 1.2 Components of the core

| component | where | hard | right when |
|---|---|---|---|
| fake-ip pool | `component/fakeip`, `common/lru` | two bounded caches, each evicts by itself; two operations take no mutex | the caches are the inverse of each other |
| resolver | `dns/resolver.go`, `common/singleflight`, `common/picker` | calls share an exchange, give up, retry; stale answers | every caller is answered, fallback filter respected |
| name mapping | `dns/middleware.go`, `dns/enhancer.go`, `hub/executor` | entries evicted, flushed, inherited at a reload | an address leads to the name that was asked |
| domain patterns | `component/trie` | a succinct set is walked with a hand-made stack | the set has what the trie finds |
| rules | `config/config.go`, `rules`, `tunnel.match` | sub-rules that match nothing, PASS, no UDP support | decides as written |
| proxy groups | `config/config.go`, `config/utils.go`, `adapter/outboundgroup/parser.go` | dependency sort and loop report | accepted exactly when it makes sense |
| groups and health checks | `adapter/outboundgroup`, `adapter/provider/healthcheck.go`, `common/singledo` | choices are shared for a while; failures start checks | a working proxy is found again; nothing stale is kept |
| providers | `adapter/provider`, `component/resource` | pull loop, API and reader at once; torn files | a published update is seen |
| configuration | `hub/executor`, `hub/route/configs.go` | parts are exchanged one by one under connections | one configuration decides |
| listeners | `listener/listener.go` | closed and opened again while ports are taken | ports asked for are open, none leaks |
| TCP connection | `tunnel/tunnel.go`, `common/net/bufconn.go` | a peeker reads while the handler dials and retries | no byte lost or doubled |
| dialer | `component/dialer/dialer.go` | addresses and families race | nothing left open |
| UDP relay | `tunnel/{tunnel,connection}.go`, `component/nat` | sessions end on two sides, names move | packets in order, answers keep their origin |
| sniffer | `component/sniffer` | fragments in any order, a timeout | the name is what was sent |
| concurrent map | `common/xsync/map.go` | lock-free loads, cooperative resize | it is one map |
| anytls sessions | `transport/anytls/session` | three parties end a stream | a session serves one stream and is not lost |
| protocols, REST API | `transport`, `listener/*`, `hub/route` | see section 6 | |

### 1.3 How they interact

```
 activities ---binder---> ClashService ---start/stop---> ClashProcess ---fork/pipe---> child
     ^                     |   ^   ^                          |
     |                     |   |   +----submit STARTED/STOPPED+  (reader thread, start, stop)
     |                     v   |
     +----observers---- ClashEventService --observer--> ClashService, TunService, activities
                           | acquire/release event
                           v
                      ClashEventPuller ---control socket---> control server ---> core (log, traffic)
 ClashProfileService --profile changed--> ClashEventService --> reload --> control server --> core
 activities --------------profile files--------------------------------^
 TunService ---------tun descriptor---> ClashService ---> control server ---> tun device

 inside the core
 control server, REST API --> config (groups, rules) --> executor --> tunnel, DNS, listeners
 tun, listeners --> tunnel --> name mapping, rules --> group --> dialer --> protocol --> network
                      |            |                    ^
                      +-- sniffer  +-- resolver, pool   +-- provider, health check
```

Calls inside `:clash` are direct; calls from the application are binder transactions on
threads of a pool; the child is reached by its standard output and by a local socket,
one connection per command. Inside the core, goroutines share what is named above.

### 1.4 Where it is hard

`PROJECT.json` lists the hazards at their lines, with the properties that cover each.
In short: a monitor held across a blocking read; events announced outside the monitor
that orders them; an event thread that makes blocking calls; streams whose close does
not wake the reader; a mutex held across a channel send; two processes writing one
state; two caches that must agree; operations that forget a mutex; results that are
shared, cached and reset at the same time; racers whose reader has left; a version read
outside the mutex of what it numbers; a deadline two goroutines set.

## 2. Modules and how they correspond to the code

| module | models | used by |
|---|---|---|
| `ClashProcess` | ClashProcess.kt, main.go, delivery of process events | `MCClashProcess`, `ClashService` |
| `UrlTest` | url-test and fallback groups, dial failures, health check, singledo | `MCClashProcess`, `MCCore` |
| `ClashService` | ClashService.kt, TunService.kt, the event queue, the Android main thread; extends `ClashProcess` | `MCClashService` |
| `LogStream` | log.go, common/observable, its two kinds of consumers | `MCStreams` |
| `EventPuller` | one stream of ClashEventPuller.kt and its handler in the child | `MCStreams` |
| `ActivityConnection` | BaseActivity.kt | `MCStreams` |
| `ProfileStore` | database, files, reload, selection, updates | `MCStore` |
| `EventService` | observers of ClashEventService.kt, their deaths, the wanted streams | `MCStore` |
| `MainScreen` | MainActivity.kt with what it hears and asks | `MCStore` |
| `ProxyProvider` | fetcher, vehicle, provider and the proxies a group caches | `MCStore` |
| `LruCache`, `FakeIPPool` | lrucache.go as operators on sequences; pool.go and memory.go | `MCNames` |
| `HostMap` | abstract: what a fake-ip pool promises | `FakeIPPool`, its proofs |
| `DnsResolver` | ExchangeContext and the exchange calls share | `MCCore` |
| `NameMapping` | the DNS handlers, the enhancer, preHandleMetadata | `MCCore` |
| `DomainTrie` | trie, succinct set and its walk | `MCNames`, alone |
| `ProxyGroups` | proxyGroupsDagSort and the making of groups | `MCNames` |
| `TcpConn` | handleTCPConn, peek, retry, relay | `MCTraffic` |
| `UdpNat` | UDP queues, NAT table, sessions | `MCTraffic` |
| `QuicSniff` | quic_sniffer.go and the merge of ranges | `MCTraffic`, alone |
| `ConcurrentMap` | xsync/map.go | `MCTraffic`, `MCCore` |
| `ConfigReload` | parse, ApplyConfig, patches, connections meanwhile | `MCTraffic` |
| `Dialer` | DialContext in all its modes | `MCCore` |
| `AnytlsClient` | client, sessions, streams | `MCCore` |
| `RuleMatch` | parseRules, sub-rules, match | `MCNames` |
| `Listeners` | every ReCreate function, the ports of the system | `MCCore` |
| `MC…` | instances for TLC | |
| `ClashProcessProofs`, `FakeIPPoolProofs` | theorems about one component | |
| `ClashServiceProofs` | theorems about the service; extends `ClashProcessProofs` | |
| `StreamsProofs`, `StoreProofs`, `TrafficProofs`, `CoreProofs` | theorems about the parts of a suite | |
| `MapProofs` | the theorem about the concurrent map, in `MCCore` | |

Six `MC` modules are *suites*: they hold several modules that share no state, with a
variable `subject` that says which of them a behaviour is about; the others keep their
initial state or are off. A suite adds no behaviour and takes none away, and fairness is
stated per subject. A theorem about a part is stated of its own `Spec` where the suite
extends it, and of the suite's specification where the suite instantiates it.
`PROJECT.json`'s `map` gives the lines of every definition. The names are those of the
code wherever TLA+ allows it.

### 2.1 Application and service

**ClashProcess.** `lock`, `stage`, `currentPid` are the monitor, the progress of
`start` inside it, and its local variable. A child has a `phase`, unread lines in `out`
and a `reader`. `StartEnter`, `Spawn`, `SpawnFail`, `ReadPidLine`, `ReadPidEOF`,
`ReadControllerLine`, `ReadControllerEOF` are the steps of `start`; `Stop` is atomic (a
signal); `ReaderEOF`, `ReaderClose`, `ReaderAnnounce` are the three steps of the reader
thread, of which only the second is inside the monitor. `Deliver` is one turn of the
event thread. The lines of the pipe are three kinds of line.

**ClashService.** Extends the process with the threads of `:clash`: `main` takes
callbacks from `inbox` in the order the system posts them, `handler` takes tasks from
`queue`, `loader` the reloads; calls of the user interface run on `binder`. A call of
`start` occupies its thread until the monitor is released (`CallStart`, `InStart`).
`TunOn(e, first)` is onProcessEvent of the TunService: the event it is told at its
registration, and those after it. The steps of the Android framework (`Bind`,
`StartClashService`, `StartTunService`, `Revoke`, `BringDown`) are the environment. One
instance of the service from `onCreate` to `onDestroy`; that some callback may run once
`onDestroy` has begun is in it. The observers are told in the order in which they
registered, and the call of one whose process has died throws and ends the loop
(ClashEventService.kt:31-33): `ahead` is the activities that registered before the
TunService, alive, dead or dead for good (`Watch`, `UiDies`, `Unwatch`), `Reached` says
whether the loop gets past them, and `hidden` is a history of the events that the
TunService missed because it did not.

**EventService.** One handler thread takes the tasks in order (`Deliver`, `Register`,
`Unregister`, `RecastEventRequirement`). `UiDies` and `UiReturns` are the process of the
user interface; `BinderDied` is a death notice, which knows an id, takes the record of
that id out (`Without`) and may come late.

**MainScreen.** `OnStart` queues three requests, `RunRequest` runs them on the handler
thread of the activity, `PerformEvent` is the event service, which calls the screen on
a binder thread (`Heard`), and `Show` is the main thread. `ReloadProfile`,
`LoadProfile`, `PerformProfileReloadEvent` are the loader thread of the service.

**EventPuller.** `StartSpeedPull`, `Connect`, `Initial`, `ReadFails`, `Clear` are the
steps of a start and its thread; `StopSpeedPull` writes the byte and closes;
`ServerExit` and `ChildDies` are the other end.

**ActivityConnection.** The main thread runs `OnCreate`, `OnDestroy` and the callbacks
of the binding; `onServiceConnected` is three steps because its lock is another object
than that of the rest. `Take`, `Run`, `End` are a handler thread.

**LogStream.** `Log`/`Receive` are the two halves of a send on the unbuffered channel,
`Lock`, `Emit`, `Unlock` the loop of `process`, `Subscribe`, `UnSubscribe`, and per
consumer `Drain`, `RequestEnds` (REST) or `TakeEvent`, `Written`, `TakeExit`,
`ClientLeaves`, `WriteFails` (control server).

**ProfileStore.** Every binder call is an action; a reload is `ReloadQuery`,
`ReloadSelected`, `ReloadLoad`, `ReloadStop` because each step is a call of its own; an
update is `UpdateProfile` (the row is copied), `UpdateTruncates`, `UpdateWrites` or
`UpdateFails`, `UpdateInserts`; a selection is `SelectInCore` and `SelectStored`.

### 2.2 Names

**FakeIPPool.** A call takes the mutex (`Enter`) and is one step per operation on a
cache: `Lookup`, `Hit` or `NextOffset`, `DelByIP`, `DeleteHost`, `DeleteIP`, `PutByIP`,
`PutByHost`; `LookBack`, `Back`. `FlushIP`, `FlushHost`, `FlushFields` are a flush,
`CloneIP`, `CloneHost`, `Switch` a reload. `Overlap` says whether those two run between
the steps of a call, as in the code, or wait for it. Ages are left out of `LruCache`:
the pool sets none. Addresses are the numbers from `first - 1`, the offset of an empty
pool.

**DnsResolver.** One question. Every call has a background fetch that it may start;
`flight` is the call in the singleflight group, with the servers at work. An answer is
clean, filtered or empty, which is all the fallback rules look at.

**NameMapping.** Above the pool, which is taken as `HostMap` promises it. `FakeIP`,
`Resolve`, `ResolveUnmapped` are the handlers in front of the resolver, `Forget` an
eviction or expiry. A reload is two steps (executor.go:276-299): `PatchFrom` makes the new
enhancer and clones the old one into it (`pending`, `clone`), `UpdateDNS` puts it in
force; what the old one answers in between is recorded in the old one. A query that waits
for the resolver keeps the handler it was asked of, so one asked before the switch
records its answer with an enhancer nobody asks any more (`AnswerOfEarlier`,
middleware.go:108-141). `late` and `unseen` are histories of these answers.

**DomainTrie.** Labels are one byte each: 0 the empty label of a dot wildcard, 1 "*",
2 "+", 3 the dot; the walk of the set is over bytes with its stack of wildcards.
**ProxyGroups.** `Build`, `Sort`, `Locate`, `Prune`, `Report` are the loops of
proxyGroupsDagSort; `MakeGroup` is one turn of the loop of parseProxies. What a refusal
names is stated exactly: the groups on a loop and those on a way from one loop to
another (`BetweenLoops`).

### 2.3 Traffic

**TcpConn.** The peeker and the handler are two goroutines with the mutex `peekMutex`,
one buffer (`fetched`, `taken`) and one read deadline. **Dialer.** Each address has a
racer; `Hear` is the reader of results, `Drop` a racer whose reader has returned,
`LateFamily` the same one level up. **UdpNat.** `HandleUDPPacket` queues, `Worker` is
processUDP, `Sender(s)` and `RelayEnds(s)` are the goroutines of a session. Packets are
buffers that are given back; `Send` and `Put` are the two selects of Send, between which
the session may end and its channel be emptied. An origin is an address or a domain,
which has none (`Address`), and whose record a later origin writes over. **QuicSniff.** `Crypto(offset, end)` is one CRYPTO frame,
`TryAssemble`, `Assembled` the two parts of the assembly between which `Close` may come.
The ranges are a set, and `Merge` is what the merge of ranges.go yields; `MergeList` is
how it does so, and TLC finds the two equal on all lists of up to three ranges of up to
six offsets (`ListsAgree`).
**ConcurrentMap.** Calls are steps per critical section and per atomic access; `tables`
holds every table ever made, since old ones stay readable. A resize copies a bucket
slot after slot while it holds the mutex of the bucket, which nobody can tell from
copying it at once but for a load, which takes no mutex and does not mind. `abs` and
`held` are history: the map as its callers may see it, and what it was since a call
began. An update whose table a Clear has replaced after its checks counts as made before
that Clear; only the calls that still look at the cleared table can see it. A Clear that
finds a resize in progress waits for it and returns (map.go:596-599): its call ends with
`lost` set, which is what the history excepts.
**AnytlsClient.** `user`, `recv`, `closer` are the three kinds of goroutines that end
streams. A reused session writes its SYN at once, so from `WriteSyn` on the server may
end the stream, although `SetDieHook` is still to come; a stream that dies before that
runs no hook (`HookIsSet`, `Dies`, `missed`). **RuleMatch**: a step per rule.

**Listeners.** `net` holds who has each port and the variables of the servers; a request
has a list of calls to make (`todo`) and makes one per step, but for the walk over the
inbound listeners, which goes name by name in any order (`Walk`). Each server has one
address, and every function that re-creates one holds its own mutex, so a call is one
step; applications of a whole configuration take turns, patches do not. What fails is
what another program decides by taking a port (`Toggle`). TUIC and TUN are asked for as
they were last asked for when a patch does not name them, everything else as GetPorts
found it - which for Shadowsocks and VMess is JSON of their configuration where a URL is
parsed (`Unparsable`), so that such a patch closes them.

### 2.4 Configuration and health

**ConfigReload.** Each part of the tunnel is the number of the request that wrote it;
`ApplyConfig` is one step per part, between which connections read. The ports are a part
of their own: an application makes them only when it is forced, a patch reads them
(`GetPorts`), makes its own or those it read (`ReCreatePorts`) and changes the general
part (`PatchGeneral`), all without the mutex. **UrlTest.** A
`Dialer` is one connection at a time through the group, with the steps of singledo and
of the goroutine a failure starts. The computation it runs is the steps between which
another one may come: the loop over the proxies (`Scan`), the test of fastNode (`Judge`),
the write (`Replace`), and the return, which reads fastNode again (`ReturnFastNode`).
`Test(p)` is the health check of one proxy; `old` marks what was computed before the last
Reset, `met` the computations that another ran beside. **ProxyProvider.** An updater reads,
compares, writes the file and publishes; a crash may leave a torn file; a reader is
GetProxies of a group, which reads the version before the mutex.

## 3. What is checked

All runs are exhaustive.

| run | parts and instance | properties | shows |
|---|---|---|---|
| `process_early` | process: 2 callers, 3 children that may end any time, 3 events; a group: 2 connections, 2 proxies, one change | `StartedIsWatched`, `NoFalseStarted`, `MonitorIsReleased`, `DeathIsDelivered`, `GroupRecovers` | pid, events and monitor stay consistent; connections end up on a proxy that works |
| `process_error` | process: 1 child | `ErrorIsNotStarted`, violated | see section 5 |
| `service` | 2 children that print their pid, observers that die, 2 calls of user or system | `SingleChild`, `TunFollowsChild`, `StopIsHeard`, `NoVpnWithoutCore`, `LoadedOrStopped` | one child; the tun device belongs to it at rest; stops are heard; no VPN over a dead core; a child is loaded or stopped |
| `streams` | log: 2 loggers, a consumer of each kind, buffers of 2, 4 events; puller: 3 threads; 2 activities, handlers and requests | `NoSendOnClosed`, `NoGap`, `LogReturns`, `PullerIsSound`, `RequestsAreRun` | no panic, no event lost or doubled, log calls return; one owner of the socket field, streams end; requests are run |
| `log_unsubscribe` | log: 1 control server consumer | `UnSubscribeCloses`, violated | see section 5 |
| `store` | profiles: 2, 3 versions, 2 reloads; observers: 1 remote, 1 local, 2 lives, 4 calls; screen: 3 changes; provider: 2 updaters, 2 readers, 3 contents, 1 crash | `CoreFollowsStore`, `SelectionKept`, `ObserversSettle`, `ShowsTheTruth`, `ProviderIsSound` | core, observers, screen and group end up with what was last true |
| `names` | pool: 4 names, ring of 3, caches of 2; 2 patterns of 3 labels; files of 2 rules with 2 lists; 3 groups of 2 members | `CachesMirror`, `Promise`, `RulesDecide`, `FindsTheBest`, `VerdictIsRight` | the pool is a one-to-one map that only forgets; trie, rules and sort are right |
| `fakeip_flush` | pool: 2 names, flush overlaps | `LookBackFinds`, violated | see section 5 |
| `traffic` | tcp: 3 bytes, 3 attempts; udp: 3 packets to an address and a domain (`Origin`, `Address`), 2 sessions; hello of 6 in 4 frames; map: 2 threads, 2 keys, 3 calls; 2 configurations, 1 patch, 2 connections | `PacketsInOrder`, `EveryFragmentCounts`, `ClientIsHeard`, `AnswersKeepOrigin`, `SourceForgotten`, `CallsReturn`, `ReloadIsSound`, `Connects` | traffic arrives once and in order, and nothing waits for ever |
| `core` | dialer: 4 addresses of 2 families; anytls: 2 users, sessions, streams; map: 2 threads, 3 keys, 3 calls; 2 requests, 3 ports; a group: 2 connections at a time, 2 proxies, one with a fixed choice; resolver: 2 callers, 2 questions; mapping: 3 names, 2 ranges, a reload | `SessionsAreSound`, `IsOneMap`, `DialIsSound`, `NothingStale`, `QueriesAreAnswered`, `NameRestored`, `RequestsAreObeyed` | nothing shared is lost, leaked or stale; every question is answered; an address leads to its name |
| `quic_gap` | hello of 6 in 5 frames | `NameWasSent`, violated | see section 5 |
| `domain_set` | 2 patterns of 3 labels | `HasWhatIsPresent`, violated | see section 5 |

What the less obvious properties say:

* `ObserversSettle`, `ShowsTheTruth`, `CoreFollowsStore`, `SelectionKept`,
  `TunFollowsChild` speak of rest: whatever overlapped, once no thread has anything left
  to do the parts agree. Each names the case in which the code does not achieve that (a
  dead observer in the way, a selection made while a reload is under way).
* `NoVpnWithoutCore` excepts the interface whose TunService the last event never reached
  (`hidden`), behind a dead activity.
* `PacketsInOrder` is four invariants: one socket for a source (`OneSocketPerSource`), a
  buffer that is given back exactly when nobody has the packet any more
  (`BufferAccounted`), packets leave as they came (`SentInOrder`), and `OneIsLost`, which
  bounds the exception: at most one packet stays in the channel of a session that has
  been emptied, that of a Send that had looked at the context before.
* `NameRestored` is about the answers the enhancer in force can know of; those a reload
  passes by (`unseen`) are its exception.
* `SessionsAreSound` excepts from "no session is forgotten" those whose server ended a
  stream before its hook was set (`missed`).
* `RequestsAreObeyed` says of each kind of server what is open after a request with
  nothing beside it, and `NoSocketLeaks` at all times that what is held can be closed.
* `VerdictIsRight`: a file is accepted exactly when no group is on a loop and every
  member exists, and a refusal for loops names exactly the groups that `Sort` and `Prune`
  cannot take away.
* `Promise` is a refinement: `FakeIPPool` implements `HostMap`.
* `IsOneMap` is linearizability by history: a load returns a value the key held between
  its call and its return, no update is lost, the size counts. A Clear that met a resize
  is a call that did nothing, against what map.go:718 says of it.
* `NothingStale`: a computation that began before a health check or a choice of the user
  ended is never what a later caller gets - unless a forgotten computation wrote fastNode
  between the last write and the return of the caller's own (`met`).
* `ReloadIsSound` is `ConfigIsWhole`, of the proxies, the rules, the DNS and the listed
  inbounds; `DecidedByOneConfig`, a connection is decided by parts of one configuration
  unless a reload began after it had been accepted; and `RunsAgain`.

**Bounds.** `MaxChildren` 3 is one child before, one during and one after a race;
every claim relates at most two. `MaxEvents` keeps callers from piling up events, never
a thread that must go on. `MaxCalls` of `ClashService` counts the steps of user and
system. `MaxThreads` 3 is the two that race and one that comes later. `Cap` 2 with 4
events fills a buffer twice (200 in the code). `MaxVersion` 3 is one write of each
profile and one update. `MaxTurns` 3 lets the screen appear twice with a change between,
or two changes overlap one appearance. `MaxLife` 2 is one death of the user interface.
The ring has more addresses than a cache has entries, as in the code (65,531 and 1000),
and fewer than there are names, so that eviction and reuse both happen. `MinLen` and
`Entries` 1 make the map grow with its second key and chain with its first collision.
`MaxAttempts` 3 (10 in the code) is a first, a middle and a last attempt. Two UDP
sessions are one and its successor under the same key. `MaxLoads`, `MaxContent`: an
update, one that overlaps it, and one after a crash. Two rules and two lists nest lists
in lists; three groups make a loop with a tail, or two loops with a group between, as a
group may name itself. One reload of the mapping has everything that can come between its
clone and its switch, or after them; what the theorem adds is any number of reloads.

**Symmetry.** In `core` the callers of the resolver, the users of anytls, the dialers of
the group and two of the three names are the same two model values, which no definition
tells apart, so that one set of permutations serves all parts; no property of that run is
temporal, but for action properties that name none of the two.

**Deadlock** is not checked: every part may stop for good, with its bounds used up, its
child dead or nobody asking. That nobody waits for ever while there is work is stated
as liveness (`MonitorIsReleased`, `StopIsHeard`, `LogReturns`, `PullerIsSound`,
`CallsReturn`, `Connects`, `SourceForgotten`, `ReloadIsSound`) or as a property of states
of rest (`QueriesAreAnswered`, `SessionsAreSound`, `DialIsSound`).

**Fairness.** Nothing that the user, the system or another program decides is fair, with
one exception: connections keep coming through a proxy group, which is what makes it
check its proxies.

| module | fair | because |
|---|---|---|
| `ClashProcess` | weakly: the holder of the monitor, each reader thread, the event thread, the boot of a child | Java threads of their own; a booting child prints or dies |
| `ClashService` | weakly: *some* thread while one can run | weaker than fair scheduling of each |
| `EventPuller` | weakly: threads and handler; a read fails only once the other end has closed | a read without data may block for ever |
| `LogStream` | strongly: `Receive`, `UnSubscribe`; weakly: the other goroutines | Go hands a mutex to a waiter after 1 ms, channels queue their senders |
| `ActivityConnection` | weakly: callbacks of the binding, handlers, while the application lives | the main thread and threads of their own |
| `UrlTest` | weakly: connections, tests, expiry of the shared result, the ticker | applications go on connecting, tests have a timeout, the rest are clocks |
| `UdpNat` | weakly: worker, senders, the end of a silent relay | goroutines; the relay has a deadline |
| `ConcurrentMap` | weakly: steps; strongly: taking the mutex of a bucket | Go's mutex, as above |
| `ConfigReload` | weakly: the steps of an application | provider downloads have timeouts |
| `TcpConn` | weakly: deadline, peeker, handler | a clock and goroutines |

**Mutants.** Every property of a passing run is violated when one mapped definition is
replaced by its mutant, which is defined beside it: a dropped guard, a missing reset, an
eviction one entry late, a question asked before the registration.

## 4. What is proved

For every value of the constants, with the TLA+ proof system.

| theorem | module | states |
|---|---|---|
| `Typing` | `ClashProcessProofs` | `[]TypeOK` |
| `Watched` | `ClashProcessProofs` | `[]StartedIsWatched` |
| `LastWord` | `ClashProcessProofs` | `[]NoFalseStarted` |
| `OneChild` | `ClashProcessProofs` | `[]SingleChild` when children print their pid before they end |
| `OneServedChild` | `ClashServiceProofs` | the same of the service, whoever of its four threads starts and stops |
| `VpnFollowsChild` | `ClashServiceProofs` | `[]TunFollowsChild` under the same condition |
| `Typing` | `StreamsProofs` | `[]TypeOK` |
| `NoPanic` | `StreamsProofs` | `[]NoSendOnClosed` |
| `Complete` | `StreamsProofs` | `[]NoGap` |
| `OneSocket` | `StreamsProofs` | `SlotIsSound`, an action property, the first half of `PullerIsSound` |
| `NoRequestDropped` | `StreamsProofs` | `[]NothingDropped`, the first part of `RequestsAreRun` |
| `Typing` | `StoreProofs` | `[]TypeOK` of `ProfileStore` |
| `Follows` | `StoreProofs` | `[]CoreFollowsStore` |
| `Keeps` | `StoreProofs` | `[]SelectionKept` |
| `ProvidersAreSound` | `StoreProofs` | `[]ProviderIsSound` |
| `ScreenShowsTheTruth` | `StoreProofs` | `[]ShowsTheTruth` |
| `EventObserversSettle` | `StoreProofs` | `[]ObserversSettle` |
| `Typing` | `FakeIPPoolProofs` | `[]TypeOK` |
| `Mirrored` | `FakeIPPoolProofs` | `[]CachesMirror` when flush and reload wait |
| `Implements` | `FakeIPPoolProofs` | the pool implements `HostMap` when flush and reload wait |
| `Heard` | `TrafficProofs` | `[]ClientIsHeard` |
| `UdpPacketsInOrder` | `TrafficProofs` | `[]PacketsInOrder` |
| `UdpAnswersKeepOrigin` | `TrafficProofs` | `AnswersKeepOrigin`, an action property |
| `OneConfig` | `TrafficProofs` | `[](ConfigIsWhole /\ DecidedByOneConfig)` |
| `DialSound` | `CoreProofs` | `[]DialIsSound` |
| `NamesAreRestored` | `CoreProofs` | `[]NameRestored` |
| `QueriesGetAnswers` | `CoreProofs` | `[]QueriesAreAnswered` |
| `ChoicesAreFresh` | `CoreProofs` | `[]NothingStale` |
| `SessionsStaySound` | `CoreProofs` | `[]SessionsAreSound` |
| `FragmentsCount` | `TrafficProofs` | `[]EveryFragmentCounts` |
| `RequestsObeyed` | `CoreProofs` | `RequestsAreObeyed`, an action property |
| `OneMap` | `MapProofs` | `[]IsOneMap` |

*Assumptions* are those the modules declare; TLC evaluates each on a run.

| assumption | module | says |
|---|---|---|
| `ThreadsAssumption`, `MaxCallsAssumption` | `ClashService` | the callers of the process are the four threads of `:clash`; a bound is a number |
| `HandlersAssumption` | `MCStreams` | a bound is a number |
| `NatAssumption` | `MCTraffic` | packets have origins, which are numbers but 0, as are the addresses they resolve to; what address an origin has is a number, 0 if it is a domain |
| `ReloadAssumption` | `MCTraffic` | no request has the number 0, which stands for nobody |
| `HelloAssumption` | `MCTraffic` | a hello is longer than its header |
| `MergeAssumption` | `MCTraffic` | the calculation `ListsAgree`, which TLC makes on each run; no proof uses it |
| `MapAssumption` | `MCCore` | keys are numbers (their hashes), there are finitely many keys and goroutines and at least one key; buckets and slots of a new table are positive numbers |
| `NameAssumption` | `MCCore` | outcomes of preHandleMetadata are no names, 0 is no range |
| `AsksAssumption`, `SessionsAssumption` | `MCCore` | bounds are numbers |
| `DialersAssumption` | `MCCore` | 0, which stands for nobody, is no dialer |
| `ListenersAssumption` | `MCCore` | configurations and patches ask for ports there are, 0 is none of them, and no inbound listener is named like a kind of server |
| `ProviderAssumption` | `MCStore` | the server has contents at first; no updater is taken for the free mutex |
| `ServiceAssumption`, `ScreenAssumption` | `MCStore` | the service is none of the observers of the user interface; there is a profile |
| those of the components | | there is a value that is no thread or host, capacities and attempts are positive, the ring is not empty, addresses are positive numbers |

Five theorems have a hypothesis of their own, because they are false without it.
`OneChild`, `OneServedChild` and `VpnFollowsChild` need `~MayFailEarly`: the reader of a
child that ended early clears the pid of the child after it, and the next `start` spawns
a second one beside that. `Mirrored` and `Implements` need `~Overlap`, as `fakeip_flush`
shows.

**ClashProcess.** `TypeOK /\ LifeInv` is inductive: `LifeInv` ties the stage of the
holder, the phase of the child it is starting and the readers together (a pid in the
field has a reader; a child without a phase has none). `NoFalseStarted` becomes
inductive beside it because the only step that ends a debt of STOPPED is the one that
submits it. For one child `PipeInv` is added: what is in the pipe tells the phase (a
booting child has printed nothing, a child past its pid either has the pid line unread
or has been parsed), so the first loop of `start` cannot fall through to the second with
the child alive and its pid unknown. The steps are grouped by what they do to the
machine, `Moves`, so that the same lemmas serve the service, whose threads make them.

**ClashService.** `SvcInv` is inductive. Its first half is that of the process, with
where a child stands that has a pid and does not serve yet (`NamedInv`). The second
half is an account of a queue:

* `RegInv`: a registration and its end alternate in the queue, after what is registered
  now; without a connected TunService the end is the last word.
* `WordInv`: STARTED is the last process event in the queue only while a reader thread
  owes a STOPPED. It speaks of positions in a queue that grows at one end and shrinks at
  the other, and is kept because a STOPPED is submitted by the step that pays the debt.
* `InboxInv`: a callback that waits for a TunService is the one its life calls for.
* `FdInv`: a connected TunService has given its descriptor away exactly when its own
  registration has let it hear a STARTED. `VpnInv`: from then on a STOPPED is on its
  way to it, or a child is ending whose reader will announce one, or the child in the
  field serves and has the device.

The last two are of a TunService from which no event was hidden since it registered; the
first two do not depend on the observers. `TunFollowsChild` is the case of `VpnInv` in
which nothing is on its way. `VpnInv` needs `PipeInv`: that the pid in the field is the
child that has just been started.

**LogStream.** `ObsInv` says who listens, who is closed and who is still to be sent to,
and gives `NoPanic`. `Complete` needs the run of a channel in the form: its contents are
consecutive and end at the event sent last. `AppendToRun` and `TailOfRun` are the two
facts about sequences it rests on.

**EventPuller.** `OwnerInv`: the field names a thread that pulls or is about to clear it.
That a thread clears the field whosever it is does no harm to this, only to
`StreamsEnd`, which stays with TLC.

**ActivityConnection.** Three facts are inductive together. `ServedInv`: a handler that
has not ended has a service to ask. `AloneInv`: it is the only one of its connection, so
that one that ends takes the service from nobody else. `NewInv`: between the assignment
of the service and the start of the handler, which are two steps, no other handler of
the connection lives, so nobody clears the first. Each of them but for connections that
were connected again too early (`overlapped`), which is what section 5 says of the two
monitors.

**ProfileStore.** What must hold at rest has to be followed through the reload that
brings it about. `Steady` is a core that runs with no reload in line. `FollowInv` says
that then the loader, or the core, has the active profile; `VersionInv` that the
core has what is in the file, unless an update has been written and not yet inserted,
which will announce it; `SelectInv` that the selections the loader took, or the core has,
are those stored, unless the user selected while a reload was under way.

**ProxyProvider.** `UpdaterInv` ties the updater that holds the mutex to where it is,
`LoadInv` says that the last load is the one in use, under a version that is published
after it, `FileInv` what the file may be on the way of an update (the contents in use, or
torn by a crash), and `ReaderInv` that what a reader holds is as new as the version it
read before it took the mutex.

**MainScreen.** `ScreenInv` says of each thing the screen shows who will correct it if
it is wrong: a post to the main thread, a request, a task of the event service that
comes after the registration in line (`Will`), or a reload that is due. For each of
these it is the *last* of its kind that counts (`Ends`, `LastOf`), and the lemmas
`EndsPut`, `EndsTaken`, `WillPut`, `WillTaken` say what becomes of the last when a queue
grows or is served.

**EventService.** `FirstInv`: the service is registered before all others. `HeardInv`:
the service has heard the last event, and in the first life of the user interface so has
everybody; it survives a registration because that tells the current event. `PullInv`:
while nobody dead is registered the streams that are pulled are those wanted, or a
recast is on its way.

**FakeIPPool.** Neither cache mirrors the other in the middle of a call, so the
invariant is stated by what is left to do: `Completes` says that the *remaining*
operations of the call under way make the two caches mirror each other, `Fresh` that the
entry about to be added is new to both, `Turns`, `Flushing` and `Cloning` that calls,
flushes and reloads take turns and where the latter are. The lemmas about `LruCache`
with which the module begins are what this rests on: two mirrored caches remain so when
both use (`MirrorGet`), delete (`MirrorDelete`) or add (`MirrorSet`) the same pair,
whichever entry the addition drives out, and an entry just used is deleted as if it had
not been (`DeleteAfterGet`). `StepImplements` then maps each step to a step of `HostMap`
or none: a Lookup happens where it returns, a deletion is a `Forget`.

**TcpConn.** `MutexInv` says who owns `peekMutex` at each stage of the two goroutines,
`DeadlineInv` when a deadline may stand, `GivenInv` that nothing leaves the buffer before
a remote has been chosen. The last is why any number of failed attempts loses nothing.

**UdpNat.** A packet that has arrived is in the queue (`Queued`), with the worker
(`Carried`), with a session (`Held`), or its buffer has been given back, and never two of
these (`Kept`, `Apart`). Each of these lists is in the order of arrival (`Lists`), and so
are they one after the other (`Chain`, `Sent`): what was written came before what the
last session holds, and that before what the worker carries and what waits. `Life` says
that a session that is not over is the one in the table, so there is one socket. For the
answers, `Mapped` and `WroteMapped` say that the two maps of a session agree and that
what was written went by them, and `AddressStays` that no step changes the address an
answer is given unless only domains were sent to its target. `LossInv` adds to
`OneIsLost` that a session that has been emptied, or is being emptied, has ended: so no
new Send gets past its first select, and the one that has may put one packet.

**ConfigReload.** `Turns` and `Gate`: one application at a time, and the tunnel is open
only between two. `Whole`: outside an application all parts but the ports are of one
request, within it those exchanged so far. `Undisturbed`: a connection that no reload overtook has read parts
of that request.

**QuicSniff.** `PiecesInv`: what the ranges fill has, with each offset that came, also
the one after it, ends with the buffer, and does not change when they are merged
(`FilledMerge`, which rests on `RunAround`: every offset is in a longest run). So when all
offsets have come one range is left, from 0 to the length of the hello (`AllFilled`), and
none of the tests of the assembly can fail (`AllIsThere`). `WaitInv`: while somebody waits
for a sniffer that is closed nobody assembles, so the name cannot change under him.

**Dialer.** A result is followed along its way: `RacerInv` from the address to the
reader of its group, `InnerInv` what a group's dial has returned, `ToldInv` and
`ResultInv` the hand-over to the race of the families and to the caller. Every
connection that is open at the end is on one of these ways, so none is forgotten but the
overtaken fallback that section 5 names.

**NameMapping.** `Recorded`: what is recorded of an address is what was answered last;
`LostInv`: what was answered and is not recorded was lost; both but for `unseen`
addresses. `PoolsInv`: only what the enhancer in force keeps is recorded. `ClonedInv`
says of the clone what the first two say of the record, but for the answers since
(`late`), and with what the reload itself may lose; `KeptInv` what the third says. So the
switch (`NameSwitch`) makes the one into the other.

**DnsResolver.** `FlightInv`: servers work, and an answer exists, only for the stage
that the shared exchange is in. With it `NobodyIsForgotten` and `NothingFiltered` are
inductive.

**UrlTest.** `GroupInv`: neither the shared result nor the shared computation is among
those that began before the last Reset (`SharedAreFresh`). It is inductive because Reset
forgets both, and a computation that has been forgotten does not store its result
(`KeepInv`). `OwnChoice`: a computation that nobody ran beside finds fastNode as it left
it, so what it returns is its own choice (`ReturnInv`); two that ran side by side are in
`met`.

**AnytlsClient.** `HeldInv` (a session has one holder at most, and none while it is in
the pool or about to be put there) and `OwnedInv` (one that is alive has a holder, is in
the pool, is being closed or is about to be put back) are what matters. They need
`AskedInv`: a stream that the server may still end has a user who uses it, so an end of
the stream gives the session back once, unless its hook is not set yet (`Misses`);
`UserInv` and `NoneInv`, which say what a user and a receiver know of a session; and `CloseInv`: the Close of the client has collected
all sessions, and nobody inserts one after that.

**Listeners.** `Sound` ties the two sides of a port together: a server, an inbound
listener or a tunnel holds a port if and only if its variable says that it is open there.
It is what makes a close release the right port. `Paired` says what the two sockets of a
server know of each other, from which follows that a server asked for where it is keeps
what it has open (`ReCreated`, one lemma per server, put together in `AllReCreated`).
Everything else is then about one request that nothing overtakes: `SoloPut` and
`SoloPatch` say what the calls that are over have reached and what the calls that are
still ahead will find - of a patch that does not name Shadowsocks or VMess, that they are
closed -, and `Beside` that a call for tunnels, TUN or inbound listeners takes no port
from a server. The tunnels are closed and opened as sets, so no fold is in
the way of the prover.

**ConcurrentMap.** `MapInv` is inductive. Of the tables (`TablesGood`): a key is in the
bucket its hash names or nowhere, and in one slot at most, so it does not matter that an
insertion takes the first empty slot, and a lookup after a change of one slot is the
lookup before it but for one key (`PutAt`, `RemoveAt`, `InsertIs`). Of the mutexes
(`HolderOk`, `FlagInv`): a writer between its lock and its change, and a resize inside a
bucket, hold the mutex of that bucket, and there is one resize at a time. The two checks
of a writer are worth this (`WriterOk`): once it is past them, a resize that copies has
not reached its bucket yet, and if its table is no longer the published one then a Clear
has overtaken it. The copy (`CopyOk`) has what a lookup finds in the old table up to the
slot it has reached (`UpTo`); that the slots after it may still hold the key is excluded
by the goodness of the table, so copying needs no induction over a bucket. `HistoryOk`
ties what a call may find to what its key has held since the call; a load of an old table
is covered because nobody but an overtaken writer changes it. `SizeInv`: the counter of
the published table is the number of keys in it, less the insertions and plus the
deletions the calls have not counted yet. It is stated with the cardinality of the two
sets of such calls, which is why keys and goroutines are finite sets.

*Only model-checked:*

* Liveness, which needs fairness: `MonitorIsReleased`, `DeathIsDelivered`,
  `GroupRecovers`, `StopIsHeard`, `NoVpnWithoutCore`, `LoadedOrStopped`, `LogReturns`,
  `SourceForgotten`, `CallsReturn`, `Connects`, and what is left of three properties of
  which one part is proved: `PullerIsSound` (`OneSocket`), `RequestsAreRun`
  (`NoRequestDropped`), `ReloadIsSound` (`OneConfig`).
* Recursion over data: `FindsTheBest`, `RulesDecide`, `VerdictIsRight` are about walks
  of tries, lists of rules and graphs that are RECURSIVE operators; what they compute for
  every input takes an induction over data. That `MergeList` computes `Merge` is of the
  same kind.

## 5. What the code does not do

Five runs end in a violation; each quotes what the repository says.

* `process_error`: ClashProcess.kt:69-70 throws when the controller reports an error,
  but main.go:30-32 prints that error *instead of* the pid, the first loop drops it, and
  `start` announces STARTED with pid 0.
* `log_unsubscribe`: observable_test.go:63-65 expects `UnSubscribe` to return with the
  channel closed. `handlePullLogEvent` stops receiving before it unsubscribes; if its
  buffer fills up meanwhile, `process` blocks with the mutex held that `UnSubscribe`
  needs, and from then on every log call of the core blocks.
* `fakeip_flush`: pool.go:42 and 58 promise that LookBack finds the host of an address
  Lookup returned. `FlushFakeIP` takes no mutex; between the two insertions of a Lookup
  it leaves a host whose address leads nowhere.
* `quic_gap`: quic_sniffer.go:413 returns on an incomplete fragment, but ranges.go:164-168
  merges half-open ranges as if they were closed: a hello with one byte missing counts as
  complete, and the name is read from a buffer of which one byte was never written.
* `domain_set`: domain_set.go:73 says that `Has` tells whether a name is present. It
  answers at the end of the key (:136) without going back to the wildcards on its stack,
  and misses a name that `*.example.com` covers when a longer pattern begins as it ends.

Other things met while modelling, which the properties take into account or name as
exceptions:

* *User interface.* When the service reconnects while an old handler is ending, the old
  handler clears the fields of the new connection and requests are dropped
  (BaseActivity.kt:55); requests on a dead service end the application.
  ProxyActivity.kt:81 throws on the handler thread when the core is dead and the list
  comes back empty; positions taken at a click are used after a refresh (:41, :53).
* *Event service.* An observer whose process died throws in `forEach` and hides the event
  from those after it (ClashEventService.kt:31-33). If an activity that registered before
  the TunService dies this way, the TunService may miss the last STOPPED, and the VPN
  interface stays up over a dead core until the next event; or it misses a STARTED and
  keeps its descriptor. A `linkToDeath` on a dead binder leaves the record for ever; a late
  death notice unregisters the observer of the next life (ClashEventService.kt:111).
* *Profiles.* A selection that the file lacks is never reported (server/profile.go:55).
* *Control server.* The first descriptor of a tun request is not closed (server/tun.go),
  a failed accept ends the child (`log.Fatalln`).
* *Names.* IsFakeIP and FlushFakeIP ignore the IPv6 pool when there is an IPv4 pool; a
  reload with another range keeps addresses of the old one; hosts may put IPv4 addresses
  into AAAA answers. Answers given between the clone of a reload and its switch, and those
  of queries that outlast the switch, are recorded in the old enhancer only
  (executor.go:276-299, middleware.go:108-141): a connection to such an address is refused,
  or goes to whatever name the new one has for it.
* *Groups.* The tolerance of a url-test group is not applied while its choice is the
  first proxy (urltest.go:128-145), and `fast + tolerance` wraps at 2^16; a delay of 0 ms
  counts as none (adapter.go:142); a fallback group forgets a fixed proxy on any reading
  while it is dead. `fastNode` is written without a lock (urltest.go:118, 146): a
  computation that a Reset has forgotten can put its choice there between another's write
  and its return (:148), and that choice is shared for ten seconds after the health check
  that should have replaced it.
* *Proxy groups.* Groups between two loops are reported as in a loop, against the
  comments "we have only the loops remain" and "report the elements in loop"
  (utils.go:117, :137): the search takes away what leads to no loop, but not what two
  loops hold between them.
* *Configuration.* The ports of a reload are not part of what is whole: a patch makes them
  again without the mutex, from what it read before (configs.go:340-350), so that an
  application that comes in between can be undone in part; and an application that is not
  forced leaves them (executor.go:190-192).
* *Providers.* An older download that is loaded late rolls back a newer one until the
  next interval; files are not written atomically, and a torn one that parses is used
  after a restart.
* *Dialer and tunnel.* A fallback connection that has been stored when a later result of
  the preferred family wins is never closed; neither is a connection whose first write
  failed (tunnel.go:576-592). A UDP packet that Send puts into the channel of a session
  after Close has emptied it is neither sent nor given back (connection.go:137-141). The
  answers of a target to which a domain was sent first change their address when an
  origin with an address is mapped to it, as the record of the domain is not valid and is
  written over (connection.go:51).
* *Sessions.* On a reused anytls session the SYN is written before CreateStream has set
  the hook of the stream (session.go:152, client.go:82). If the server ends the stream in
  between, the hook does not run (stream.go:77): the session is neither pooled nor closed,
  and lasts until the server or the client's Close ends it.
* *Concurrent map.* A `Clear` that finds a resize in progress waits and returns without
  clearing (map.go:596-599), against "Clear deletes all keys and values currently stored
  in the map" (:718).
* *Listeners.* When the UDP half of the mixed port cannot be opened, the closed TCP half
  stays in its variable, and GetPorts names a port that nobody serves (listener.go:490).
  When the TCP half of Shadowsocks cannot, the UDP socket stays open and no variable holds
  it (sing_shadowsocks/server.go:153-162); the model keeps it as `Lost`, and
  `NoSocketLeaks` excepts it. GetPorts returns the configuration of Shadowsocks and VMess
  as JSON (listener.go:688-694), which patchConfigs hands to functions that parse a URL
  (configs.go:348-349): a patch that does not name them closes them, and `LeftAsSaid`
  excepts them.

## 6. What is not modelled

* **Protocols** (`transport/*`, `adapter/outbound`, `adapter/inbound`, `listener/*`
  without listener.go): wire formats, cryptography, congestion control and other
  implementations of published protocols. They are most of the lines of this repository;
  a model would be of the protocol and not of this program, and byte formats are out of
  TLC's reach. The session pool of anytls is the exception.
* **Parsing** of configurations, rules, providers and links: data without control, save
  the order of proxy groups and the verdict on rules.
* **REST API**: routing of requests; its effects are where they are called.
* **Presentation**: screens but the main one, settings, notification, tile, network
  observer, models and serializers, build.
* **Inside the modelled parts:** payloads, traffic and log contents; the delivery of
  speed, bandwidth and log events; several instances of the clash service one after the
  other; more than one proxy group per profile and values a profile does not have; the
  persistent store of the fake-ip pool, and a flush between the clone and the switch of its
  caches; what TUN becomes in a reload; DNS transports, the
  hosts file; statistics and process lookup of the tunnel; the server side of anytls;
  Range and cancelled updates of the map; what servers do with their connections; the
  fan-out of the URL test of the control server; binding to interfaces and TCP fast open.

## 7. Plan

Done: the service with its screen and streams, and of the core the names, the traffic,
the configuration and the health of proxies, with the proofs above. What is left, in
this order:

1. *Control server:* the fan-out of the URL test with the list of the proxy screen, the
   hand-over of the tun descriptor against "at most one device, none leaked".
2. *Proofs:* the recursive algorithms (rules, trie, sort of groups, `MergeList`), with a
   prover that has induction over data.
3. *Groups:* load-balance and relay groups, rule providers beside proxy providers.
4. *Traffic:* sniffing before UDP sessions, TProxy's local connections.
