------------------------------- MODULE MCStore -------------------------------
(***************************************************************************)
(* What is kept for others: the profiles and the observers of the events   *)
(* by the service, what the main screen shows of them, a provider of       *)
(* proxies by the core.  A behaviour is about one of the four, the subject;*)
(* the others stay as they are.                                            *)
(***************************************************************************)
EXTENDS ProfileStore

CONSTANTS Remote, LocalIds, Wants, MaxLife, MaxCalls,
          MaxTurns, Updaters, Readers, Unparsable, Filtered, MaxContent, MaxLoads, MaxCrashes

(* The server has contents at first, and no updater is taken for the free   *)
(* mutex.                                                                   *)
ASSUME ProviderAssumption == MaxContent \in Nat \ {0} /\ "free" \notin Updaters

(* The service is none of the observers of the user interface.              *)
ASSUME ServiceAssumption == "service" \notin Remote

(* Some profile is active.                                                  *)
ASSUME ScreenAssumption == Profiles # {}

MCProfiles == {1, 2}
Unread == {2, -1}

VARIABLES subject, observers, current, queue, childRuns, pulled, life, up, linked,
          heard, calls,
          alive, mode, chosen, tasks, registered, currentProcessEvent, submitted, loading,
          visible, requests, posts, shown, lastEvent, turns,
          kind, remote, cache, crashes, hash, loads, proxies, published, late, mutex, updater,
          seen, cached, lock, reader, outdated
eventVars == <<observers, current, queue, childRuns, pulled, life, up, linked, heard, calls>>
screenVars == <<alive, mode, chosen, tasks, registered, currentProcessEvent, submitted, loading,
                visible, requests, posts, shown, lastEvent, turns>>
providerVars == <<kind, remote, cache, crashes, hash, loads, proxies, published, late, mutex,
                  updater, seen, cached, lock, reader, outdated>>
allVars == <<subject, vars, eventVars, screenVars, providerVars>>

Events == INSTANCE EventService WITH running <- childRuns
Screen == INSTANCE MainScreen WITH running <- alive, active <- chosen,
    reloads <- submitted, loader <- loading
Provider == INSTANCE ProxyProvider WITH file <- cache, version <- published

Off(v) == v = "off"

StoreInit ==
    /\ subject \in {"store", "events", "screen", "provider"}
    /\ Init /\ Events!Init /\ Screen!Init
    /\ IF subject = "provider" THEN Provider!Init
       ELSE /\ Off(kind) /\ Off(remote) /\ Off(cache) /\ Off(crashes)
            /\ Off(hash) /\ Off(loads) /\ Off(proxies) /\ Off(published) /\ Off(late)
            /\ Off(mutex) /\ Off(updater) /\ Off(seen) /\ Off(cached) /\ Off(lock)
            /\ Off(reader) /\ Off(outdated)

Store(A) == subject = "store" /\ A /\ UNCHANGED <<subject, eventVars, screenVars, providerVars>>
Event(A) == subject = "events" /\ A /\ UNCHANGED <<subject, vars, screenVars, providerVars>>
OnScreen(A) == subject = "screen" /\ A /\ UNCHANGED <<subject, vars, eventVars, providerVars>>
Provide(A) == subject = "provider" /\ A /\ UNCHANGED <<subject, vars, eventVars, screenVars>>

StoreNext == Store(Next) \/ Event(Events!Next) \/ OnScreen(Screen!Next) \/ Provide(Provider!Next)
StoreSpec == StoreInit /\ [][StoreNext]_allVars

(* Once the tasks of the event service are worked off, everybody knows the  *)
(* last event and exactly the wanted streams are pulled, as far as no dead  *)
(* observer stands in the way.                                              *)
ObserversSettle == Events!Settled

(* However changes overlap with the main screen coming and going, nothing  *)
(* is missed: when all threads have come to rest, a visible screen shows   *)
(* the child, the active profile and the mode as they are.                 *)
ShowsTheTruth == Screen!ShowsTheTruth

(* A group whose proxies are asked for sees every update of its provider    *)
(* that was published before; what the provider takes for its contents, on  *)
(* the next download and after a restart, is what it serves.                *)
ProviderIsSound == subject = "provider" => Provider!ProviderIsSound
=============================================================================
