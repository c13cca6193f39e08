------------------------------ MODULE MainScreen ------------------------------
(***************************************************************************)
(* MainActivity.kt: the screen that shows the state of the child, the      *)
(* active profile and the mode.  It hears of changes as an observer of the *)
(* event service while it is visible, and asks for the profile and the mode*)
(* by requests that the handler of BaseActivity runs in order.  The event  *)
(* service works off its tasks in order, the ClashService reloads profiles *)
(* on a thread of its own, and runOnUiThread posts to the main thread.     *)
(*                                                                         *)
(* A child changes together with the event that says so (ClashProcess has  *)
(* the steps of that); the mode is that of the profile which is loaded, 0  *)
(* before.                                                                 *)
(***************************************************************************)
EXTENDS Integers, Sequences

CONSTANTS
    Profiles,
    MaxTurns        \* bound: starts, deaths, activations and appearances of the screen

VARIABLES
    running, mode,  \* the child and the mode of its core
    active,         \* the profile the database calls active
    tasks,          \* of the event service
    registered, currentProcessEvent,
    reloads,        \* submitted to the executor of the ClashService
    loader,         \* profile it loads, Announce or Idle
    visible, requests, posts,
    shown, lastEvent,
    turns           \* counts them for the bound

vars == <<running, mode, active, tasks, registered, currentProcessEvent, reloads, loader,
          visible, requests, posts, shown, lastEvent, turns>>
screenVars == <<visible, requests, posts, shown, lastEvent>>
serviceVars == <<tasks, registered, currentProcessEvent>>
loadVars == <<reloads, loader>>
childVars == <<running, mode, active, turns>>

Events == {"STARTED", "STOPPED"}
Idle == 0
Announce == -1

TypeOK ==
    /\ running \in BOOLEAN /\ mode \in Profiles \cup {0} /\ active \in Profiles
    /\ tasks \in Seq(Events \cup {"changed", "reloaded", "register", "unregister"})
    /\ registered \in BOOLEAN /\ currentProcessEvent \in Events
    /\ reloads \in Nat /\ loader \in Profiles \cup {Idle, Announce}
    /\ visible \in BOOLEAN
    /\ requests \in Seq({"register", "unregister", "general", "profile"})
    /\ shown.event \in Events /\ lastEvent \in Events \cup {"null"}
    /\ shown.profile \in Profiles \cup {0} /\ shown.mode \in Profiles \cup {0}

Init ==
    /\ running = FALSE /\ mode = 0 /\ active = CHOOSE p \in Profiles : TRUE
    /\ tasks = <<>> /\ registered = FALSE /\ currentProcessEvent = "STOPPED"
    /\ reloads = 0 /\ loader = Idle
    /\ visible = FALSE /\ requests = <<>> /\ posts = <<>>
    /\ shown = [event |-> "STOPPED", profile |-> 0, mode |-> 0] /\ lastEvent = "null"
    /\ turns = 0

-----------------------------------------------------------------------------
(* What happens to the child and the profiles *)

Starts ==
    /\ ~running /\ turns < MaxTurns
    /\ running' = TRUE /\ mode' = 0 /\ turns' = turns + 1
    /\ tasks' = Append(tasks, "STARTED")
    /\ UNCHANGED <<active, registered, currentProcessEvent, loadVars, screenVars>>

Dies ==
    /\ running /\ turns < MaxTurns
    /\ running' = FALSE /\ turns' = turns + 1
    /\ tasks' = Append(tasks, "STOPPED")
    /\ UNCHANGED <<mode, active, registered, currentProcessEvent, loadVars, screenVars>>

SetActiveProfile(p) ==
    /\ turns < MaxTurns
    /\ active' = p /\ turns' = turns + 1
    /\ tasks' = Append(tasks, "changed")
    /\ UNCHANGED <<running, mode, registered, currentProcessEvent, loadVars, screenVars>>

-----------------------------------------------------------------------------
(* reloadProfile *)

ReloadProfile ==
    /\ reloads > 0 /\ loader = Idle
    /\ reloads' = reloads - 1
    /\ loader' = IF running THEN active ELSE Idle
    /\ UNCHANGED <<childVars, serviceVars, screenVars>>

LoadProfile ==
    /\ loader \in Profiles
    /\ \/ /\ running
          /\ mode' = loader /\ loader' = Announce
          /\ UNCHANGED <<running, tasks>>
       \/ /\ loader' = Idle /\ running' = FALSE
          /\ tasks' = IF running THEN Append(tasks, "STOPPED") ELSE tasks
          /\ UNCHANGED mode
    /\ UNCHANGED <<active, turns, registered, currentProcessEvent, reloads, screenVars>>

PerformProfileReloadEvent ==
    /\ loader = Announce
    /\ loader' = Idle /\ tasks' = Append(tasks, "reloaded")
    /\ UNCHANGED <<childVars, registered, currentProcessEvent, reloads, screenVars>>

-----------------------------------------------------------------------------
(* The event service *)

(* A process event is shown, the others become requests of the screen.      *)
Heard(event) ==
    CASE event \in Events -> posts' = Append(posts, <<"event", event>>) /\ UNCHANGED requests
      [] event = "changed" -> requests' = Append(requests, "profile") /\ UNCHANGED posts
      [] event = "reloaded" -> requests' = Append(requests, "general") /\ UNCHANGED posts

PerformEvent ==
    /\ tasks # <<>> /\ Head(tasks) \in Events \cup {"changed", "reloaded"}
    /\ tasks' = Tail(tasks)
    /\ currentProcessEvent' = IF Head(tasks) \in Events THEN Head(tasks) ELSE currentProcessEvent
    /\ reloads' = IF Head(tasks) \in {"STARTED", "changed"} THEN reloads + 1 ELSE reloads
    /\ IF registered THEN Heard(Head(tasks)) ELSE UNCHANGED <<posts, requests>>
    /\ UNCHANGED <<childVars, registered, loader, visible, shown, lastEvent>>

RegisterEventObserver ==
    /\ tasks # <<>> /\ Head(tasks) = "register"
    /\ tasks' = Tail(tasks) /\ registered' = TRUE
    /\ IF registered THEN UNCHANGED <<posts, requests>> ELSE Heard(currentProcessEvent)
    /\ UNCHANGED <<childVars, currentProcessEvent, loadVars, visible, shown, lastEvent>>

UnregisterEventObserver ==
    /\ tasks # <<>> /\ Head(tasks) = "unregister"
    /\ tasks' = Tail(tasks) /\ registered' = FALSE
    /\ UNCHANGED <<childVars, currentProcessEvent, loadVars, screenVars>>

-----------------------------------------------------------------------------
(* The screen *)

(* Mutant: the screen asks before it listens. *)
OnStartAsks ==
    /\ ~visible /\ turns < MaxTurns
    /\ visible' = TRUE /\ turns' = turns + 1
    /\ requests' = requests \o <<"general", "profile", "register">>
    /\ UNCHANGED <<running, mode, active, serviceVars, loadVars, posts, shown, lastEvent>>

OnStart ==
    /\ ~visible /\ turns < MaxTurns
    /\ visible' = TRUE /\ turns' = turns + 1
    /\ requests' = requests \o <<"register", "general", "profile">>
    /\ UNCHANGED <<running, mode, active, serviceVars, loadVars, posts, shown, lastEvent>>

OnStop ==
    /\ visible
    /\ visible' = FALSE
    /\ requests' = Append(requests, "unregister")
    /\ UNCHANGED <<childVars, serviceVars, loadVars, posts, shown, lastEvent>>

(* Registering only submits a task; a query reads what is true now.  Only   *)
(* this thread posts answers: reading and posting are one step.             *)
RunRequest ==
    /\ requests # <<>>
    /\ requests' = Tail(requests)
    /\ CASE Head(requests) \in {"register", "unregister"} ->
              tasks' = Append(tasks, Head(requests)) /\ UNCHANGED posts
         [] Head(requests) = "general" ->
              posts' = Append(posts, <<"mode", IF running THEN mode ELSE 0>>) /\ UNCHANGED tasks
         [] Head(requests) = "profile" ->
              posts' = Append(posts, <<"profile", active>>) /\ UNCHANGED tasks
    /\ UNCHANGED <<childVars, registered, currentProcessEvent, loadVars, visible, shown,
                   lastEvent>>

Show ==
    /\ posts # <<>>
    /\ posts' = Tail(posts)
    /\ shown' = IF Head(posts)[1] = "event" /\ Head(posts)[2] = lastEvent THEN shown
                ELSE [shown EXCEPT ![Head(posts)[1]] = Head(posts)[2]]
    /\ lastEvent' = IF Head(posts)[1] = "event" THEN Head(posts)[2] ELSE lastEvent
    /\ UNCHANGED <<childVars, serviceVars, loadVars, visible, requests>>

Next ==
    \/ Starts \/ Dies \/ \E p \in Profiles : SetActiveProfile(p)
    \/ ReloadProfile \/ LoadProfile \/ PerformProfileReloadEvent
    \/ PerformEvent \/ RegisterEventObserver \/ UnregisterEventObserver
    \/ OnStart \/ OnStop \/ RunRequest \/ Show

Spec == Init /\ [][Next]_vars

-----------------------------------------------------------------------------
(* However changes overlap with the screen coming and going, nothing is     *)
(* missed: when all threads have come to rest, a visible screen shows the   *)
(* child, the active profile and the mode as they are.                      *)
ShowsTheTruth ==
    /\ visible /\ tasks = <<>> /\ requests = <<>> /\ posts = <<>>
    /\ loader = Idle /\ reloads = 0
    => /\ shown.event = IF running THEN "STARTED" ELSE "STOPPED"
       /\ shown.profile = active
       /\ running => shown.mode = mode /\ mode = active
=============================================================================
