----------------------------- MODULE ProfileStore -----------------------------
(***************************************************************************)
(* Profiles: the two tables of the database, the profile files, the        *)
(* reload of the active one into the core (ClashService.reloadProfile), the *)
(* selection a user makes in one proxy group, and the user interface that  *)
(* adds, activates, removes and updates profiles.                          *)
(*                                                                         *)
(* Who writes what: the database belongs to the service and every change   *)
(* of it ends in a reload; the FILES belong to the user interface, which   *)
(* is another process and writes them without telling anybody.  An update  *)
(* downloads for seconds and then inserts its COPY of the row again.       *)
(*                                                                         *)
(* Every profile event makes the event handler submit one reload; that hop *)
(* only delays, and a change submits the reload itself.                    *)
(***************************************************************************)
EXTENDS Integers, FiniteSets, FiniteSetsExt

CONSTANTS
    Profiles,       \* ids a profile can get, in order
    Values,         \* proxies a user can select in the group
    MaxVersion,     \* bound: versions written to the files in all
    MaxReloads      \* bound: nobody calls with so many reloads waiting

ASSUME ProfilesAssumption == Profiles \subseteq Nat \ {0} /\ Values \subseteq Nat \ {0}
ASSUME BoundsAssumption == MaxVersion \in Nat /\ MaxReloads \in Nat \ {0}

VARIABLES
    given,      \* ids given so far
    present,    \* rows of the table profiles
    active,     \* those whose column active is 1
    selected,   \* latest row of profile_select_proxies for each profile, 0 for none
    file,       \* version in the file of each profile; -1 cut off, 0 no file
    version,    \* versions written so far
    doomed,     \* files the user interface is about to delete
    update,     \* update under way: the profile, the active column of the
                \* copied row, and how far it is
    running,    \* the process runs
    core,       \* the profile it loaded, its version, the selected proxy (0: the
                \* first of the group), and whether the file lacked the stored one
    reloads,    \* reloads submitted to the loader
    loader,     \* the reload under way
    select,     \* setSelectProxy: the proxy the core was told, not yet stored
    raced       \* some selection overlapped a reload or a change of profile

vars == <<given, present, active, selected, file, version, doomed, update,
          running, core, reloads, loader, select, raced>>
dbVars == <<given, present, active, selected>>
uiVars == <<file, version, doomed, update>>
coreVars == <<running, core>>
loadVars == <<reloads, loader>>

NoUpdate == [at |-> "none"]
NoCore   == [profile |-> 0, version |-> 0, selected |-> 0, lacks |-> FALSE]
Idle     == [at |-> "idle"]

(* Type invariant: in particular a stored selection belongs to a row, as    *)
(* ON DELETE CASCADE demands, and an active profile exists.                 *)
TypeOK ==
    /\ active \subseteq present /\ present \subseteq given /\ given \subseteq Profiles
    /\ selected \in [Profiles -> Values \cup {0}]
    /\ \A p \in Profiles : selected[p] # 0 => p \in present
    /\ file \in [Profiles -> -1 .. MaxVersion]
    /\ version \in 0 .. MaxVersion
    /\ doomed \subseteq Profiles
    /\ update \in {NoUpdate} \cup
         [at : {"loading", "writing", "written"}, profile : Profiles, active : BOOLEAN]
    /\ running \in BOOLEAN
    /\ core \in [profile : Profiles \cup {0}, version : -1 .. MaxVersion,
                 selected : Values \cup {0}, lacks : BOOLEAN]
    /\ reloads \in Nat
    /\ loader \in {Idle, [at |-> "stop"]} \cup [at : {"queried"}, profile : Profiles]
         \cup [at : {"load"}, profile : Profiles, selected : Values \cup {0}]
    /\ select \in Values \cup {0}
    /\ raced \in BOOLEAN

Init ==
    /\ given = {} /\ present = {} /\ active = {}
    /\ selected = [p \in Profiles |-> 0]
    /\ file = [p \in Profiles |-> 0]
    /\ version = 0 /\ doomed = {} /\ update = NoUpdate
    /\ running = FALSE /\ core = NoCore
    /\ reloads = 0 /\ loader = Idle
    /\ select = 0 /\ raced = FALSE

Changed == reloads < MaxReloads /\ reloads' = reloads + 1

-----------------------------------------------------------------------------
(* ClashProfileService.kt and the two Dao *)

(* The import activities write a new file, then add an inactive row; ids    *)
(* are never given twice.                                                   *)
AddProfile(p) ==
    /\ p \notin given /\ {q \in Profiles : q < p} \subseteq given
    /\ version < MaxVersion
    /\ given' = given \cup {p}
    /\ file' = [file EXCEPT ![p] = version + 1]
    /\ version' = version + 1
    /\ present' = present \cup {p}
    /\ Changed
    /\ UNCHANGED <<active, selected, doomed, update, coreVars, loader, select, raced>>

(* The click may come from a list that still shows a removed profile: then  *)
(* no profile is active.                                                    *)
SetActiveProfile(p) ==
    /\ active' = present \cap {p}
    /\ Changed
    /\ UNCHANGED <<given, present, selected, uiVars, coreVars, loader, select, raced>>

(* The row, and by ON DELETE CASCADE its selections; the file follows.      *)
RemoveProfile(p) ==
    /\ p \in present
    /\ present' = present \ {p}
    /\ active' = active \ {p}
    /\ selected' = [selected EXCEPT ![p] = 0]
    /\ doomed' = doomed \cup {p}
    /\ Changed
    /\ UNCHANGED <<given, file, version, update, coreVars, loader, select, raced>>

DeleteFile(p) ==
    /\ p \in doomed
    /\ doomed' = doomed \ {p}
    /\ file' = [file EXCEPT ![p] = 0]
    /\ UNCHANGED <<dbVars, version, update, coreVars, loadVars, select, raced>>

-----------------------------------------------------------------------------
(* ProfilesActivity.updateProfile *)

UpdateProfile(p) ==
    /\ update = NoUpdate
    /\ p \in present
    /\ update' = [at |-> "loading", profile |-> p, active |-> p \in active]
    /\ UNCHANGED <<dbVars, file, version, doomed, coreVars, loadVars, select, raced>>

(* FileOutputStream cuts the file off before anything is written. *)
UpdateTruncates ==
    /\ update.at = "loading"
    /\ file' = [file EXCEPT ![update.profile] = -1]
    /\ update' = [update EXCEPT !.at = "writing"]
    /\ UNCHANGED <<dbVars, version, doomed, coreVars, loadVars, select, raced>>

UpdateWrites ==
    /\ update.at = "writing"
    /\ version < MaxVersion
    /\ file' = [file EXCEPT ![update.profile] = version + 1]
    /\ version' = version + 1
    /\ update' = [update EXCEPT !.at = "written"]
    /\ UNCHANGED <<dbVars, doomed, coreVars, loadVars, select, raced>>

(* No answer, no YAML, or no room on the disk. *)
UpdateFails ==
    /\ update.at \in {"loading", "writing"}
    /\ update' = NoUpdate
    /\ UNCHANGED <<dbVars, file, version, doomed, coreVars, loadVars, select, raced>>

(* Mutant: the new file is not made known. *)
UpdateQuietly ==
    /\ update.at = "written"
    /\ present' = present \cup {update.profile}
    /\ active' = IF update.active THEN active \cup {update.profile}
                                  ELSE active \ {update.profile}
    /\ selected' = [selected EXCEPT ![update.profile] = 0]
    /\ update' = NoUpdate
    /\ UNCHANGED <<given, file, version, doomed, coreVars, loadVars, select, raced>>

(* addProfile of the copied row, with its id: INSERT OR REPLACE deletes the *)
(* row that is there, its selections go with it, and the active column is   *)
(* the one of the time of the click.                                        *)
UpdateInserts ==
    /\ update.at = "written"
    /\ present' = present \cup {update.profile}
    /\ active' = IF update.active THEN active \cup {update.profile}
                                  ELSE active \ {update.profile}
    /\ selected' = [selected EXCEPT ![update.profile] = 0]
    /\ update' = NoUpdate
    /\ reloads' = reloads + 1
    /\ UNCHANGED <<given, file, version, doomed, coreVars, loader, select, raced>>

-----------------------------------------------------------------------------
(* The process *)

Start ==
    /\ ~running
    /\ running' = TRUE
    /\ core' = NoCore
    /\ Changed
    /\ UNCHANGED <<dbVars, uiVars, loader, select, raced>>

Killed == running' = FALSE /\ core' = NoCore

Stop ==
    /\ running
    /\ Killed
    /\ UNCHANGED <<dbVars, uiVars, loadVars, select, raced>>

-----------------------------------------------------------------------------
(* reloadProfile, in the loader thread *)

(* queryActiveProfile takes the first row of those that claim to be active. *)
ReloadQuery ==
    /\ loader = Idle
    /\ reloads > 0
    /\ reloads' = reloads - 1
    /\ loader' = IF ~running THEN Idle
                 ELSE IF active = {} THEN [at |-> "stop"]
                 ELSE [at |-> "queried", profile |-> Min(active)]
    /\ raced' = (raced \/ select # 0)
    /\ UNCHANGED <<dbVars, uiVars, coreVars, select>>

(* Mutant: the stored selections are not given to the core. *)
ReloadWithout ==
    /\ loader.at = "queried"
    /\ loader' = [at |-> "load", profile |-> loader.profile, selected |-> 0]
    /\ UNCHANGED <<dbVars, uiVars, coreVars, reloads, select, raced>>

ReloadSelected ==
    /\ loader.at = "queried"
    /\ loader' = [at |-> "load", profile |-> loader.profile,
                  selected |-> selected[loader.profile]]
    /\ UNCHANGED <<dbVars, uiVars, coreVars, reloads, select, raced>>

(* A file that is cut off may still be read as a shorter configuration. One *)
(* that lacks the stored proxy is loaded without it, and the core does not  *)
(* say so: the selection stays in the table for a version that offers it.   *)
ReloadLoad ==
    /\ loader.at = "load"
    /\ \/ /\ running
          /\ file[loader.profile] # 0
          /\ \E lacks \in BOOLEAN :
               /\ lacks => loader.selected # 0
               /\ core' = [profile |-> loader.profile, version |-> file[loader.profile],
                           selected |-> IF lacks THEN 0 ELSE loader.selected,
                           lacks |-> lacks]
          /\ loader' = Idle
       \/ /\ ~running \/ file[loader.profile] <= 0
          /\ loader' = [at |-> "stop"]
          /\ UNCHANGED core
    /\ UNCHANGED <<dbVars, uiVars, running, reloads, select, raced>>

ReloadStop ==
    /\ loader.at = "stop"
    /\ Killed
    /\ loader' = Idle
    /\ UNCHANGED <<dbVars, uiVars, reloads, select, raced>>

-----------------------------------------------------------------------------
(* setSelectProxy, in a binder thread: the core first, then the database    *)

Reloading == reloads > 0 \/ loader # Idle

SelectInCore(v) ==
    /\ select = 0
    /\ core.profile # 0
    /\ core' = [core EXCEPT !.selected = v, !.lacks = FALSE]
    /\ select' = v
    /\ raced' = (raced \/ Reloading)
    /\ UNCHANGED <<dbVars, uiVars, running, loadVars>>

(* setCurrentProfileProxy asks again which profile is active. *)
SelectStored ==
    /\ select # 0
    /\ selected' = IF active = {} THEN selected
                                  ELSE [selected EXCEPT ![Min(active)] = select]
    /\ select' = 0
    /\ raced' = (raced \/ Reloading)
    /\ UNCHANGED <<given, present, active, uiVars, coreVars, loadVars>>

-----------------------------------------------------------------------------
Next ==
    \/ \E p \in Profiles :
         \/ AddProfile(p) \/ SetActiveProfile(p) \/ RemoveProfile(p)
         \/ DeleteFile(p) \/ UpdateProfile(p)
    \/ UpdateTruncates \/ UpdateWrites \/ UpdateFails \/ UpdateInserts
    \/ Start \/ Stop
    \/ ReloadQuery \/ ReloadSelected \/ ReloadLoad \/ ReloadStop
    \/ \E v \in Values : SelectInCore(v)
    \/ SelectStored

Spec == Init /\ [][Next]_vars

-----------------------------------------------------------------------------
(* Properties *)

AtRest == ~Reloading /\ select = 0 /\ update = NoUpdate

(* However calls, updates and reloads overlap, in the end the core runs the *)
(* profile the database calls active, from the last version written whole,  *)
(* or it has been stopped.                                                  *)
CoreFollowsStore ==
    AtRest /\ running =>
        /\ active # {} /\ core.profile = Min(active)
        /\ file[core.profile] > 0 => core.version = file[core.profile]

(* The proxy the core uses is the one that is restored after the next       *)
(* start, and one the loaded file lacks is kept for later; unless the user  *)
(* chose while a reload was under way: that one overlap lets them differ.   *)
SelectionKept ==
    AtRest /\ running /\ ~raced =>
        /\ core.lacks => selected[core.profile] # 0
        /\ ~core.lacks => core.selected = selected[core.profile]
=============================================================================
