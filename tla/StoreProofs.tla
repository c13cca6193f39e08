----------------------------- MODULE StoreProofs -----------------------------
(***************************************************************************)
(* What the service keeps for others, and the core for its proxies, for    *)
(* any profiles, observers, contents and bounds.  Four parts, in the order *)
(* of the modules: the core follows the store and keeps the selections of  *)
(* the user (ProfileStore); a provider serves what it takes for its        *)
(* contents (ProxyProvider); a screen at rest shows the truth (MainScreen);*)
(* the observers settle (EventService).                                    *)
(***************************************************************************)
EXTENDS MCStore, WellFoundedInduction, SequenceTheorems, TLAPS

(* ---- ProfileStore. ------------------------------------------------------*)
(* The invariant says what must hold while no reload waits: a reload under  *)
(* way is about the active profile as it is now, and without one the core   *)
(* runs it.                                                                 *)
StoreTyped == TypeOK /\ (update.at # "none" => update.profile \in given)

Steady == running /\ reloads = 0

FollowInv ==
    Steady =>
        /\ loader.at # "stop" => active # {}
        /\ loader.at \in {"queried", "load"} => loader.profile = Min(active)
        /\ loader.at = "idle" => core.profile = Min(active)

VersionInv ==
    Steady /\ loader.at = "idle" /\ core.profile \in Profiles /\ file[core.profile] > 0 =>
        \/ core.version = file[core.profile]
        \/ update.at = "written" /\ update.profile = core.profile

SelectInv ==
    ~raced =>
        /\ loader.at # "idle" => select = 0
        /\ Steady /\ loader.at = "load" => loader.selected = selected[loader.profile]
        /\ Steady /\ loader.at = "idle" =>
             IF select # 0 THEN core.selected = select /\ ~core.lacks
             ELSE IF core.lacks THEN selected[core.profile] # 0
             ELSE core.selected = selected[core.profile]

StoreInv == StoreTyped /\ FollowInv /\ VersionInv /\ SelectInv

(* The first of some active profiles is one of them. *)
LEMMA MinIsMember ==
    ASSUME NEW S, S \subseteq Profiles, S # {}
    PROVE  Min(S) \in S
<1>1. S \subseteq Nat
  BY ProfilesAssumption
<1>2. PICK m \in S : \A y \in S : <<y, m>> \notin OpToRel(<, Nat)
  BY <1>1, NatLessThanWellFounded, WFMin, Zenon
<1>3. \A y \in S : <<y, m>> \in Nat \X Nat
  BY <1>1
<1>4. \A y \in S : ~(y < m)
  BY <1>2, <1>3, Zenon DEF OpToRel
<1>5. \A y \in S : m <= y
  BY <1>1, <1>4, SMT
<1> QED
  BY <1>5 DEF Min

(* The records a variable may hold, by their field `at'. *)
LEMMA UpdateKinds ==
    ASSUME TypeOK
    PROVE  /\ update = NoUpdate <=> update.at = "none"
           /\ update.at # "none" =>
                /\ update \in [at : {"loading", "writing", "written"},
                               profile : Profiles, active : BOOLEAN]
                /\ update.profile \in Profiles
           /\ loader = Idle <=> loader.at = "idle"
           /\ loader.at \in {"idle", "stop", "queried", "load"}
           /\ loader.at = "queried" => loader.profile \in Profiles
           /\ loader.at = "load" => loader.profile \in Profiles /\ loader.selected \in Values \cup {0}
<1>1. /\ update = NoUpdate <=> update.at = "none"
      /\ update.at # "none" =>
           update \in [at : {"loading", "writing", "written"}, profile : Profiles, active : BOOLEAN]
  BY SMT DEF TypeOK, NoUpdate
<1>2. /\ loader = Idle <=> loader.at = "idle"
      /\ loader.at \in {"idle", "stop", "queried", "load"}
      /\ loader.at = "queried" => loader.profile \in Profiles
      /\ loader.at = "load" => loader.profile \in Profiles /\ loader.selected \in Values \cup {0}
  BY SMT DEF TypeOK, Idle
<1> QED
  BY <1>1, <1>2

LEMMA StoreStart == Init => StoreInv
<1> SUFFICES ASSUME Init PROVE StoreInv
  OBVIOUS
<1>0. /\ NoCore \in [profile : Profiles \cup {0}, version : -1 .. MaxVersion,
                     selected : Values \cup {0}, lacks : BOOLEAN]
      /\ 0 \in -1 .. MaxVersion /\ 0 \in 0 .. MaxVersion /\ 0 \in Nat
  BY BoundsAssumption, SMT DEF NoCore
<1>1. TypeOK
  BY <1>0 DEF Init, TypeOK
<1> QED
  BY <1>1 DEF Init, StoreInv, StoreTyped, FollowInv, VersionInv, SelectInv, Steady, NoUpdate, Idle

-----------------------------------------------------------------------------
(* Steps that submit a reload: nothing is steady after them.               *)
LEMMA ChangeSteps ==
    ASSUME StoreInv, StoreTyped', reloads' = reloads + 1, UNCHANGED <<loader, select, raced>>
    PROVE  StoreInv'
<1>1. ~Steady'
  BY SMT DEF StoreInv, StoreTyped, TypeOK, Steady
<1> QED
  BY <1>1 DEF StoreInv, FollowInv, VersionInv, SelectInv

LEMMA AddProfileStep ==
    ASSUME StoreInv, NEW p \in Profiles, AddProfile(p)
    PROVE  StoreInv'
<1>1. version + 1 \in -1 .. MaxVersion /\ version + 1 \in 0 .. MaxVersion /\ reloads + 1 \in Nat
  BY BoundsAssumption, SMT DEF StoreInv, StoreTyped, TypeOK, AddProfile
<1>2. StoreTyped'
  <2>1. file' \in [Profiles -> -1 .. MaxVersion]
    BY <1>1 DEF StoreInv, StoreTyped, TypeOK, AddProfile
  <2> QED
    BY <1>1, <2>1 DEF StoreInv, StoreTyped, TypeOK, AddProfile, Changed, coreVars
<1> QED
  BY <1>2, ChangeSteps DEF AddProfile, Changed

LEMMA SetActiveStep ==
    ASSUME StoreInv, NEW p \in Profiles, SetActiveProfile(p)
    PROVE  StoreInv'
<1>1. reloads + 1 \in Nat
  BY SMT DEF StoreInv, StoreTyped, TypeOK
<1>2. StoreTyped'
  BY <1>1 DEF StoreInv, StoreTyped, TypeOK, SetActiveProfile, Changed, uiVars, coreVars
<1> QED
  BY <1>2, ChangeSteps DEF SetActiveProfile, Changed

LEMMA RemoveStep ==
    ASSUME StoreInv, NEW p \in Profiles, RemoveProfile(p)
    PROVE  StoreInv'
<1>1. reloads + 1 \in Nat
  BY SMT DEF StoreInv, StoreTyped, TypeOK
<1>2. /\ selected' \in [Profiles -> Values \cup {0}]
      /\ \A q \in Profiles : selected'[q] # 0 => q # p /\ selected'[q] = selected[q]
  BY DEF StoreInv, StoreTyped, TypeOK, RemoveProfile
<1>3. StoreTyped'
  BY <1>1, <1>2 DEF StoreInv, StoreTyped, TypeOK, RemoveProfile, Changed, coreVars
<1> QED
  BY <1>3, ChangeSteps DEF RemoveProfile, Changed

LEMMA InsertStep ==
    ASSUME StoreInv, UpdateInserts
    PROVE  StoreInv'
<1>1. reloads + 1 \in Nat
  BY SMT DEF StoreInv, StoreTyped, TypeOK
<1>a. update.profile \in Profiles /\ update.profile \in given
  BY UpdateKinds DEF StoreInv, StoreTyped, UpdateInserts
<1>2. /\ selected' \in [Profiles -> Values \cup {0}]
      /\ \A q \in Profiles : selected'[q] # 0 => selected'[q] = selected[q]
  BY DEF StoreInv, StoreTyped, TypeOK, UpdateInserts
<1>3. StoreTyped'
  BY <1>1, <1>a, <1>2, Zenon DEF StoreInv, StoreTyped, TypeOK, UpdateInserts, coreVars, NoUpdate
<1> QED
  BY <1>3, ChangeSteps DEF UpdateInserts

LEMMA StartStep ==
    ASSUME StoreInv, Start
    PROVE  StoreInv'
<1>1. reloads + 1 \in Nat /\ NoCore \in [profile : Profiles \cup {0}, version : -1 .. MaxVersion,
                                          selected : Values \cup {0}, lacks : BOOLEAN]
  BY BoundsAssumption, SMT DEF StoreInv, StoreTyped, TypeOK, NoCore
<1>2. StoreTyped'
  BY <1>1 DEF StoreInv, StoreTyped, TypeOK, Start, Changed, dbVars, uiVars
<1> QED
  BY <1>2, ChangeSteps DEF Start, Changed

(* Steps after which the process does not run. *)
LEMMA StopSteps ==
    ASSUME StoreInv, Stop \/ ReloadStop
    PROVE  StoreInv'
<1>1. NoCore \in [profile : Profiles \cup {0}, version : -1 .. MaxVersion,
                  selected : Values \cup {0}, lacks : BOOLEAN]
  BY BoundsAssumption, SMT DEF NoCore
<1>2. StoreTyped'
  BY <1>1 DEF StoreInv, StoreTyped, TypeOK, Stop, ReloadStop, Killed, dbVars, uiVars, loadVars
<1>3. ~Steady'
  BY DEF Steady, Stop, ReloadStop, Killed
<1>4. SelectInv'
  BY <1>3 DEF StoreInv, SelectInv, Stop, ReloadStop, loadVars, Idle
<1> QED
  BY <1>2, <1>3, <1>4 DEF StoreInv, FollowInv, VersionInv

-----------------------------------------------------------------------------
(* Steps that only touch files and the update under way. *)
LEMMA FileSteps ==
    ASSUME StoreInv, StoreTyped', VersionInv', UNCHANGED <<dbVars, coreVars, loadVars, select, raced>>
    PROVE  StoreInv'
BY DEF StoreInv, FollowInv, SelectInv, Steady, dbVars, coreVars, loadVars

LEMMA DeleteStep ==
    ASSUME StoreInv, NEW p \in Profiles, DeleteFile(p)
    PROVE  StoreInv'
<1>1. StoreTyped'
  BY BoundsAssumption, SMT DEF StoreInv, StoreTyped, TypeOK, DeleteFile, dbVars, coreVars, loadVars
<1>2. \A q \in Profiles : file'[q] = IF q = p THEN 0 ELSE file[q]
  BY DEF StoreInv, StoreTyped, TypeOK, DeleteFile
<1>3. VersionInv'
  BY <1>2, SMT DEF StoreInv, VersionInv, Steady, DeleteFile, dbVars, coreVars, loadVars
<1> QED
  BY <1>1, <1>3, FileSteps DEF DeleteFile

LEMMA UpdateSteps ==
    ASSUME StoreInv, (\E p \in Profiles : UpdateProfile(p)) \/ UpdateFails
    PROVE  StoreInv'
<1>1. StoreTyped'
  <2>1. update' = NoUpdate \/ \E p \in given : update' = [at |-> "loading", profile |-> p, active |-> p \in active]
    BY DEF UpdateProfile, UpdateFails, StoreInv, StoreTyped, TypeOK
  <2>2. /\ update' \in {NoUpdate} \cup
               [at : {"loading", "writing", "written"}, profile : Profiles, active : BOOLEAN]
        /\ update'.at # "none" => update'.profile \in given
    <3>1. CASE update' = NoUpdate
      BY <3>1, SMT DEF NoUpdate
    <3>2. CASE \E p \in given : update' = [at |-> "loading", profile |-> p, active |-> p \in active]
      <4>1. PICK p \in given : update' = [at |-> "loading", profile |-> p, active |-> p \in active]
        BY <3>2
      <4>2. p \in Profiles /\ (p \in active) \in BOOLEAN
        BY DEF StoreInv, StoreTyped, TypeOK
      <4> QED
        BY <4>1, <4>2, SMT
    <3> QED
      BY <2>1, <3>1, <3>2
  <2> QED
    BY <2>2 DEF StoreInv, StoreTyped, TypeOK, UpdateProfile, UpdateFails, dbVars, coreVars, loadVars
<1>2. update.at # "written" /\ UNCHANGED <<running, reloads, loader, core, file>>
  BY DEF UpdateProfile, UpdateFails, NoUpdate, coreVars, loadVars
<1>3. VersionInv'
  BY <1>2 DEF StoreInv, VersionInv, Steady
<1> QED
  BY <1>1, <1>3, FileSteps DEF UpdateProfile, UpdateFails

LEMMA WriteSteps ==
    ASSUME StoreInv, UpdateTruncates \/ UpdateWrites
    PROVE  StoreInv'
<1>0. /\ update.at \in {"loading", "writing"}
      /\ update \in [at : {"loading", "writing", "written"}, profile : Profiles, active : BOOLEAN]
      /\ update.profile \in given
  BY UpdateKinds DEF StoreInv, StoreTyped, UpdateTruncates, UpdateWrites
<1>1. /\ update' \in [at : {"loading", "writing", "written"}, profile : Profiles, active : BOOLEAN]
      /\ update'.profile = update.profile
      /\ UpdateWrites => update'.at = "written"
  BY <1>0, SMT DEF UpdateTruncates, UpdateWrites
<1>2. /\ file' \in [Profiles -> -1 .. MaxVersion]
      /\ version' \in 0 .. MaxVersion
      /\ \A q \in Profiles : q # update.profile => file'[q] = file[q]
      /\ UpdateTruncates => file'[update.profile] = -1
  <2>1. UpdateTruncates \/ (version + 1 \in -1 .. MaxVersion /\ version + 1 \in 0 .. MaxVersion)
    BY BoundsAssumption, SMT DEF StoreInv, StoreTyped, TypeOK, UpdateWrites
  <2>2. -1 \in -1 .. MaxVersion
    BY BoundsAssumption, SMT
  <2> QED
    BY <1>0, <2>1, <2>2 DEF StoreInv, StoreTyped, TypeOK, UpdateTruncates, UpdateWrites
<1>3. StoreTyped'
  BY <1>0, <1>1, <1>2 DEF StoreInv, StoreTyped, TypeOK, UpdateTruncates, UpdateWrites, dbVars, coreVars, loadVars
<1>4. VersionInv'
  <2>1. UNCHANGED <<running, reloads, loader, core>>
    BY DEF UpdateTruncates, UpdateWrites, coreVars, loadVars
  <2> QED
    BY <1>0, <1>1, <1>2, <2>1, SMT DEF StoreInv, VersionInv, Steady
<1> QED
  BY <1>3, <1>4, FileSteps DEF UpdateTruncates, UpdateWrites

-----------------------------------------------------------------------------
(* The reload *)
LEMMA QueryStep ==
    ASSUME StoreInv, ReloadQuery
    PROVE  StoreInv'
<1>0. reloads - 1 \in Nat /\ UNCHANGED <<running, active, core, select, selected>>
      /\ raced' = (raced \/ select # 0) /\ loader = Idle
  BY SMT DEF StoreInv, StoreTyped, TypeOK, ReloadQuery, dbVars, coreVars
<1>1. CASE ~running
  <2>1. StoreTyped'
    BY <1>0, <1>1 DEF StoreInv, StoreTyped, TypeOK, ReloadQuery, dbVars, uiVars, coreVars
  <2>2. ~Steady' /\ loader'.at = "idle"
    BY <1>0, <1>1 DEF Steady, ReloadQuery, Idle
  <2> QED
    BY <2>1, <2>2 DEF StoreInv, FollowInv, VersionInv, SelectInv
<1>2. CASE running /\ active = {}
  <2>1. StoreTyped' /\ loader'.at = "stop"
    BY <1>0, <1>2 DEF StoreInv, StoreTyped, TypeOK, ReloadQuery, dbVars, uiVars, coreVars
  <2> QED
    BY <1>0, <2>1 DEF StoreInv, FollowInv, VersionInv, SelectInv
<1>3. CASE running /\ active # {}
  <2>1. Min(active) \in Profiles
    BY <1>3, MinIsMember DEF StoreInv, StoreTyped, TypeOK
  <2>2. loader' = [at |-> "queried", profile |-> Min(active)]
    BY <1>3 DEF ReloadQuery
  <2>3. StoreTyped'
    BY <1>0, <2>1, <2>2 DEF StoreInv, StoreTyped, TypeOK, ReloadQuery, dbVars, uiVars, coreVars
  <2>4. Min(active)' = Min(active)
    BY <1>0 DEF Min
  <2>5. FollowInv'
    BY <1>0, <1>3, <2>2, <2>4 DEF FollowInv
  <2> QED
    BY <1>0, <2>2, <2>3, <2>5 DEF StoreInv, VersionInv, SelectInv
<1> QED
  BY <1>1, <1>2, <1>3

LEMMA SelectedStep ==
    ASSUME StoreInv, ReloadSelected
    PROVE  StoreInv'
<1>1. loader.profile \in Profiles /\ selected[loader.profile] \in Values \cup {0}
  BY UpdateKinds DEF StoreInv, StoreTyped, TypeOK, ReloadSelected
<1>2. loader' = [at |-> "load", profile |-> loader.profile, selected |-> selected[loader.profile]]
  BY DEF ReloadSelected
<1>3. StoreTyped'
  BY <1>1, <1>2 DEF StoreInv, StoreTyped, TypeOK, ReloadSelected, dbVars, uiVars, coreVars
<1>4. UNCHANGED <<running, reloads, active, selected, select, raced, core>>
  BY DEF ReloadSelected, dbVars, coreVars
<1>5. Min(active)' = Min(active)
  BY <1>4 DEF Min
<1>6. FollowInv' /\ SelectInv' /\ VersionInv'
  BY <1>2, <1>4, <1>5 DEF StoreInv, FollowInv, SelectInv, VersionInv, Steady, ReloadSelected
<1> QED
  BY <1>3, <1>6 DEF StoreInv

LEMMA LoaderLoads ==
    ASSUME StoreInv, ReloadLoad
    PROVE  StoreInv'
<1>0. /\ loader.at = "load" /\ loader.profile \in Profiles /\ loader.selected \in Values \cup {0}
      /\ file[loader.profile] \in -1 .. MaxVersion
  BY UpdateKinds DEF StoreInv, StoreTyped, TypeOK, ReloadLoad
<1>a. UNCHANGED <<running, reloads, active, selected, file, update, select, raced>>
  BY DEF ReloadLoad, dbVars, uiVars
<1>b. Min(active)' = Min(active)
  BY <1>a DEF Min
<1>1. ASSUME NEW lacks \in BOOLEAN, lacks => loader.selected # 0,
             core' = [profile |-> loader.profile, version |-> file[loader.profile],
                      selected |-> IF lacks THEN 0 ELSE loader.selected, lacks |-> lacks],
             loader' = Idle
      PROVE  StoreInv'
  <2>1. core' \in [profile : Profiles \cup {0}, version : -1 .. MaxVersion,
                   selected : Values \cup {0}, lacks : BOOLEAN]
    BY <1>0, <1>1
  <2>2. StoreTyped'
    BY <1>1, <2>1 DEF StoreInv, StoreTyped, TypeOK, ReloadLoad, dbVars, uiVars
  <2>3. loader'.at = "idle"
    BY <1>1 DEF Idle
  <2>4. FollowInv'
    BY <1>0, <1>a, <1>b, <1>1, <2>3 DEF StoreInv, FollowInv, Steady
  <2>5. VersionInv'
    BY <1>a, <1>1 DEF VersionInv
  <2>6. SelectInv'
    BY <1>0, <1>a, <1>1, <2>3 DEF StoreInv, SelectInv, Steady
  <2> QED
    BY <2>2, <2>4, <2>5, <2>6 DEF StoreInv
<1>2. CASE loader' = [at |-> "stop"] /\ UNCHANGED core
  <2>1. StoreTyped' /\ loader'.at = "stop"
    BY <1>2 DEF StoreInv, StoreTyped, TypeOK, ReloadLoad, dbVars, uiVars
  <2> QED
    BY <1>0, <1>a, <2>1 DEF StoreInv, FollowInv, VersionInv, SelectInv
<1> QED
  BY <1>1, <1>2 DEF ReloadLoad

-----------------------------------------------------------------------------
(* The selection *)
LEMMA NotRacing ==
    ASSUME raced' = (raced \/ Reloading), ~raced'
    PROVE  loader.at = "idle" /\ ~raced
<1>1. ~raced /\ ~Reloading
  OBVIOUS
<1>2. loader = Idle
  BY <1>1 DEF Reloading
<1> QED
  BY <1>1, <1>2 DEF Idle

LEMMA InCoreStep ==
    ASSUME StoreInv, NEW v \in Values, SelectInCore(v)
    PROVE  StoreInv'
<1>0. v # 0
  BY ProfilesAssumption
<1>1. core' = [core EXCEPT !.selected = v, !.lacks = FALSE] /\ select' = v
      /\ raced' = (raced \/ Reloading)
      /\ UNCHANGED <<running, reloads, loader, active, selected, file, update>>
  BY DEF SelectInCore, dbVars, uiVars, loadVars
<1>2. /\ core' \in [profile : Profiles \cup {0}, version : -1 .. MaxVersion,
                    selected : Values \cup {0}, lacks : BOOLEAN]
      /\ core'.profile = core.profile /\ core'.version = core.version
      /\ core'.selected = v /\ core'.lacks = FALSE
  <2>1. core \in [profile : Profiles \cup {0}, version : -1 .. MaxVersion,
                  selected : Values \cup {0}, lacks : BOOLEAN]
    BY DEF StoreInv, StoreTyped, TypeOK
  <2> QED
    BY <1>1, <2>1
<1>3. StoreTyped'
  BY <1>1, <1>2 DEF StoreInv, StoreTyped, TypeOK, SelectInCore, Reloading, dbVars, uiVars
<1>4. Min(active)' = Min(active)
  BY <1>1 DEF Min
<1>5. FollowInv' /\ VersionInv'
  BY <1>1, <1>2, <1>4 DEF StoreInv, FollowInv, VersionInv, Steady
<1>6. SelectInv'
  <2>1. ~raced' => loader.at = "idle"
    BY <1>1, NotRacing
  <2> QED
    BY <1>0, <1>1, <1>2, <2>1 DEF SelectInv
<1> QED
  BY <1>3, <1>5, <1>6 DEF StoreInv

LEMMA StoredStep ==
    ASSUME StoreInv, SelectStored
    PROVE  StoreInv'
<1>1. /\ select # 0 /\ select' = 0 /\ raced' = (raced \/ Reloading)
      /\ UNCHANGED <<running, reloads, loader, active, core, file, update>>
  BY DEF SelectStored, uiVars, coreVars, loadVars
<1>2. active # {} => /\ Min(active) \in Profiles /\ Min(active) \in present
                     /\ selected' = [selected EXCEPT ![Min(active)] = select]
  <2> SUFFICES ASSUME active # {}
               PROVE  /\ Min(active) \in Profiles /\ Min(active) \in present
                      /\ selected' = [selected EXCEPT ![Min(active)] = select]
    OBVIOUS
  <2>1. active \subseteq present /\ present \subseteq Profiles
    BY DEF StoreInv, StoreTyped, TypeOK
  <2>2. Min(active) \in active
    <3>1. active \subseteq Profiles
      BY <2>1
    <3> QED
      BY <3>1, MinIsMember
  <2>3. selected' = [selected EXCEPT ![Min(active)] = select]
    BY DEF SelectStored
  <2> QED
    BY <2>1, <2>2, <2>3
<1>3. /\ selected' \in [Profiles -> Values \cup {0}]
      /\ \A p \in Profiles : selected'[p] # 0 => p \in present
  <2>1. CASE active = {}
    BY <2>1 DEF StoreInv, StoreTyped, TypeOK, SelectStored
  <2>2. CASE active # {}
    <3> DEFINE m == Min(active)
    <3>1. m \in Profiles /\ m \in present /\ selected' = [selected EXCEPT ![m] = select]
      BY <1>2, <2>2
    <3>2. select \in Values \cup {0} /\ selected \in [Profiles -> Values \cup {0}]
          /\ \A p \in Profiles : selected[p] # 0 => p \in present
      BY DEF StoreInv, StoreTyped, TypeOK
    <3> HIDE DEF m
    <3> QED
      BY <3>1, <3>2
  <2> QED
    BY <2>1, <2>2
<1>4. StoreTyped'
  BY <1>1, <1>3 DEF StoreInv, StoreTyped, TypeOK, SelectStored, Reloading, uiVars
<1>5. Min(active)' = Min(active)
  BY <1>1 DEF Min
<1>6. FollowInv' /\ VersionInv'
  BY <1>1, <1>5 DEF StoreInv, FollowInv, VersionInv, Steady
<1>7. SelectInv'
  <2>1. ~raced' => loader.at = "idle" /\ ~raced
    BY <1>1, NotRacing
  <2>2. Steady' /\ loader'.at = "idle" =>
          core.profile = Min(active) /\ selected'[Min(active)] = select
    BY <1>1, <1>2 DEF StoreInv, StoreTyped, TypeOK, FollowInv, Steady
  <2>3. ~raced' /\ Steady' => core.selected = select /\ ~core.lacks
    BY <1>1, <2>1 DEF StoreInv, SelectInv, Steady
  <2> QED
    BY <1>1, <2>1, <2>2, <2>3 DEF SelectInv
<1> QED
  BY <1>4, <1>6, <1>7 DEF StoreInv

LEMMA StoreStep == StoreInv /\ [Next]_vars => StoreInv'
<1> SUFFICES ASSUME StoreInv, [Next]_vars PROVE StoreInv'
  OBVIOUS
<1>1. ASSUME NEW p \in Profiles,
             AddProfile(p) \/ SetActiveProfile(p) \/ RemoveProfile(p) \/ DeleteFile(p) \/ UpdateProfile(p)
      PROVE  StoreInv'
  BY <1>1, AddProfileStep, SetActiveStep, RemoveStep, DeleteStep, UpdateSteps
<1>2. CASE UpdateTruncates \/ UpdateWrites \/ UpdateFails \/ UpdateInserts
  BY <1>2, WriteSteps, UpdateSteps, InsertStep
<1>3. CASE Start \/ Stop \/ ReloadQuery \/ ReloadSelected \/ ReloadLoad \/ ReloadStop
  BY <1>3, StartStep, StopSteps, QueryStep, SelectedStep, LoaderLoads
<1>4. ASSUME NEW v \in Values, SelectInCore(v) PROVE StoreInv'
  BY <1>4, InCoreStep
<1>5. CASE SelectStored
  BY <1>5, StoredStep
<1>6. CASE UNCHANGED vars
  <2>1. Min(active)' = Min(active)
    BY <1>6 DEF vars, Min
  <2>2. StoreTyped' /\ VersionInv' /\ SelectInv'
    BY <1>6 DEF vars, StoreInv, StoreTyped, TypeOK, VersionInv, SelectInv, Steady
  <2>3. FollowInv'
    BY <1>6, <2>1 DEF vars, StoreInv, FollowInv, Steady
  <2> QED
    BY <2>2, <2>3 DEF StoreInv
<1> QED
  BY <1>1, <1>2, <1>3, <1>4, <1>5, <1>6 DEF Next

LEMMA Invariance == Spec => []StoreInv
BY StoreStart, StoreStep, PTL DEF Spec

(* Every reachable state is well typed: selections belong to rows, rows to  *)
(* ids that were given (the tables of ClashDatabase).                       *)
THEOREM Typing == Spec => []TypeOK
<1>1. StoreInv => TypeOK
  BY DEF StoreInv, StoreTyped
<1> QED
  BY <1>1, Invariance, PTL

(* Once all calls, updates and reloads have ended, a core that runs has     *)
(* loaded the active profile as it was last written (reloadProfile).        *)
THEOREM Follows == Spec => []CoreFollowsStore
<1>1. StoreInv => CoreFollowsStore
  <2> SUFFICES ASSUME StoreInv, AtRest, running
               PROVE  /\ active # {} /\ core.profile = Min(active)
                      /\ file[core.profile] > 0 => core.version = file[core.profile]
    BY DEF CoreFollowsStore
  <2>1. reloads = 0 /\ loader.at = "idle" /\ update.at = "none"
    BY SMT DEF StoreInv, StoreTyped, TypeOK, AtRest, Reloading, Idle, NoUpdate
  <2>2. active # {} /\ core.profile = Min(active)
    BY <2>1 DEF StoreInv, FollowInv, Steady
  <2>3. core.profile \in Profiles
    BY <2>2, MinIsMember DEF StoreInv, StoreTyped, TypeOK
  <2> QED
    BY <2>1, <2>2, <2>3 DEF StoreInv, VersionInv, Steady
<1> QED
  BY <1>1, Invariance, PTL

(* The selection the core uses is the stored one, unless the user selected  *)
(* while a reload was under way (setSelectProxy).                           *)
THEOREM Keeps == Spec => []SelectionKept
<1>1. StoreInv => SelectionKept
  <2> SUFFICES ASSUME StoreInv, AtRest, running, ~raced
               PROVE  /\ core.lacks => selected[core.profile] # 0
                      /\ ~core.lacks => core.selected = selected[core.profile]
    BY DEF SelectionKept
  <2>1. reloads = 0 /\ loader.at = "idle" /\ select = 0
    BY SMT DEF StoreInv, StoreTyped, TypeOK, AtRest, Reloading, Idle
  <2> QED
    BY <2>1 DEF StoreInv, SelectInv, Steady
<1> QED
  BY <1>1, Invariance, PTL

------------------------------------------------------------------------------
(* ---- ProxyProvider. -----------------------------------------------------*)
(* Contents that were written in part, and contents that somebody loads.    *)
Torn == -MaxContent .. -1
Whole == 1 .. MaxContent
Places == {"idle", "initial", "read", "reading", "load", "load file", "write", "writing",
           "assign", "version"}
Holding == {"write", "writing", "assign", "version"}
UpdaterRecords ==
    [at : Places, buf : Torn \cup {0} \cup Whole, hash : Torn \cup {0} \cup Whole]

ProviderType ==
    /\ kind \in {"HTTP", "File"} /\ remote \in Whole /\ cache \in Torn \cup {0} \cup Whole
    /\ hash \in Torn \cup {0} \cup Whole
    /\ loads \in Seq(Torn \cup Whole)
    /\ proxies \in Nat /\ published \in Nat
    /\ updater \in [Updaters -> UpdaterRecords]
    /\ mutex \in Updaters \cup {"free"}
    /\ seen \in Nat \cup {-1}
    /\ cached \in SUBSET Nat
    /\ reader \in [Readers -> [at : {"idle", "lock", "first", "second"}, seen : Nat,
                               got : SUBSET Nat, began : Nat]]

(* Who has a buffer has the hash of it, and holds the mutex from there to   *)
(* the version.                                                             *)
UpdaterOk(u) ==
    /\ updater[u].at \in Holding <=> mutex = u
    /\ updater[u].at \in Holding \cup {"load file"} => updater[u].buf # 0
    /\ updater[u].at \in Holding => updater[u].buf = updater[u].hash
    /\ updater[u].at \in {"load", "load file"} /\ updater[u].buf # 0 =>
         updater[u].buf = updater[u].hash
    /\ updater[u].at \in {"load", "write", "writing"} /\ kind = "HTTP" =>
         updater[u].buf \in {0} \cup Whole
    /\ updater[u].at \in {"write", "writing"} => kind = "HTTP"
    /\ updater[u].at = "reading" => updater[u].buf = 0
    /\ updater[u].at = "version" => published < proxies
UpdaterInv == \A u \in Updaters : UpdaterOk(u)

(* The last load is the one in use, under the version that follows it.      *)
LoadInv ==
    /\ proxies = Len(loads)
    /\ published <= proxies
    /\ loads # <<>> => loads[proxies] = hash /\ hash # 0
    /\ loads = <<>> => hash = 0

(* What the file has while the mutex is free, and on the way to it.         *)
FileOk(u) ==
    /\ updater[u].at = "writing" => cache \in Torn
    /\ updater[u].at = "assign" /\ ~late => cache \in {updater[u].buf} \cup Torn
    /\ updater[u].at = "version" /\ ~late => cache \in {hash} \cup Torn
    /\ updater[u].at = "load file" /\ loads = <<>>
         /\ (\A v \in Updaters : updater[v].at # "assign") =>
           cache \in {updater[u].buf} \cup Torn
FileInv ==
    kind = "HTTP" =>
        /\ mutex = "free" /\ hash # 0 /\ ~late => cache \in {hash} \cup Torn
        /\ \A u \in Updaters : FileOk(u)

(* What a reader holds, or finds cached, is as new as the version it saw.   *)
ReaderInv ==
    /\ ~outdated
    /\ \A l \in cached : seen <= l
    /\ \A r \in Readers :
         /\ reader[r].at # "idle" => reader[r].began = reader[r].seen
         /\ reader[r].began <= published
         /\ \A l \in reader[r].got : reader[r].began <= l

ProviderInv == ProviderType /\ UpdaterInv /\ LoadInv /\ FileInv /\ ReaderInv

LEMMA ProviderInit == Provider!Init => ProviderInv
<1> SUFFICES ASSUME Provider!Init PROVE ProviderInv
  OBVIOUS
<1> USE ProviderAssumption DEF Provider!Init, Provider!Fresh, Provider!Nothing, Provider!Free,
        Provider!IdleUpdater, Provider!IdleReader
<1>0. 1 \in Whole /\ Torn \subseteq Int /\ Whole \subseteq Nat /\ 0 \notin Whole /\ 0 \notin Torn
  BY SMT DEF Whole, Torn
<1>1. PICK first \in Updaters :
        updater = [u \in Updaters |-> IF u = first THEN [Provider!IdleUpdater EXCEPT !.at = "initial"]
                                                    ELSE Provider!IdleUpdater]
  OBVIOUS
<1>2. \A u \in Updaters : updater[u].at \in {"idle", "initial"} /\ updater[u].buf = 0
                          /\ updater[u].hash = 0
  BY <1>1
<1>3. updater \in [Updaters -> UpdaterRecords]
  BY <1>1 DEF UpdaterRecords, Places
<1>4. reader \in [Readers -> [at : {"idle", "lock", "first", "second"}, seen : Nat,
                               got : SUBSET Nat, began : Nat]]
  OBVIOUS
<1>5. ProviderType
  <2>1. loads \in Seq(Torn \cup Whole)
    BY EmptySeq
  <2> QED
    BY <1>0, <1>3, <1>4, <2>1 DEF ProviderType
<1>6. UpdaterInv
  BY <1>2 DEF UpdaterInv, UpdaterOk, Holding
<1>7. LoadInv
  BY DEF LoadInv
<1>8. FileInv
  BY <1>2 DEF FileInv, FileOk
<1>9. ReaderInv
  BY DEF ReaderInv
<1> QED
  BY <1>5, <1>6, <1>7, <1>8, <1>9 DEF ProviderInv

(* An updater that reads, or gives up, has no mutex and no proxies to set.  *)
LEMMA ProviderFetches ==
    ASSUME ProviderInv, NEW u \in Updaters,
           Provider!Initial(u) \/ Provider!Update(u) \/ Provider!Read(u)
    PROVE  ProviderInv'
<1> USE DEF Provider!Nothing, Provider!sourceVars, Provider!fetchVars, Provider!readerVars
<1>0. 0 \notin Whole /\ 0 \notin Torn
  BY SMT DEF Whole, Torn
<1>1. UNCHANGED <<kind, remote, cache, hash, loads, proxies, published, late, mutex,
                  seen, cached, reader, outdated>>
  BY DEF Provider!Initial, Provider!Update, Provider!Read
<1>2. PICK r \in UpdaterRecords :
        /\ updater' = [updater EXCEPT ![u] = r]
        /\ r.at \notin Holding
        /\ r.at = "load file" => r.buf # 0 /\ r.buf = r.hash /\ r.buf = cache
        /\ r.at = "load" /\ r.buf # 0 => r.buf = r.hash
        /\ r.at = "load" /\ kind = "HTTP" => r.buf \in {0} \cup Whole
        /\ r.at = "reading" => r.buf = 0
        /\ updater[u].at \notin Holding
  <2>1. CASE Provider!Initial(u)
    BY <2>1 DEF ProviderInv, ProviderType, Provider!Initial, Provider!IdleUpdater, UpdaterRecords, Places, Holding
  <2>2. CASE Provider!Update(u)
    BY <2>2 DEF ProviderInv, ProviderType, Provider!Update, UpdaterRecords, Places, Holding
  <2>3. CASE Provider!Read(u)
    <3>1. updater[u].at = "reading" /\ updater[u] \in UpdaterRecords
      BY <2>3 DEF Provider!Read, ProviderInv, ProviderType
    <3>2. CASE Provider!Source # 0 /\ updater' = [updater EXCEPT ![u] = [at |-> "load", buf |-> Provider!Source, hash |-> Provider!Source]]
      BY <3>1, <3>2 DEF ProviderInv, ProviderType, Provider!Source, UpdaterRecords, Places, Holding
    <3>3. CASE kind = "HTTP" /\ updater[u].hash = remote /\ updater' = [updater EXCEPT ![u].at = "load"]
      BY <3>1, <3>3, <1>0 DEF ProviderInv, UpdaterInv, UpdaterOk, UpdaterRecords, Places, Holding
    <3>4. CASE Provider!GiveUp(u)
      BY <3>1, <3>4, <1>0 DEF Provider!GiveUp, Provider!IdleUpdater, UpdaterRecords, Places, Holding
    <3> QED
      BY <2>3, <3>2, <3>3, <3>4 DEF Provider!Read
  <2> QED
    BY <2>1, <2>2, <2>3
<1>3. /\ updater'[u] = r /\ \A v \in Updaters : v # u => updater'[v] = updater[v]
      /\ updater' \in [Updaters -> UpdaterRecords]
  BY <1>2, Zenon DEF ProviderInv, ProviderType
<1>4. ProviderType'
  BY <1>1, <1>3 DEF ProviderInv, ProviderType
<1>5. UpdaterInv'
  <2> SUFFICES ASSUME NEW v \in Updaters PROVE UpdaterOk(v)'
    BY DEF UpdaterInv
  <2>1. CASE v = u
    BY <1>1, <1>2, <1>3, <2>1 DEF ProviderInv, UpdaterInv, UpdaterOk, Holding
  <2>2. CASE v # u
    BY <1>1, <1>3, <2>2 DEF ProviderInv, UpdaterInv, UpdaterOk
  <2> QED
    BY <2>1, <2>2
<1>6. LoadInv' /\ ReaderInv'
  BY <1>1 DEF ProviderInv, LoadInv, ReaderInv
<1>7. FileInv'
  <2>1. \A v \in Updaters : updater[v].at = "assign" => updater'[v].at = "assign"
    BY <1>2, <1>3 DEF Holding
  <2> SUFFICES ASSUME NEW v \in Updaters, kind = "HTTP" PROVE FileOk(v)'
    BY <1>1 DEF ProviderInv, FileInv
  <2>2. CASE v = u
    BY <1>1, <1>2, <1>3, <2>2 DEF Holding, FileOk
  <2>3. CASE v # u
    BY <1>1, <1>3, <2>1, <2>3 DEF ProviderInv, FileInv, FileOk
  <2> QED
    BY <2>2, <2>3
<1> QED
  BY <1>4, <1>5, <1>6, <1>7 DEF ProviderInv

(* Who holds the mutex is alone in that.                                    *)
LEMMA OneHolder ==
    ASSUME ProviderInv, NEW u \in Updaters, NEW v \in Updaters,
           updater[u].at \in Holding, v # u
    PROVE  mutex = u /\ updater[v].at \notin Holding
BY DEF ProviderInv, UpdaterInv, UpdaterOk

LEMMA NobodyHolds ==
    ASSUME ProviderInv, mutex = "free", NEW u \in Updaters
    PROVE  updater[u].at \notin Holding
BY ProviderAssumption DEF ProviderInv, UpdaterInv, UpdaterOk

(* An updater that goes on keeps its buffer; one that gives up has none.    *)
LEMMA UpdaterGoes ==
    ASSUME ProviderType, NEW u \in Updaters, NEW x \in Places, Provider!Go(u, x)
    PROVE  /\ updater' \in [Updaters -> UpdaterRecords]
           /\ updater'[u].at = x
           /\ updater'[u].buf = updater[u].buf /\ updater'[u].hash = updater[u].hash
           /\ \A v \in Updaters : v # u => updater'[v] = updater[v]
<1>1. updater[u] \in UpdaterRecords
  BY DEF ProviderType
<1>2. [updater[u] EXCEPT !.at = x] \in UpdaterRecords
  BY <1>1, Zenon DEF UpdaterRecords
<1>3. updater' = [updater EXCEPT ![u] = [updater[u] EXCEPT !.at = x]]
  BY Zenon DEF Provider!Go
<1>4. updater'[u] = [updater[u] EXCEPT !.at = x]
  BY <1>3, Zenon DEF ProviderType
<1>5. \A v \in Updaters : v # u => updater'[v] = updater[v]
  BY <1>3, Zenon DEF ProviderType
<1>6. updater' \in [Updaters -> UpdaterRecords]
  BY <1>2, <1>3, Zenon DEF ProviderType
<1> QED
  BY <1>1, <1>4, <1>5, <1>6 DEF UpdaterRecords

LEMMA UpdaterGivesUp ==
    ASSUME ProviderType, NEW u \in Updaters, Provider!GiveUp(u)
    PROVE  /\ updater' \in [Updaters -> UpdaterRecords]
           /\ updater'[u].at = "idle" /\ updater'[u].buf = 0
           /\ \A v \in Updaters : v # u => updater'[v] = updater[v]
<1>1. Provider!IdleUpdater \in UpdaterRecords
  BY DEF UpdaterRecords, Provider!IdleUpdater, Provider!Nothing, Places
<1>2. updater'[u] = Provider!IdleUpdater
  BY Zenon DEF Provider!GiveUp, ProviderType
<1>3. \A v \in Updaters : v # u => updater'[v] = updater[v]
  BY Zenon DEF Provider!GiveUp, ProviderType
<1>4. updater' \in [Updaters -> UpdaterRecords]
  BY <1>1, Zenon DEF Provider!GiveUp, ProviderType
<1> QED
  BY <1>2, <1>3, <1>4 DEF Provider!IdleUpdater, Provider!Nothing

LEMMA OthersStay ==
    ASSUME NEW v \in Updaters, UpdaterOk(v), updater'[v] = updater[v],
           mutex' = v <=> mutex = v, UNCHANGED kind,
           updater[v].at = "version" => UNCHANGED <<published, proxies>>
    PROVE  UpdaterOk(v)'
<1>1. updater'[v].at = updater[v].at /\ updater'[v].buf = updater[v].buf
      /\ updater'[v].hash = updater[v].hash
  OBVIOUS
<1> QED
  BY <1>1 DEF UpdaterOk, Holding, Whole

LEMMA ProviderLoads ==
    ASSUME ProviderInv, NEW u \in Updaters, Provider!LoadBuf(u)
    PROVE  ProviderInv'
<1> USE DEF Provider!Nothing, Provider!Free, Provider!sourceVars, Provider!readerVars
<1>1. /\ UNCHANGED <<kind, remote, cache, hash, loads, proxies, published, seen, cached, reader,
                     outdated>>
      /\ mutex = "free" /\ updater[u].at \in {"load", "load file"}
  BY DEF Provider!LoadBuf
<1>2. \A v \in Updaters : updater[v].at \notin Holding
  BY <1>1, NobodyHolds
<1>3. LoadInv' /\ ReaderInv'
  BY <1>1 DEF ProviderInv, LoadInv, ReaderInv
<1>4. updater[u] \in UpdaterRecords
  BY DEF ProviderInv, ProviderType
<1> DEFINE same == updater[u].hash = hash \/ updater[u].buf = 0
<1>5. CASE same \/ updater[u].buf \in Unparsable
  <2>2. /\ updater' \in [Updaters -> UpdaterRecords]
        /\ updater'[u].at \in {"idle", "read"}
        /\ \A v \in Updaters : v # u => updater'[v] = updater[v]
    <3>1. Provider!Go(u, "read") \/ Provider!GiveUp(u)
      BY <1>5 DEF Provider!LoadBuf
    <3>2. "read" \in Places
      BY DEF Places
    <3> QED
      BY <3>1, <3>2, UpdaterGoes, UpdaterGivesUp DEF ProviderInv
  <2>3. UNCHANGED <<mutex, late>>
    BY <1>5 DEF Provider!LoadBuf
  <2>4. ProviderType'
    BY <1>1, <2>2, <2>3 DEF ProviderInv, ProviderType
  <2>5. UpdaterInv'
    <3> SUFFICES ASSUME NEW v \in Updaters PROVE UpdaterOk(v)'
      BY DEF UpdaterInv
    <3>1. CASE v = u
      BY <1>1, <1>2, <2>2, <2>3, <3>1, ProviderAssumption DEF UpdaterOk, Holding
    <3>2. CASE v # u
      BY <1>1, <2>2, <2>3, <3>2, OthersStay DEF ProviderInv, UpdaterInv
    <3> QED
      BY <3>1, <3>2
  <2>6. FileInv'
    <3> SUFFICES ASSUME NEW v \in Updaters, kind = "HTTP" PROVE FileOk(v)'
      BY <1>1, <2>3 DEF ProviderInv, FileInv
    <3>1. CASE v = u
      BY <2>2, <3>1 DEF FileOk
    <3>2. CASE v # u
      BY <1>1, <1>2, <2>2, <2>3, <3>2 DEF ProviderInv, FileInv, FileOk, Holding
    <3> QED
      BY <3>1, <3>2
  <2> QED
    BY <1>3, <2>4, <2>5, <2>6 DEF ProviderInv
<1>6. CASE ~(same \/ updater[u].buf \in Unparsable)
  <2>1. /\ Provider!Go(u, IF updater[u].at = "load" /\ kind = "HTTP" THEN "write" ELSE "assign")
        /\ mutex' = u
        /\ late' = (updater[u].at = "load file" /\ loads # <<>>)
    BY <1>6 DEF Provider!LoadBuf
  <2>3. /\ updater' \in [Updaters -> UpdaterRecords]
        /\ updater'[u].at = IF updater[u].at = "load" /\ kind = "HTTP" THEN "write" ELSE "assign"
        /\ updater'[u].buf = updater[u].buf /\ updater'[u].hash = updater[u].hash
        /\ \A v \in Updaters : v # u => updater'[v] = updater[v]
    BY <2>1, UpdaterGoes DEF ProviderInv, Places
  <2>4. ProviderType'
    BY <1>1, <2>1, <2>3 DEF ProviderInv, ProviderType
  <2>5. UpdaterInv'
    <3> SUFFICES ASSUME NEW v \in Updaters PROVE UpdaterOk(v)'
      BY DEF UpdaterInv
    <3>1. CASE v = u
      BY <1>1, <1>6, <2>1, <2>3, <3>1 DEF ProviderInv, UpdaterInv, UpdaterOk, Holding
    <3>2. CASE v # u
      <4>1. mutex' = v <=> mutex = v
        BY <1>1, <2>1, <3>2, ProviderAssumption
      <4> QED
        BY <1>1, <2>3, <3>2, <4>1, OthersStay DEF ProviderInv, UpdaterInv
    <3> QED
      BY <3>1, <3>2
  <2>6. FileInv'
    <3>1. mutex' # "free"
      BY <2>1, ProviderAssumption
    <3> SUFFICES ASSUME NEW v \in Updaters, kind = "HTTP" PROVE FileOk(v)'
      BY <1>1, <3>1 DEF FileInv
    <3>2. \A w \in Updaters : updater[w].at # "assign"
      BY <1>2 DEF Holding
    <3>3. CASE v = u
      BY <1>1, <2>1, <2>3, <3>2, <3>3 DEF ProviderInv, FileInv, FileOk
    <3>4. CASE v # u
      BY <1>1, <1>2, <2>3, <3>2, <3>4 DEF ProviderInv, FileInv, FileOk, Holding
    <3> QED
      BY <3>3, <3>4
  <2> QED
    BY <1>3, <2>4, <2>5, <2>6 DEF ProviderInv
<1> QED
  BY <1>5, <1>6

LEMMA TornIsTorn == \A c \in Whole : -c \in Torn
BY ProviderAssumption, SMT DEF Whole, Torn

(* The steps of the updater that holds the mutex.                           *)
LEMMA ProviderWrites ==
    ASSUME ProviderInv, NEW u \in Updaters,
           Provider!Truncate(u) \/ Provider!Written(u) \/ Provider!WriteFails(u)
    PROVE  ProviderInv'
<1> USE DEF Provider!Nothing, Provider!Free, Provider!sourceVars, Provider!readerVars,
            Provider!fetchVars
<1>1. /\ UNCHANGED <<kind, remote, hash, loads, proxies, published, late, seen, cached, reader,
                     outdated>>
      /\ updater[u].at \in {"write", "writing"}
  BY DEF Provider!Truncate, Provider!Written, Provider!WriteFails
<1>2. /\ kind = "HTTP" /\ mutex = u
      /\ updater[u].buf \in Whole /\ updater[u].buf = updater[u].hash
  BY <1>1 DEF ProviderInv, UpdaterInv, UpdaterOk, Holding
<1>3. \A v \in Updaters : v # u => updater[v].at \notin Holding
  BY <1>1, OneHolder DEF Holding
<1>4. LoadInv' /\ ReaderInv'
  BY <1>1 DEF ProviderInv, LoadInv, ReaderInv
<1>5. /\ updater' \in [Updaters -> UpdaterRecords]
      /\ \A v \in Updaters : v # u => updater'[v] = updater[v]
      /\ \/ /\ updater'[u].at = "writing" /\ cache' \in Torn
            /\ updater'[u].buf = updater[u].buf /\ updater'[u].hash = updater[u].hash
            /\ UNCHANGED mutex
         \/ /\ updater'[u].at = "assign" /\ cache' = updater[u].buf
            /\ updater'[u].buf = updater[u].buf /\ updater'[u].hash = updater[u].hash
            /\ UNCHANGED mutex
         \/ updater'[u].at = "idle" /\ mutex' = "free" /\ UNCHANGED cache /\ cache \in Torn
  <2>1. "writing" \in Places /\ "assign" \in Places
    BY DEF Places
  <2>2. CASE Provider!Truncate(u)
    BY <1>2, <2>1, <2>2, UpdaterGoes, TornIsTorn DEF ProviderInv, Provider!Truncate
  <2>3. CASE Provider!Written(u)
    BY <1>2, <2>1, <2>3, UpdaterGoes DEF ProviderInv, Provider!Written
  <2>4. CASE Provider!WriteFails(u)
    <3>1. cache \in Torn
      BY <1>2, <2>4 DEF ProviderInv, FileInv, FileOk, Provider!WriteFails
    <3> QED
      BY <2>4, <3>1, UpdaterGivesUp DEF ProviderInv, Provider!WriteFails
  <2> QED
    BY <2>2, <2>3, <2>4
<1>6. cache' \in Torn \cup Whole /\ mutex' \in {u, "free"}
  BY <1>2, <1>5
<1>7. ProviderType'
  BY <1>1, <1>5, <1>6 DEF ProviderInv, ProviderType
<1>8. UpdaterInv'
  <2> SUFFICES ASSUME NEW v \in Updaters PROVE UpdaterOk(v)'
    BY DEF UpdaterInv
  <2>1. CASE v = u
    <3>1. 0 \notin Whole
      BY DEF Whole
    <3> QED
      BY <1>1, <1>2, <1>5, <2>1, <3>1, ProviderAssumption DEF UpdaterOk, Holding
  <2>2. CASE v # u
    BY <1>1, <1>2, <1>5, <2>2, OthersStay, ProviderAssumption DEF ProviderInv, UpdaterInv
  <2> QED
    BY <2>1, <2>2
<1>9. FileInv'
  <2>1. mutex' = "free" => cache' \in Torn
    BY <1>2, <1>5, ProviderAssumption
  <2> SUFFICES ASSUME NEW v \in Updaters PROVE FileOk(v)'
    BY <2>1 DEF FileInv
  <2>2. CASE v = u
    BY <1>1, <1>2, <1>5, <2>2 DEF FileOk
  <2>3. CASE v # u
    <3>1. updater'[v] = updater[v] /\ updater[v].at \notin Holding
      BY <1>3, <1>5, <2>3
    <3>2. cache' \in Torn \/ updater'[u].at = "assign"
      BY <1>5
    <3> QED
      BY <3>1, <3>2 DEF FileOk, Holding
  <2> QED
    BY <2>2, <2>3
<1> QED
  BY <1>4, <1>7, <1>8, <1>9 DEF ProviderInv

LEMMA ProviderAssigns ==
    ASSUME ProviderInv, NEW u \in Updaters, Provider!Assign(u)
    PROVE  ProviderInv'
<1> USE DEF Provider!sourceVars, Provider!readerVars
<1>1. /\ UNCHANGED <<kind, remote, cache, published, late, mutex, seen, cached, reader, outdated>>
      /\ updater[u].at = "assign" /\ hash' = updater[u].hash
      /\ loads' = Append(loads, updater[u].buf) /\ proxies' = Len(loads')
  BY DEF Provider!Assign
<1>2. /\ mutex = u /\ updater[u].buf = updater[u].hash /\ updater[u].buf # 0
      /\ updater[u] \in UpdaterRecords /\ updater[u].buf \in Torn \cup Whole
  <2>1. updater[u] \in UpdaterRecords
    BY DEF ProviderInv, ProviderType
  <2> QED
    BY <1>1, <2>1 DEF ProviderInv, UpdaterInv, UpdaterOk, Holding, UpdaterRecords
<1>3. \A v \in Updaters : v # u => updater[v].at \notin Holding
  BY <1>1, OneHolder DEF Holding
<1>4. /\ updater' \in [Updaters -> UpdaterRecords]
      /\ \A v \in Updaters : v # u => updater'[v] = updater[v]
      /\ updater'[u].at = "version"
      /\ updater'[u].buf = updater[u].buf /\ updater'[u].hash = updater[u].hash
  BY UpdaterGoes DEF ProviderInv, Provider!Assign, Places
<1>5. /\ loads' \in Seq(Torn \cup Whole) /\ loads' # <<>>
      /\ proxies' = proxies + 1 /\ proxies' = Len(loads') /\ loads'[proxies'] = hash'
      /\ proxies' \in Nat
  <2>1. loads \in Seq(Torn \cup Whole) /\ proxies = Len(loads)
    BY DEF ProviderInv, ProviderType, LoadInv
  <2>2. Len(loads) \in Nat
    BY <2>1, LenProperties
  <2> QED
    BY <1>1, <1>2, <2>1, <2>2, AppendProperties
<1>6. published \in Nat /\ published < proxies' /\ published <= proxies'
  <2>1. published \in Nat /\ proxies \in Nat /\ published <= proxies
    BY DEF ProviderInv, ProviderType, LoadInv
  <2> QED
    BY <1>5, <2>1
<1>7. ProviderType'
  BY <1>1, <1>2, <1>4, <1>5 DEF ProviderInv, ProviderType
<1>8. UpdaterInv'
  <2> SUFFICES ASSUME NEW v \in Updaters PROVE UpdaterOk(v)'
    BY DEF UpdaterInv
  <2>1. CASE v = u
    BY <1>1, <1>2, <1>4, <1>6, <2>1 DEF UpdaterOk, Holding
  <2>2. CASE v # u
    <3>1. updater[v].at # "version"
      BY <1>3, <2>2 DEF Holding
    <3> QED
      BY <1>1, <1>4, <2>2, <3>1, OthersStay DEF ProviderInv, UpdaterInv
  <2> QED
    BY <2>1, <2>2
<1>9. LoadInv'
  BY <1>1, <1>2, <1>5, <1>6 DEF LoadInv
<1>10. FileInv'
  <2>1. mutex' # "free"
    BY <1>1, <1>2, ProviderAssumption
  <2> SUFFICES ASSUME NEW v \in Updaters, kind = "HTTP" PROVE FileOk(v)'
    BY <1>1, <2>1 DEF FileInv
  <2>2. CASE v = u
    BY <1>1, <1>2, <1>4, <2>2 DEF ProviderInv, FileInv, FileOk
  <2>3. CASE v # u
    BY <1>3, <1>4, <1>5, <2>3 DEF FileOk, Holding
  <2> QED
    BY <2>2, <2>3
<1>11. ReaderInv'
  BY <1>1 DEF ProviderInv, ReaderInv
<1> QED
  BY <1>7, <1>8, <1>9, <1>10, <1>11 DEF ProviderInv

LEMMA ProviderVersion ==
    ASSUME ProviderInv, NEW u \in Updaters, Provider!SetVersion(u)
    PROVE  ProviderInv'
<1> USE DEF Provider!sourceVars, Provider!readerVars, Provider!Free
<1>1. /\ UNCHANGED <<kind, remote, cache, hash, loads, proxies, late, seen, cached, reader,
                     outdated>>
      /\ updater[u].at = "version" /\ published' = published + 1 /\ mutex' = "free"
  BY DEF Provider!SetVersion
<1>2. mutex = u /\ published < proxies
  BY <1>1 DEF ProviderInv, UpdaterInv, UpdaterOk, Holding
<1>3. \A v \in Updaters : v # u => updater[v].at \notin Holding
  BY <1>1, OneHolder DEF Holding
<1>4. /\ updater' \in [Updaters -> UpdaterRecords]
      /\ \A v \in Updaters : v # u => updater'[v] = updater[v]
      /\ updater'[u].at = "idle"
  BY UpdaterGivesUp DEF ProviderInv, Provider!SetVersion
<1>5. published \in Nat /\ published' \in Nat /\ published <= published' /\ published' <= proxies
  <2>1. published \in Nat /\ proxies \in Nat
    BY DEF ProviderInv, ProviderType
  <2> QED
    BY <1>1, <1>2, <2>1
<1>6. ProviderType'
  BY <1>1, <1>4, <1>5 DEF ProviderInv, ProviderType
<1>7. UpdaterInv'
  <2> SUFFICES ASSUME NEW v \in Updaters PROVE UpdaterOk(v)'
    BY DEF UpdaterInv
  <2>1. CASE v = u
    BY <1>1, <1>4, <2>1, ProviderAssumption DEF UpdaterOk, Holding
  <2>2. CASE v # u
    <3>1. updater[v].at # "version"
      BY <1>3, <2>2 DEF Holding
    <3> QED
      BY <1>1, <1>2, <1>4, <2>2, <3>1, OthersStay, ProviderAssumption DEF ProviderInv, UpdaterInv
  <2> QED
    BY <2>1, <2>2
<1>8. LoadInv'
  BY <1>1, <1>5 DEF ProviderInv, LoadInv
<1>9. FileInv'
  <2> SUFFICES ASSUME kind = "HTTP" PROVE FileInv'
    BY <1>1 DEF FileInv
  <2>1. ~late => cache \in {hash} \cup Torn
    BY <1>1 DEF ProviderInv, FileInv, FileOk
  <2>2. ASSUME NEW v \in Updaters PROVE FileOk(v)'
    <3>1. CASE v = u
      BY <1>4, <3>1 DEF FileOk
    <3>2. CASE v # u
      <4>1. \A w \in Updaters : updater[w].at # "assign"
        BY <1>1, <1>3 DEF Holding
      <4> QED
        BY <1>1, <1>4, <3>2, <4>1 DEF ProviderInv, FileInv, FileOk
    <3> QED
      BY <3>1, <3>2
  <2> QED
    BY <1>1, <2>1, <2>2 DEF FileInv
<1>10. ReaderInv'
  <2>1. \A r \in Readers : reader[r].began <= published'
    <3> SUFFICES ASSUME NEW r \in Readers PROVE reader[r].began <= published'
      OBVIOUS
    <3>1. reader[r].began \in Nat /\ reader[r].began <= published
      BY DEF ProviderInv, ProviderType, ReaderInv
    <3> QED
      BY <1>5, <3>1
  <2> QED
    BY <1>1, <2>1 DEF ProviderInv, ReaderInv
<1> QED
  BY <1>6, <1>7, <1>8, <1>9, <1>10 DEF ProviderInv

(* What GetProxies collects is as new as the version it began with.         *)
LEMMA ReaderReads ==
    ASSUME ProviderInv, NEW r \in Readers,
           \/ Provider!ReadVersion(r) \/ Provider!Lock(r) \/ Provider!Collect(r)
           \/ Provider!CollectLast(r)
    PROVE  ProviderInv'
<1> USE DEF Provider!sourceVars, Provider!fetchVars
<1>1. UNCHANGED <<kind, remote, cache, hash, loads, proxies, published, late, mutex, updater>>
  BY DEF Provider!ReadVersion, Provider!Lock, Provider!Collect, Provider!CollectLast
<1>2. /\ reader[r].at \in {"idle", "lock", "first", "second"} /\ reader[r].seen \in Nat
      /\ reader[r].got \in SUBSET Nat /\ reader[r].began \in Nat
      /\ published \in Nat /\ proxies \in Nat /\ published <= proxies
      /\ reader[r].began <= published
      /\ reader[r].at # "idle" => reader[r].began = reader[r].seen
      /\ \A l \in reader[r].got : reader[r].began <= l
      /\ reader \in [Readers -> [at : {"idle", "lock", "first", "second"}, seen : Nat,
                               got : SUBSET Nat, began : Nat]]
  <2>1. reader[r] \in [at : {"idle", "lock", "first", "second"}, seen : Nat,
                               got : SUBSET Nat, began : Nat]
    BY DEF ProviderInv, ProviderType
  <2> QED
    BY <2>1 DEF ProviderInv, ProviderType, LoadInv, ReaderInv
<1>3. reader[r].began <= proxies
  BY <1>2
<1> DEFINE Records == [at : {"idle", "lock", "first", "second"}, seen : Nat,
                       got : SUBSET Nat, began : Nat]
<1>4. PICK x \in Records :
        /\ reader' = [reader EXCEPT ![r] = x]
        /\ x.at # "idle" => x.began = x.seen
        /\ x.began <= published
        /\ \A l \in x.got : x.began <= l
        /\ ~outdated'
        /\ \/ UNCHANGED <<seen, cached>>
           \/ seen' \in Nat /\ cached' \in SUBSET Nat /\ \A l \in cached' : seen' <= l
  <2>0. ~outdated
    BY DEF ProviderInv, ReaderInv
  <2>1. Provider!IdleReader \in Records /\ Provider!IdleReader.at = "idle"
        /\ Provider!IdleReader.began = 0 /\ Provider!IdleReader.got = {}
    BY DEF Provider!IdleReader
  <2> DEFINE i == Provider!IdleReader
  <2>6. i \in Records /\ (i.at # "idle" => i.began = i.seen) /\ i.began <= published
        /\ \A l \in i.got : i.began <= l
    BY <1>2, <2>1
  <2>2. CASE Provider!ReadVersion(r)
    <3> DEFINE x == [at |-> "lock", seen |-> published, got |-> {}, began |-> published]
    <3>1. x \in Records /\ x.began = x.seen /\ x.began <= published /\ x.got = {}
      BY <1>2
    <3>2. reader' = [reader EXCEPT ![r] = x] /\ UNCHANGED <<seen, cached, outdated>>
      BY <2>2 DEF Provider!ReadVersion
    <3> QED
      BY <2>0, <3>1, <3>2
  <2>3. CASE Provider!Lock(r)
    <3>1. CASE reader[r].seen # seen
      <4> DEFINE x == [reader[r] EXCEPT !.at = "first"]
      <4>1. x \in Records
        BY <1>2, Zenon
      <4>2. x.at = "first" /\ x.seen = reader[r].seen /\ x.began = reader[r].began
            /\ x.got = reader[r].got
        BY <1>2
      <4>3. reader' = [reader EXCEPT ![r] = x] /\ UNCHANGED <<seen, cached, outdated>>
        BY <2>3, <3>1, Zenon DEF Provider!Lock
      <4>4. reader[r].at # "idle"
        BY <2>3 DEF Provider!Lock
      <4> QED
        BY <1>2, <2>0, <4>1, <4>2, <4>3, <4>4
    <3>2. CASE reader[r].seen = seen
      <4>1. Provider!Return(r, cached) /\ UNCHANGED <<seen, cached>> /\ reader[r].at # "idle"
        BY <2>3, <3>2 DEF Provider!Lock
      <4>2. \A l \in cached : reader[r].began <= l /\ l \in Nat
        BY <1>2, <3>2, <4>1 DEF ProviderInv, ProviderType, ReaderInv
      <4>3. ~outdated'
        <5>1. ~ \E l \in cached : l < reader[r].began
          BY <1>2, <4>2
        <5> QED
          BY <4>1, <5>1 DEF Provider!Return, ProviderInv, ReaderInv
      <4>4. reader' = [reader EXCEPT ![r] = Provider!IdleReader]
        BY <4>1 DEF Provider!Return
      <4> HIDE DEF Records, i
      <4> QED
        BY <2>6, <4>1, <4>3, <4>4, Zenon DEF i
    <3> QED
      BY <3>1, <3>2
  <2>4. CASE Provider!Collect(r)
    <3> DEFINE x == [[reader[r] EXCEPT !.at = "second"] EXCEPT !.got = {proxies}]
    <3>1. x \in Records
      BY <1>2, Zenon
    <3>2. x.at = "second" /\ x.seen = reader[r].seen /\ x.began = reader[r].began
          /\ x.got = {proxies}
      BY <1>2
    <3>3. reader' = [reader EXCEPT ![r] = x] /\ UNCHANGED <<seen, cached, outdated>>
      BY <2>4, Zenon DEF Provider!Collect
    <3>4. reader[r].at # "idle"
      BY <2>4 DEF Provider!Collect
    <3> QED
      BY <1>2, <1>3, <2>0, <3>1, <3>2, <3>3, <3>4
  <2>5. CASE Provider!CollectLast(r)
    <3>1. \A l \in Provider!Kept(r) : l \in Nat /\ reader[r].began <= l
      BY <1>2, <1>3 DEF Provider!Kept
    <3>2. reader[r].at # "idle" /\ Provider!Return(r, Provider!Kept(r))
      BY <2>5 DEF Provider!CollectLast
    <3>3. ~outdated'
      <4>1. ~ \E l \in Provider!Kept(r) : l < reader[r].began
        BY <1>2, <3>1
      <4> QED
        BY <3>2, <4>1 DEF Provider!Return, ProviderInv, ReaderInv
    <3>4. \/ UNCHANGED <<seen, cached>>
          \/ seen' = reader[r].seen /\ cached' = Provider!Kept(r)
      <4>1. CASE Provider!Kept(r) = {}
        BY <2>5, <4>1, Zenon DEF Provider!CollectLast
      <4>2. CASE Provider!Kept(r) # {}
        BY <2>5, <4>2, Zenon DEF Provider!CollectLast
      <4> QED
        BY <4>1, <4>2
    <3>5. reader' = [reader EXCEPT ![r] = Provider!IdleReader]
      BY <3>2 DEF Provider!Return
    <3>6. \/ UNCHANGED <<seen, cached>>
          \/ seen' \in Nat /\ cached' \in SUBSET Nat /\ \A l \in cached' : seen' <= l
      <4>1. Provider!Kept(r) \in SUBSET Nat
        BY <3>1
      <4> QED
        BY <1>2, <3>1, <3>2, <3>4, <4>1
    <3> HIDE DEF Records, i
    <3> QED
      BY <2>6, <3>3, <3>5, <3>6, Zenon DEF i
  <2> QED
    BY <2>2, <2>3, <2>4, <2>5
<1>5. /\ reader'[r] = x /\ reader' \in [Readers -> Records]
      /\ \A v \in Readers : v # r => reader'[v] = reader[v]
  BY <1>2, <1>4, Zenon
<1>6. ProviderType'
  BY <1>1, <1>4, <1>5 DEF ProviderInv, ProviderType
<1>7. ReaderInv'
  <2>1. \A v \in Readers :
          /\ reader'[v].at # "idle" => reader'[v].began = reader'[v].seen
          /\ reader'[v].began <= published
          /\ \A l \in reader'[v].got : reader'[v].began <= l
    <3> SUFFICES ASSUME NEW v \in Readers
                 PROVE  /\ reader'[v].at # "idle" => reader'[v].began = reader'[v].seen
                        /\ reader'[v].began <= published
                        /\ \A l \in reader'[v].got : reader'[v].began <= l
      OBVIOUS
    <3>1. CASE v = r
      BY <1>4, <1>5, <3>1
    <3>2. CASE v # r
      BY <1>5, <3>2 DEF ProviderInv, ReaderInv
    <3> QED
      BY <3>1, <3>2
  <2> QED
    BY <1>1, <1>4, <2>1 DEF ProviderInv, ReaderInv
<1>8. LoadInv'
  BY <1>1 DEF ProviderInv, LoadInv
<1>9. UpdaterInv' /\ FileInv'
  BY <1>1 DEF ProviderInv, UpdaterInv, UpdaterOk, FileInv, FileOk
<1> QED
  BY <1>6, <1>7, <1>8, <1>9 DEF ProviderInv

(* The server publishes, or the user edits the file.                        *)
LEMMA ProviderPublish ==
    ASSUME ProviderInv, Provider!Publish
    PROVE  ProviderInv'
<1>1. /\ UNCHANGED <<kind, hash, loads, proxies, published, late, mutex, updater,
                     seen, cached, reader, outdated>>
      /\ remote < MaxContent /\ remote' = remote + 1
      /\ cache' = IF kind = "File" THEN remote' ELSE cache
  BY DEF Provider!Publish, Provider!fetchVars, Provider!readerVars
<1>2. remote' \in Whole
  <2>1. remote \in Whole
    BY DEF ProviderInv, ProviderType
  <2> QED
    BY <1>1, <2>1, ProviderAssumption DEF Whole
<1>3. ProviderType'
  <2>1. cache' \in Torn \cup {0} \cup Whole
    BY <1>1, <1>2 DEF ProviderInv, ProviderType
  <2> QED
    BY <1>1, <1>2, <2>1 DEF ProviderInv, ProviderType
<1>4. UpdaterInv' /\ LoadInv' /\ ReaderInv'
  BY <1>1 DEF ProviderInv, UpdaterInv, UpdaterOk, LoadInv, ReaderInv
<1>5. FileInv'
  BY <1>1 DEF ProviderInv, FileInv, FileOk
<1> QED
  BY <1>3, <1>4, <1>5 DEF ProviderInv

(* A restart begins with nothing but the file.                              *)
LEMMA ProviderCrash ==
    ASSUME ProviderInv, Provider!Crash
    PROVE  ProviderInv'
<1> USE ProviderAssumption DEF Provider!Crash, Provider!Nothing, Provider!Free,
        Provider!IdleUpdater, Provider!IdleReader
<1>1. PICK first \in Updaters :
        updater' = [u \in Updaters |-> IF u = first THEN [Provider!IdleUpdater EXCEPT !.at = "initial"]
                                                     ELSE Provider!IdleUpdater]
  OBVIOUS
<1>2. \A u \in Updaters : updater'[u].at \in {"idle", "initial"} /\ updater'[u].buf = 0
                          /\ updater'[u].hash = 0
  BY <1>1
<1>3. updater' \in [Updaters -> UpdaterRecords]
  BY <1>1 DEF UpdaterRecords, Places
<1>4. reader' \in [Readers -> [at : {"idle", "lock", "first", "second"}, seen : Nat,
                               got : SUBSET Nat, began : Nat]]
  OBVIOUS
<1>5. ProviderType'
  <2>1. loads' \in Seq(Torn \cup Whole)
    BY EmptySeq
  <2> QED
    BY <1>3, <1>4, <2>1 DEF ProviderInv, ProviderType
<1>6. UpdaterInv'
  BY <1>2 DEF UpdaterInv, UpdaterOk, Holding
<1>7. LoadInv'
  BY DEF LoadInv
<1>8. FileInv'
  BY <1>2 DEF FileInv, FileOk
<1>9. ReaderInv'
  BY DEF ProviderInv, ReaderInv
<1> QED
  BY <1>5, <1>6, <1>7, <1>8, <1>9 DEF ProviderInv

LEMMA ProviderStep ==
    (subject = "provider" => ProviderInv) /\ [StoreNext]_allVars
        => (subject = "provider" => ProviderInv)'
<1> SUFFICES ASSUME subject = "provider" => ProviderInv, [StoreNext]_allVars,
                    subject' = "provider"
             PROVE  ProviderInv'
  OBVIOUS
<1>1. CASE UNCHANGED allVars
  <2>1. UNCHANGED <<subject, kind, remote, cache, hash, loads, proxies, published, late, mutex,
                    updater, seen, cached, reader, outdated>>
    BY <1>1 DEF allVars, providerVars
  <2> QED
    BY <2>1 DEF ProviderInv, ProviderType, UpdaterInv, UpdaterOk, LoadInv, FileInv, FileOk,
                ReaderInv
<1>2. CASE StoreNext
  <2>1. subject = "provider" /\ Provider!Next
    BY <1>2 DEF StoreNext, Store, Event, OnScreen, Provide
  <2> QED
    BY <2>1, ProviderFetches, ProviderLoads, ProviderWrites, ProviderAssigns, ProviderVersion,
       ReaderReads, ProviderPublish, ProviderCrash DEF Provider!Next
<1> QED
  BY <1>1, <1>2

(* No reader of a provider gets less than was published when it began, and  *)
(* what the provider takes for its contents is what it serves, and between  *)
(* updates what a restart begins with; for any updaters, readers, contents  *)
(* and crashes.                                                             *)
THEOREM ProvidersAreSound == StoreSpec => []ProviderIsSound
<1>1. StoreInit => (subject = "provider" => ProviderInv)
  BY ProviderInit DEF StoreInit
<1>2. (subject = "provider" => ProviderInv) /\ [StoreNext]_allVars
        => (subject = "provider" => ProviderInv)'
  BY ProviderStep
<1>3. (subject = "provider" => ProviderInv) => ProviderIsSound
  <2> SUFFICES ASSUME ProviderInv PROVE Provider!ProviderIsSound
    BY DEF ProviderIsSound
  <2>1. proxies > 0 => loads # <<>>
    BY DEF ProviderInv, LoadInv
  <2> QED
    BY <2>1 DEF ProviderInv, ProviderType, LoadInv, FileInv, ReaderInv, Torn,
                Provider!ProviderIsSound, Provider!NothingOutdated, Provider!HashIsServed,
                Provider!Free, Provider!Nothing
<1> QED
  BY <1>1, <1>2, <1>3, PTL DEF StoreSpec

------------------------------------------------------------------------------
(* ---- MainScreen. --------------------------------------------------------*)
(* What a queue will leave of the kind K: the last member of K in s, or d if*)
(* there is none.                                                           *)
NoneOf(s, K) == \A i \in 1 .. Len(s) : s[i] \notin K
LastOf(s, K, x) == \E i \in 1 .. Len(s) : s[i] = x /\ \A j \in i + 1 .. Len(s) : s[j] \notin K
Ends(s, K, d, x) == (NoneOf(s, K) /\ d = x) \/ LastOf(s, K, x)
In(s, x) == \E i \in 1 .. Len(s) : s[i] = x

Processes == {"STARTED", "STOPPED"}
Regs == {"register", "unregister"}
Tasks == Processes \cup Regs \cup {"changed", "reloaded"}
Asks == Regs \cup {"general", "profile"}
EventPosts == {"event"} \X Processes
ProfilePosts == {"profile"} \X (Profiles \cup {0})
ModePosts == {"mode"} \X (Profiles \cup {0})
Posts == EventPosts \cup ProfilePosts \cup ModePosts
Said(b) == IF b THEN "STARTED" ELSE "STOPPED"
Reg(b) == IF b THEN "register" ELSE "unregister"

(* x is in the line, and the screen will be registered when it is its turn. *)
Will(s, b, x) ==
    \E i \in 1 .. Len(s) :
        /\ s[i] = x
        /\ \/ b /\ \A m \in 1 .. i - 1 : s[m] # "unregister"
           \/ \E k \in 1 .. i - 1 : s[k] = "register" /\ \A m \in k + 1 .. i - 1 : s[m] # "unregister"

ScreenType ==
    /\ alive \in BOOLEAN /\ mode \in Profiles \cup {0} /\ chosen \in Profiles
    /\ tasks \in Seq(Tasks) /\ registered \in BOOLEAN /\ currentProcessEvent \in Processes
    /\ submitted \in Nat /\ loading \in Profiles \cup {0, -1}
    /\ visible \in BOOLEAN /\ requests \in Seq(Asks) /\ posts \in Seq(Posts)
    /\ shown \in [event : Processes, profile : Profiles \cup {0}, mode : Profiles \cup {0}]
    /\ lastEvent \in Processes \cup {"null"}

(* The tasks end with what the child does, and with them and the requests   *)
(* the screen is registered if it is visible.                               *)
EventInv == Ends(tasks, Processes, currentProcessEvent, Said(alive))
RegInv ==
    \/ NoneOf(requests, Regs) /\ Ends(tasks, Regs, Reg(registered), Reg(visible))
    \/ LastOf(requests, Regs, Reg(visible))

(* A screen that registers asks after that.                                 *)
Asked(s) ==
    \A i \in 1 .. Len(s) : s[i] = "register" =>
        \A x \in {"general", "profile"} : \E j \in i + 1 .. Len(s) : s[j] = x
AskInv == Asked(requests)

ToldInv ==
    /\ registered => Ends(posts, EventPosts, <<"event", lastEvent>>,
                          <<"event", currentProcessEvent>>)
    /\ lastEvent # "null" => shown.event = lastEvent

ProfileInv ==
    visible =>
        \/ Ends(posts, ProfilePosts, <<"profile", shown.profile>>, <<"profile", chosen>>)
        \/ In(requests, "profile")
        \/ Will(tasks, registered, "changed")

(* A reload is due that has not begun.                                      *)
Due == In(tasks, "STARTED") \/ In(tasks, "changed") \/ submitted > 0
ReloadInv == alive => Due \/ loading = chosen \/ (loading \in {0, -1} /\ mode = chosen)
ModeInv ==
    visible /\ alive =>
        \/ Ends(posts, ModePosts, <<"mode", shown.mode>>, <<"mode", mode>>)
        \/ In(requests, "general")
        \/ Due \/ loading # 0
        \/ Will(tasks, registered, "reloaded")

ScreenInv == /\ ScreenType /\ EventInv /\ RegInv /\ AskInv /\ ToldInv /\ ProfileInv
             /\ ReloadInv /\ ModeInv

(* What a queue ends with, and has, once something is put at its end or its *)
(* head is taken.                                                           *)
LEMMA Put ==
    ASSUME NEW S, NEW s \in Seq(S), NEW e \in S
    PROVE  /\ Append(s, e) \in Seq(S) /\ Len(Append(s, e)) = Len(s) + 1 /\ Len(s) \in Nat
           /\ \A i \in 1 .. Len(s) : Append(s, e)[i] = s[i]
           /\ Append(s, e)[Len(s) + 1] = e
BY AppendProperties, LenProperties

LEMMA Taken ==
    ASSUME NEW S, NEW s \in Seq(S), s # <<>>
    PROVE  /\ Tail(s) \in Seq(S) /\ Len(Tail(s)) = Len(s) - 1 /\ Len(s) \in Nat \ {0}
           /\ Head(s) = s[1] /\ Head(s) \in S
           /\ \A i \in 1 .. Len(s) - 1 : Tail(s)[i] = s[i + 1]
BY HeadTailProperties, LenProperties, EmptySeq

LEMMA EndsPut ==
    ASSUME NEW S, NEW s \in Seq(S), NEW e \in S, NEW K, NEW d, NEW x
    PROVE  /\ e \in K => LastOf(Append(s, e), K, e)
           /\ e \notin K /\ LastOf(s, K, x) => LastOf(Append(s, e), K, x)
           /\ e \notin K /\ NoneOf(s, K) => NoneOf(Append(s, e), K)
           /\ e \notin K /\ Ends(s, K, d, x) => Ends(Append(s, e), K, d, x)
<1> DEFINE t == Append(s, e)
<1>1. /\ Len(t) = Len(s) + 1 /\ Len(s) \in Nat
      /\ \A i \in 1 .. Len(s) : t[i] = s[i]
      /\ t[Len(s) + 1] = e
  BY Put
<1> HIDE DEF t
<1>2. e \in K => LastOf(t, K, e)
  BY <1>1 DEF LastOf
<1>3. ASSUME e \notin K, LastOf(s, K, x) PROVE LastOf(t, K, x)
  <2>1. PICK i \in 1 .. Len(s) : s[i] = x /\ \A j \in i + 1 .. Len(s) : s[j] \notin K
    BY <1>3 DEF LastOf
  <2>2. i \in 1 .. Len(t) /\ t[i] = x
    BY <1>1, <2>1
  <2>3. ASSUME NEW j \in i + 1 .. Len(t) PROVE t[j] \notin K
    <3>1. CASE j = Len(s) + 1
      BY <1>1, <1>3, <3>1
    <3>2. CASE j # Len(s) + 1
      <4>1. j \in i + 1 .. Len(s) /\ j \in 1 .. Len(s)
        BY <1>1, <2>1, <3>2
      <4> QED
        BY <1>1, <2>1, <4>1
    <3> QED
      BY <3>1, <3>2
  <2> QED
    BY <2>2, <2>3 DEF LastOf
<1>4. ASSUME e \notin K, NoneOf(s, K) PROVE NoneOf(t, K)
  <2> SUFFICES ASSUME NEW i \in 1 .. Len(t) PROVE t[i] \notin K
    BY DEF NoneOf
  <2>1. i = Len(s) + 1 \/ i \in 1 .. Len(s)
    BY <1>1
  <2> QED
    BY <1>1, <1>4, <2>1 DEF NoneOf
<1> QED
  BY <1>2, <1>3, <1>4 DEF Ends, t

LEMMA EndsTaken ==
    ASSUME NEW S, NEW s \in Seq(S), s # <<>>, NEW K, NEW d, NEW x
    PROVE  /\ NoneOf(s, K) => NoneOf(Tail(s), K) /\ Head(s) \notin K
           /\ LastOf(s, K, x) => LastOf(Tail(s), K, x) \/ (NoneOf(Tail(s), K) /\ Head(s) = x)
           /\ Head(s) \in K /\ Ends(s, K, d, x) => Ends(Tail(s), K, Head(s), x)
           /\ Head(s) \notin K /\ x \in K /\ LastOf(s, K, x) => LastOf(Tail(s), K, x)
           /\ Head(s) \notin K /\ x \in K /\ Ends(s, K, d, x) => Ends(Tail(s), K, d, x)
<1> DEFINE t == Tail(s)
<1>1. /\ Len(t) = Len(s) - 1 /\ Len(s) \in Nat \ {0} /\ Head(s) = s[1]
      /\ \A i \in 1 .. Len(s) - 1 : t[i] = s[i + 1]
  BY Taken
<1> HIDE DEF t
<1>2. NoneOf(s, K) => NoneOf(t, K) /\ Head(s) \notin K
  <2> SUFFICES ASSUME NoneOf(s, K) PROVE NoneOf(t, K) /\ Head(s) \notin K
    OBVIOUS
  <2>1. 1 \in 1 .. Len(s) /\ \A i \in 1 .. Len(t) : i + 1 \in 1 .. Len(s) /\ i \in 1 .. Len(s) - 1
    BY <1>1
  <2> QED
    BY <1>1, <2>1 DEF NoneOf
<1>3. ASSUME LastOf(s, K, x) PROVE LastOf(t, K, x) \/ (NoneOf(t, K) /\ Head(s) = x)
  <2>1. PICK i \in 1 .. Len(s) : s[i] = x /\ \A j \in i + 1 .. Len(s) : s[j] \notin K
    BY <1>3 DEF LastOf
  <2>2. CASE i = 1
    <3>1. \A j \in 1 .. Len(t) : t[j] = s[j + 1] /\ j + 1 \in i + 1 .. Len(s)
      BY <1>1, <2>2
    <3> QED
      BY <1>1, <2>1, <2>2, <3>1 DEF NoneOf
  <2>3. CASE i # 1
    <3>1. i - 1 \in 1 .. Len(t) /\ t[i - 1] = x
      <4>1. i - 1 \in 1 .. Len(s) - 1 /\ (i - 1) + 1 = i
        BY <1>1, <2>3
      <4>2. t[i - 1] = s[(i - 1) + 1]
        BY <1>1, <4>1
      <4> QED
        BY <1>1, <2>1, <4>1, <4>2
    <3>2. \A j \in (i - 1) + 1 .. Len(t) : t[j] = s[j + 1] /\ j + 1 \in i + 1 .. Len(s)
      BY <1>1, <2>3
    <3> QED
      BY <2>1, <3>1, <3>2 DEF LastOf
  <2> QED
    BY <2>2, <2>3
<1> QED
  BY <1>2, <1>3 DEF Ends, t

LEMMA InPut ==
    ASSUME NEW S, NEW s \in Seq(S), NEW e \in S, NEW x
    PROVE  In(Append(s, e), e) /\ (In(s, x) => In(Append(s, e), x))
<1>1. /\ Len(Append(s, e)) = Len(s) + 1 /\ Len(s) \in Nat
      /\ \A i \in 1 .. Len(s) : Append(s, e)[i] = s[i]
      /\ Append(s, e)[Len(s) + 1] = e
  BY Put
<1>2. Len(s) + 1 \in 1 .. Len(Append(s, e)) /\ \A i \in 1 .. Len(s) : i \in 1 .. Len(Append(s, e))
  BY <1>1
<1> QED
  BY <1>1, <1>2, Zenon DEF In

LEMMA InTaken ==
    ASSUME NEW S, NEW s \in Seq(S), s # <<>>, NEW x, In(s, x)
    PROVE  Head(s) = x \/ In(Tail(s), x)
<1>1. /\ Len(Tail(s)) = Len(s) - 1 /\ Len(s) \in Nat \ {0} /\ Head(s) = s[1]
      /\ \A i \in 1 .. Len(s) - 1 : Tail(s)[i] = s[i + 1]
  BY Taken
<1>2. PICK i \in 1 .. Len(s) : s[i] = x
  BY DEF In
<1>3. CASE i = 1
  BY <1>1, <1>2, <1>3
<1>4. CASE i # 1
  <2>1. i - 1 \in 1 .. Len(s) - 1 /\ (i - 1) + 1 = i
    BY <1>1, <1>4
  <2>2. Tail(s)[i - 1] = x
    BY <1>1, <1>2, <2>1
  <2> QED
    BY <1>1, <2>1, <2>2 DEF In
<1> QED
  BY <1>3, <1>4

LEMMA WillPut ==
    ASSUME NEW S, NEW s \in Seq(S), NEW e \in S, NEW b \in BOOLEAN, NEW x
    PROVE  /\ Will(s, b, x) => Will(Append(s, e), b, x)
           /\ Ends(s, Regs, Reg(b), "register") => Will(Append(s, e), b, e)
<1> DEFINE t == Append(s, e)
<1>1. /\ Len(t) = Len(s) + 1 /\ Len(s) \in Nat
      /\ \A i \in 1 .. Len(s) : t[i] = s[i]
      /\ t[Len(s) + 1] = e
  BY Put
<1> HIDE DEF t
<1>2. ASSUME Will(s, b, x) PROVE Will(t, b, x)
  <2>1. PICK i \in 1 .. Len(s) :
          /\ s[i] = x
          /\ \/ b /\ \A m \in 1 .. i - 1 : s[m] # "unregister"
             \/ \E k \in 1 .. i - 1 : s[k] = "register" /\ \A m \in k + 1 .. i - 1 : s[m] # "unregister"
    BY <1>2 DEF Will
  <2>2. i \in 1 .. Len(t) /\ \A m \in 1 .. i : m \in 1 .. Len(s) /\ t[m] = s[m]
    BY <1>1
  <2>3. t[i] = x /\ \A m \in 1 .. i - 1 : t[m] = s[m]
    BY <2>1, <2>2
  <2>4. CASE b /\ \A m \in 1 .. i - 1 : s[m] # "unregister"
    BY <2>2, <2>3, <2>4 DEF Will
  <2>5. CASE \E k \in 1 .. i - 1 : s[k] = "register" /\ \A m \in k + 1 .. i - 1 : s[m] # "unregister"
    <3>1. PICK k \in 1 .. i - 1 : s[k] = "register" /\ \A m \in k + 1 .. i - 1 : s[m] # "unregister"
      BY <2>5
    <3>2. \A m \in k + 1 .. i - 1 : m \in 1 .. i - 1
      BY <3>1
    <3>3. t[k] = "register" /\ \A m \in k + 1 .. i - 1 : t[m] # "unregister"
      BY <2>3, <3>1, <3>2
    <3> QED
      BY <2>2, <2>3, <3>3 DEF Will
  <2> QED
    BY <2>1, <2>4, <2>5
<1>3. ASSUME Ends(s, Regs, Reg(b), "register") PROVE Will(t, b, e)
  <2> DEFINE n == Len(s) + 1
  <2>1. n \in 1 .. Len(t) /\ t[n] = e /\ \A m \in 1 .. n - 1 : m \in 1 .. Len(s) /\ t[m] = s[m]
    BY <1>1
  <2>2. CASE NoneOf(s, Regs) /\ Reg(b) = "register"
    <3>1. b /\ \A m \in 1 .. n - 1 : t[m] # "unregister"
      BY <2>1, <2>2 DEF NoneOf, Regs, Reg
    <3> QED
      BY <2>1, <3>1 DEF Will
  <2>3. CASE LastOf(s, Regs, "register")
    <3>1. PICK k \in 1 .. Len(s) : s[k] = "register" /\ \A j \in k + 1 .. Len(s) : s[j] \notin Regs
      BY <2>3 DEF LastOf
    <3>2. k \in 1 .. n - 1 /\ t[k] = "register"
      BY <1>1, <3>1
    <3>3. \A m \in k + 1 .. n - 1 : m \in k + 1 .. Len(s) /\ t[m] = s[m]
      BY <1>1, <3>1
    <3>4. \A m \in k + 1 .. n - 1 : t[m] # "unregister"
      BY <3>1, <3>3 DEF Regs
    <3> QED
      BY <2>1, <3>2, <3>4 DEF Will
  <2> QED
    BY <1>3, <2>2, <2>3 DEF Ends
<1> QED
  BY <1>2, <1>3 DEF t

LEMMA WillTaken ==
    ASSUME NEW S, NEW s \in Seq(S), s # <<>>, NEW b \in BOOLEAN, NEW c \in BOOLEAN, NEW x,
           Will(s, b, x),
           c = IF Head(s) \in Regs THEN Head(s) = "register" ELSE b
    PROVE  (Head(s) = x /\ b) \/ Will(Tail(s), c, x)
<1> DEFINE t == Tail(s)
<1>1. /\ Len(t) = Len(s) - 1 /\ Len(s) \in Nat \ {0} /\ Head(s) = s[1]
      /\ \A i \in 1 .. Len(s) - 1 : t[i] = s[i + 1]
  BY Taken
<1> HIDE DEF t
<1>2. PICK i \in 1 .. Len(s) :
        /\ s[i] = x
        /\ \/ b /\ \A m \in 1 .. i - 1 : s[m] # "unregister"
           \/ \E k \in 1 .. i - 1 : s[k] = "register" /\ \A m \in k + 1 .. i - 1 : s[m] # "unregister"
  BY DEF Will
<1>3. CASE i = 1
  <2>1. ~ \E k \in 1 .. i - 1 : TRUE
    BY <1>3
  <2> QED
    BY <1>1, <1>2, <1>3, <2>1
<1>4. CASE i # 1
  <2>1. i - 1 \in 1 .. Len(t) /\ t[i - 1] = x
    <3>1. i - 1 \in 1 .. Len(s) - 1 /\ (i - 1) + 1 = i
      BY <1>1, <1>4
    <3> QED
      BY <1>1, <1>2, <3>1
  <2>2. \A m \in 1 .. (i - 1) - 1 : t[m] = s[m + 1] /\ m + 1 \in 1 .. i - 1
    BY <1>1
  <2>3. CASE b /\ \A m \in 1 .. i - 1 : s[m] # "unregister"
    <3>1. Head(s) # "unregister"
      <4>1. 1 \in 1 .. i - 1
        BY <1>4
      <4> QED
        BY <1>1, <2>3, <4>1
    <3>2. c
      BY <2>3, <3>1 DEF Regs
    <3>3. \A m \in 1 .. (i - 1) - 1 : t[m] # "unregister"
      BY <2>2, <2>3
    <3> QED
      BY <2>1, <3>2, <3>3 DEF Will, t
  <2>4. CASE \E k \in 1 .. i - 1 : s[k] = "register" /\ \A m \in k + 1 .. i - 1 : s[m] # "unregister"
    <3>1. PICK k \in 1 .. i - 1 : s[k] = "register" /\ \A m \in k + 1 .. i - 1 : s[m] # "unregister"
      BY <2>4
    <3>2. CASE k = 1
      <4>1. c
        BY <1>1, <3>1, <3>2 DEF Regs
      <4>2. \A m \in 1 .. (i - 1) - 1 : m + 1 \in k + 1 .. i - 1
        BY <3>2
      <4>3. \A m \in 1 .. (i - 1) - 1 : t[m] # "unregister"
        BY <2>2, <3>1, <4>2
      <4> QED
        BY <2>1, <4>1, <4>3 DEF Will, t
    <3>3. CASE k # 1
      <4>1. k - 1 \in 1 .. (i - 1) - 1 /\ (k - 1) + 1 = k
        BY <3>1, <3>3
      <4>2. t[k - 1] = "register"
        BY <2>2, <3>1, <4>1
      <4>3. \A m \in (k - 1) + 1 .. (i - 1) - 1 : m \in 1 .. (i - 1) - 1 /\ m + 1 \in k + 1 .. i - 1
        BY <3>1, <3>3
      <4>4. \A m \in (k - 1) + 1 .. (i - 1) - 1 : t[m] # "unregister"
        BY <2>2, <3>1, <4>3
      <4> QED
        BY <2>1, <4>1, <4>2, <4>4 DEF Will, t
    <3> QED
      BY <3>2, <3>3
  <2> QED
    BY <1>2, <2>3, <2>4
<1> QED
  BY <1>3, <1>4

LEMMA AskedPut ==
    ASSUME NEW s \in Seq(Asks), NEW e \in Asks, e # "register", Asked(s)
    PROVE  Asked(Append(s, e))
<1> DEFINE t == Append(s, e)
<1>1. /\ Len(t) = Len(s) + 1 /\ Len(s) \in Nat
      /\ \A i \in 1 .. Len(s) : t[i] = s[i]
      /\ t[Len(s) + 1] = e
  BY Put
<1> HIDE DEF t
<1> SUFFICES ASSUME NEW i \in 1 .. Len(t), t[i] = "register", NEW x \in {"general", "profile"}
             PROVE  \E j \in i + 1 .. Len(t) : t[j] = x
  BY DEF Asked, t
<1>2. i \in 1 .. Len(s) /\ s[i] = "register"
  <2>1. i # Len(s) + 1
    BY <1>1
  <2> QED
    BY <1>1, <2>1
<1>3. PICK j \in i + 1 .. Len(s) : s[j] = x
  BY <1>2 DEF Asked
<1>4. j \in i + 1 .. Len(t) /\ j \in 1 .. Len(s)
  BY <1>1, <1>2, <1>3
<1> QED
  BY <1>1, <1>3, <1>4

LEMMA AskedTaken ==
    ASSUME NEW s \in Seq(Asks), s # <<>>, Asked(s)
    PROVE  /\ Asked(Tail(s))
           /\ Head(s) = "register" => In(Tail(s), "general") /\ In(Tail(s), "profile")
<1> DEFINE t == Tail(s)
<1>1. /\ Len(t) = Len(s) - 1 /\ Len(s) \in Nat \ {0} /\ Head(s) = s[1]
      /\ \A i \in 1 .. Len(s) - 1 : t[i] = s[i + 1]
  BY Taken
<1> HIDE DEF t
<1>2. ASSUME NEW i \in 0 .. Len(t), s[i + 1] = "register", NEW x \in {"general", "profile"}
      PROVE  \E j \in i + 1 .. Len(t) : t[j] = x
  <2>1. i + 1 \in 1 .. Len(s)
    BY <1>1
  <2>2. PICK j \in (i + 1) + 1 .. Len(s) : s[j] = x
    BY <1>2, <2>1 DEF Asked
  <2>3. j - 1 \in i + 1 .. Len(t) /\ j - 1 \in 1 .. Len(s) - 1 /\ (j - 1) + 1 = j
    BY <1>1, <2>2
  <2>4. t[j - 1] = x
    BY <1>1, <2>2, <2>3
  <2> QED
    BY <2>3, <2>4
<1>3. Asked(t)
  <2> SUFFICES ASSUME NEW i \in 1 .. Len(t), t[i] = "register", NEW x \in {"general", "profile"}
               PROVE  \E j \in i + 1 .. Len(t) : t[j] = x
    BY DEF Asked
  <2>1. i \in 0 .. Len(t) /\ i \in 1 .. Len(s) - 1
    BY <1>1
  <2> QED
    BY <1>1, <1>2, <2>1
<1>4. Head(s) = "register" => In(t, "general") /\ In(t, "profile")
  <2> SUFFICES ASSUME s[1] = "register" PROVE In(t, "general") /\ In(t, "profile")
    BY <1>1
  <2>1. 0 \in 0 .. Len(t) /\ s[0 + 1] = "register"
    BY <1>1
  <2>2. \A x \in {"general", "profile"} : \E j \in 0 + 1 .. Len(t) : t[j] = x
    BY <1>2, <2>1
  <2> QED
    BY <2>2 DEF In
<1> QED
  BY <1>3, <1>4 DEF t

LEMMA AskedWhole ==
    ASSUME NEW s \in Seq(Asks), Asked(s), In(s, "register")
    PROVE  In(s, "general") /\ In(s, "profile")
<1>1. PICK i \in 1 .. Len(s) : s[i] = "register"
  BY DEF In
<1>2. \A j \in i + 1 .. Len(s) : j \in 1 .. Len(s)
  BY LenProperties
<1> QED
  BY <1>1, <1>2 DEF In, Asked

(* What onStart requests.                                                   *)
LEMMA AskedAtStart ==
    ASSUME NEW s \in Seq(Asks), Asked(s)
    PROVE  LET t == s \o <<"register", "general", "profile">> IN
           /\ t \in Seq(Asks) /\ Asked(t) /\ LastOf(t, Regs, "register")
           /\ In(t, "general") /\ In(t, "profile")
<1> DEFINE e == <<"register", "general", "profile">>
           t == s \o e
<1>1. e \in Seq(Asks) /\ Len(e) = 3
  BY DEF Asks, Regs
<1>2. /\ t \in Seq(Asks) /\ Len(t) = Len(s) + 3 /\ Len(s) \in Nat
      /\ \A i \in 1 .. Len(s) : t[i] = s[i]
      /\ t[Len(s) + 1] = "register" /\ t[Len(s) + 2] = "general" /\ t[Len(s) + 3] = "profile"
  <2>1. t \in Seq(Asks) /\ Len(t) = Len(s) + Len(e)
        /\ \A i \in 1 .. Len(s) + Len(e) : t[i] = IF i <= Len(s) THEN s[i] ELSE e[i - Len(s)]
    BY <1>1, ConcatProperties
  <2>2. Len(s) \in Nat
    BY LenProperties
  <2>3. e[1] = "register" /\ e[2] = "general" /\ e[3] = "profile"
    OBVIOUS
  <2> HIDE DEF e, t
  <2>4. Len(t) = Len(s) + 3 /\ \A i \in 1 .. Len(s) : t[i] = s[i]
    BY <1>1, <2>1, <2>2
  <2>5. \A k \in {1, 2, 3} : t[Len(s) + k] = e[k]
    <3> SUFFICES ASSUME NEW k \in {1, 2, 3} PROVE t[Len(s) + k] = e[k]
      OBVIOUS
    <3>1. Len(s) + k \in 1 .. Len(s) + Len(e) /\ ~(Len(s) + k <= Len(s))
          /\ (Len(s) + k) - Len(s) = k
      BY <1>1, <2>2
    <3> QED
      BY <2>1, <3>1
  <2> QED
    BY <2>1, <2>2, <2>3, <2>4, <2>5
<1> HIDE DEF t, e
<1> DEFINE n == Len(s)
<1>3. LastOf(t, Regs, "register")
  <2>1. n + 1 \in 1 .. Len(t) /\ \A j \in (n + 1) + 1 .. Len(t) : j = n + 2 \/ j = n + 3
    BY <1>2
  <2> QED
    BY <1>2, <2>1 DEF LastOf, Regs
<1>4. In(t, "general") /\ In(t, "profile")
  <2>1. n + 2 \in 1 .. Len(t) /\ n + 3 \in 1 .. Len(t)
    BY <1>2
  <2> QED
    BY <1>2, <2>1 DEF In
<1>5. Asked(t)
  <2> SUFFICES ASSUME NEW i \in 1 .. Len(t), t[i] = "register", NEW x \in {"general", "profile"}
               PROVE  \E j \in i + 1 .. Len(t) : t[j] = x
    BY DEF Asked
  <2>1. i <= n + 1
    <3>1. i # n + 2 /\ i # n + 3
      BY <1>2
    <3> QED
      BY <1>2, <3>1
  <2>2. n + 2 \in i + 1 .. Len(t) /\ n + 3 \in i + 1 .. Len(t)
    BY <1>2, <2>1
  <2> QED
    BY <1>2, <2>2
<1> QED
  BY <1>2, <1>3, <1>4, <1>5 DEF t, e

(* The queues of the screen, from their ends.                               *)
LEMMA TaskPut ==
    ASSUME ScreenInv, NEW e \in Tasks, tasks' = Append(tasks, e)
    PROVE  /\ tasks' \in Seq(Tasks) /\ In(tasks', e)
           /\ \A x : In(tasks, x) => In(tasks', x)
           /\ \A x : Will(tasks, registered, x) => Will(tasks', registered, x)
           /\ Ends(tasks, Regs, Reg(registered), "register") => Will(tasks', registered, e)
           /\ e \notin Regs => \A x : Ends(tasks, Regs, Reg(registered), x)
                                        => Ends(tasks', Regs, Reg(registered), x)
           /\ e \in Regs => Ends(tasks', Regs, Reg(registered), e)
           /\ e \in Processes => Ends(tasks', Processes, currentProcessEvent, e)
           /\ e \notin Processes => \A x : Ends(tasks, Processes, currentProcessEvent, x)
                                        => Ends(tasks', Processes, currentProcessEvent, x)
<1>1. tasks \in Seq(Tasks) /\ registered \in BOOLEAN
  BY DEF ScreenInv, ScreenType
<1>2. tasks' \in Seq(Tasks)
  BY <1>1, Put
<1>3. In(tasks', e) /\ \A x : In(tasks, x) => In(tasks', x)
  BY <1>1, InPut, Zenon
<1>4. /\ \A x : Will(tasks, registered, x) => Will(tasks', registered, x)
      /\ Ends(tasks, Regs, Reg(registered), "register") => Will(tasks', registered, e)
  BY <1>1, WillPut, Zenon
<1>5. \A K, d, x : /\ e \in K => LastOf(tasks', K, e)
                   /\ e \notin K /\ Ends(tasks, K, d, x) => Ends(tasks', K, d, x)
  BY <1>1, EndsPut, Zenon
<1> QED
  BY <1>2, <1>3, <1>4, <1>5 DEF Ends

LEMMA TaskTaken ==
    ASSUME ScreenInv, tasks # <<>>, tasks' = Tail(tasks)
    PROVE  LET h == Head(tasks) IN
           /\ tasks' \in Seq(Tasks) /\ h \in Tasks
           /\ \A x : In(tasks, x) => h = x \/ In(tasks', x)
           /\ \A x : Will(tasks, registered, x) =>
                \/ h = x /\ registered
                \/ Will(tasks', IF h \in Regs THEN h = "register" ELSE registered, x)
           /\ h \in Regs => \A x : Ends(tasks, Regs, Reg(registered), x) => Ends(tasks', Regs, h, x)
           /\ h \notin Regs => \A x \in Regs : Ends(tasks, Regs, Reg(registered), x)
                                        => Ends(tasks', Regs, Reg(registered), x)
           /\ h \in Processes => \A x : Ends(tasks, Processes, currentProcessEvent, x)
                                        => Ends(tasks', Processes, h, x)
           /\ h \notin Processes => \A x \in Processes : Ends(tasks, Processes, currentProcessEvent, x)
                                        => Ends(tasks', Processes, currentProcessEvent, x)
<1> DEFINE h == Head(tasks)
<1>1. tasks \in Seq(Tasks) /\ registered \in BOOLEAN
  BY DEF ScreenInv, ScreenType
<1>2. tasks' \in Seq(Tasks) /\ h \in Tasks
  BY <1>1, Taken
<1>3. \A x : In(tasks, x) => h = x \/ In(tasks', x)
  BY <1>1, InTaken, Zenon
<1>4. ASSUME NEW x, Will(tasks, registered, x)
      PROVE  (h = x /\ registered) \/ Will(tasks', IF h \in Regs THEN h = "register" ELSE registered, x)
  <2> DEFINE c == IF h \in Regs THEN h = "register" ELSE registered
  <2>1. c \in BOOLEAN
    BY <1>1
  <2> QED
    BY <1>1, <1>4, <2>1, WillTaken
<1>5. \A K, d, x : /\ h \in K /\ Ends(tasks, K, d, x) => Ends(tasks', K, h, x)
                   /\ h \notin K /\ x \in K /\ Ends(tasks, K, d, x) => Ends(tasks', K, d, x)
  BY <1>1, EndsTaken, Zenon
<1> QED
  BY <1>2, <1>3, <1>4, <1>5

LEMMA RequestPut ==
    ASSUME ScreenInv, NEW e \in Asks, e # "register", requests' = Append(requests, e)
    PROVE  /\ requests' \in Seq(Asks) /\ In(requests', e) /\ AskInv'
           /\ \A x : In(requests, x) => In(requests', x)
           /\ e \notin Regs => /\ NoneOf(requests, Regs) => NoneOf(requests', Regs)
                               /\ \A x : LastOf(requests, Regs, x) => LastOf(requests', Regs, x)
           /\ e \in Regs => LastOf(requests', Regs, e)
<1>1. requests \in Seq(Asks) /\ Asked(requests)
  BY DEF ScreenInv, ScreenType, AskInv
<1>2. requests' \in Seq(Asks)
  BY <1>1, Put
<1>3. In(requests', e) /\ \A x : In(requests, x) => In(requests', x)
  BY <1>1, InPut, Zenon
<1>4. AskInv'
  BY <1>1, AskedPut DEF AskInv
<1>5. \A x : /\ e \in Regs => LastOf(requests', Regs, e)
             /\ e \notin Regs /\ LastOf(requests, Regs, x) => LastOf(requests', Regs, x)
             /\ e \notin Regs /\ NoneOf(requests, Regs) => NoneOf(requests', Regs)
  BY <1>1, EndsPut, Zenon
<1> QED
  BY <1>2, <1>3, <1>4, <1>5

LEMMA PostPut ==
    ASSUME ScreenInv, NEW e \in Posts, posts' = Append(posts, e)
    PROVE  /\ posts' \in Seq(Posts)
           /\ \A K, d, x : /\ e \in K => Ends(posts', K, d, e)
                           /\ e \notin K /\ Ends(posts, K, d, x) => Ends(posts', K, d, x)
<1>1. posts \in Seq(Posts)
  BY DEF ScreenInv, ScreenType
<1>2. posts' \in Seq(Posts)
  BY <1>1, Put
<1>3. \A K, d, x : /\ e \in K => LastOf(posts', K, e)
                   /\ e \notin K /\ Ends(posts, K, d, x) => Ends(posts', K, d, x)
  BY <1>1, EndsPut, Zenon
<1> QED
  BY <1>2, <1>3 DEF Ends

(* A visible screen will hear of what comes last, or asks for it later.     *)
LEMMA Listens ==
    ASSUME ScreenInv, visible
    PROVE  \/ In(requests, "general") /\ In(requests, "profile")
           \/ Ends(tasks, Regs, Reg(registered), "register")
<1>1. LastOf(requests, Regs, "register") => In(requests, "register")
  BY DEF LastOf, In
<1> QED
  BY <1>1, AskedWhole DEF ScreenInv, ScreenType, RegInv, Reg, AskInv

(* ---- The child, the profile and the reloads: all end in a task. ---------*)
LEMMA TaskPutKeeps ==
    ASSUME ScreenInv, NEW e \in Tasks \ Regs, tasks' = Append(tasks, e),
           UNCHANGED <<registered, currentProcessEvent, visible, requests, posts, shown, lastEvent>>
    PROVE  RegInv' /\ AskInv' /\ ToldInv'
<1>1. \A x : Ends(tasks, Regs, Reg(registered), x) => Ends(tasks', Regs, Reg(registered), x)
  BY TaskPut
<1>2. RegInv'
  BY <1>1 DEF ScreenInv, RegInv
<1> QED
  BY <1>2 DEF ScreenInv, AskInv, ToldInv

LEMMA ChildStep ==
    ASSUME ScreenInv, Screen!Starts \/ Screen!Dies
    PROVE  ScreenInv'
<1>1. /\ UNCHANGED <<chosen, registered, currentProcessEvent, submitted, loading,
                     visible, requests, posts, shown, lastEvent>>
      /\ \/ alive' = TRUE /\ mode' = 0 /\ tasks' = Append(tasks, "STARTED")
         \/ alive' = FALSE /\ mode' = mode /\ tasks' = Append(tasks, "STOPPED")
  BY DEF Screen!Starts, Screen!Dies, Screen!loadVars, Screen!screenVars
<1> DEFINE e == Said(alive')
<1>2. e \in Tasks \ Regs /\ e \in Processes /\ tasks' = Append(tasks, e)
  BY <1>1 DEF Said, Tasks, Regs, Processes
<1>3. /\ tasks' \in Seq(Tasks) /\ In(tasks', e)
      /\ \A x : Will(tasks, registered, x) => Will(tasks', registered, x)
      /\ Ends(tasks', Processes, currentProcessEvent, e)
  BY <1>2, TaskPut
<1>4. RegInv' /\ AskInv' /\ ToldInv'
  BY <1>1, <1>2, TaskPutKeeps
<1>5. ScreenType'
  BY <1>1, <1>3 DEF ScreenInv, ScreenType
<1>6. EventInv'
  BY <1>1, <1>3 DEF EventInv
<1>7. ProfileInv'
  BY <1>1, <1>3 DEF ScreenInv, ProfileInv
<1>8. alive' => Due'
  BY <1>1, <1>3 DEF Due, Said
<1>9. ReloadInv' /\ ModeInv'
  BY <1>8 DEF ReloadInv, ModeInv
<1> QED
  BY <1>4, <1>5, <1>6, <1>7, <1>9 DEF ScreenInv

LEMMA ChooseStep ==
    ASSUME ScreenInv, NEW p \in Profiles, Screen!SetActiveProfile(p)
    PROVE  ScreenInv'
<1>1. /\ UNCHANGED <<alive, mode, registered, currentProcessEvent, submitted, loading,
                     visible, requests, posts, shown, lastEvent>>
      /\ chosen' = p /\ tasks' = Append(tasks, "changed")
  BY DEF Screen!SetActiveProfile, Screen!loadVars, Screen!screenVars
<1>2. "changed" \in Tasks \ Regs /\ "changed" \notin Processes
  BY DEF Tasks, Regs, Processes
<1>3. /\ tasks' \in Seq(Tasks) /\ In(tasks', "changed")
      /\ Ends(tasks, Regs, Reg(registered), "register") => Will(tasks', registered, "changed")
      /\ \A x : Ends(tasks, Processes, currentProcessEvent, x)
                  => Ends(tasks', Processes, currentProcessEvent, x)
  BY <1>1, <1>2, TaskPut
<1>4. RegInv' /\ AskInv' /\ ToldInv'
  BY <1>1, <1>2, TaskPutKeeps
<1>5. ScreenType'
  BY <1>1, <1>3 DEF ScreenInv, ScreenType
<1>6. EventInv'
  BY <1>1, <1>3 DEF ScreenInv, EventInv
<1>7. ProfileInv'
  BY <1>1, <1>3, Listens DEF ProfileInv
<1>8. Due'
  BY <1>3 DEF Due
<1>9. ReloadInv' /\ ModeInv'
  BY <1>8 DEF ReloadInv, ModeInv
<1> QED
  BY <1>4, <1>5, <1>6, <1>7, <1>9 DEF ScreenInv

LEMMA ReloadStep ==
    ASSUME ScreenInv, Screen!ReloadProfile
    PROVE  ScreenInv'
<1>1. /\ UNCHANGED <<alive, mode, chosen, tasks, registered, currentProcessEvent,
                     visible, requests, posts, shown, lastEvent>>
      /\ submitted > 0 /\ submitted' = submitted - 1
      /\ loading = 0 /\ loading' = IF alive THEN chosen ELSE 0
  BY DEF Screen!ReloadProfile, Screen!childVars, Screen!serviceVars, Screen!screenVars, Screen!Idle
<1>2. ScreenType'
  <2>1. submitted' \in Nat
    BY <1>1 DEF ScreenInv, ScreenType
  <2> QED
    BY <1>1, <2>1 DEF ScreenInv, ScreenType
<1>3. EventInv' /\ RegInv' /\ AskInv' /\ ToldInv' /\ ProfileInv'
  BY <1>1 DEF ScreenInv, EventInv, RegInv, AskInv, ToldInv, ProfileInv
<1>4. chosen # 0
  BY ProfilesAssumption DEF ScreenInv, ScreenType
<1>5. ReloadInv' /\ ModeInv'
  BY <1>1, <1>4 DEF ReloadInv, ModeInv
<1> QED
  BY <1>2, <1>3, <1>5 DEF ScreenInv

LEMMA ScreenLoads ==
    ASSUME ScreenInv, Screen!LoadProfile
    PROVE  ScreenInv'
<1>1. /\ UNCHANGED <<chosen, registered, currentProcessEvent, submitted,
                     visible, requests, posts, shown, lastEvent>>
      /\ loading \in Profiles
  BY DEF Screen!LoadProfile, Screen!screenVars
<1>2. -1 # 0 /\ -1 \notin Profiles /\ 0 \notin Profiles
  BY ProfilesAssumption
<1>3. CASE alive /\ mode' = loading /\ loading' = -1 /\ UNCHANGED <<alive, tasks>>
  <2>1. ScreenType'
    BY <1>1, <1>3 DEF ScreenInv, ScreenType
  <2>2. EventInv' /\ RegInv' /\ AskInv' /\ ToldInv' /\ ProfileInv'
    BY <1>1, <1>3 DEF ScreenInv, EventInv, RegInv, AskInv, ToldInv, ProfileInv
  <2>3. Due' <=> Due
    BY <1>1, <1>3 DEF Due
  <2>4. ReloadInv'
    BY <1>1, <1>2, <1>3, <2>3 DEF ScreenInv, ReloadInv
  <2>5. ModeInv'
    BY <1>2, <1>3 DEF ModeInv
  <2> QED
    BY <2>1, <2>2, <2>4, <2>5 DEF ScreenInv
<1>4. CASE loading' = 0 /\ alive' = FALSE /\ UNCHANGED mode /\ ~alive /\ UNCHANGED tasks
  <2>1. ScreenType'
    BY <1>1, <1>4 DEF ScreenInv, ScreenType
  <2>2. EventInv' /\ RegInv' /\ AskInv' /\ ToldInv' /\ ProfileInv'
    BY <1>1, <1>4 DEF ScreenInv, EventInv, Said, RegInv, AskInv, ToldInv, ProfileInv
  <2>3. ReloadInv' /\ ModeInv'
    BY <1>4 DEF ReloadInv, ModeInv
  <2> QED
    BY <2>1, <2>2, <2>3 DEF ScreenInv
<1>5. CASE loading' = 0 /\ alive' = FALSE /\ UNCHANGED mode /\ tasks' = Append(tasks, "STOPPED")
  <2>1. "STOPPED" \in Tasks \ Regs /\ "STOPPED" \in Processes /\ Said(alive') = "STOPPED"
    BY <1>5 DEF Tasks, Regs, Processes, Said
  <2>2. /\ tasks' \in Seq(Tasks)
        /\ \A x : Will(tasks, registered, x) => Will(tasks', registered, x)
        /\ Ends(tasks', Processes, currentProcessEvent, "STOPPED")
    BY <1>5, <2>1, TaskPut
  <2>3. RegInv' /\ AskInv' /\ ToldInv'
    BY <1>1, <1>5, <2>1, TaskPutKeeps
  <2>4. ScreenType'
    BY <1>1, <1>5, <2>2 DEF ScreenInv, ScreenType
  <2>5. EventInv' /\ ProfileInv'
    BY <1>1, <2>1, <2>2 DEF ScreenInv, EventInv, ProfileInv
  <2>6. ReloadInv' /\ ModeInv'
    BY <1>5 DEF ReloadInv, ModeInv
  <2> QED
    BY <2>3, <2>4, <2>5, <2>6 DEF ScreenInv
<1> QED
  BY <1>3, <1>4, <1>5 DEF Screen!LoadProfile, Screen!Announce, Screen!Idle

LEMMA AnnounceStep ==
    ASSUME ScreenInv, Screen!PerformProfileReloadEvent
    PROVE  ScreenInv'
<1>1. /\ UNCHANGED <<alive, mode, chosen, registered, currentProcessEvent, submitted,
                     visible, requests, posts, shown, lastEvent>>
      /\ loading = -1 /\ loading' = 0 /\ tasks' = Append(tasks, "reloaded")
  BY DEF Screen!PerformProfileReloadEvent, Screen!childVars, Screen!screenVars,
         Screen!Announce, Screen!Idle
<1>2. "reloaded" \in Tasks \ Regs /\ "reloaded" \notin Processes
  BY DEF Tasks, Regs, Processes
<1>3. /\ tasks' \in Seq(Tasks)
      /\ \A x : In(tasks, x) => In(tasks', x)
      /\ \A x : Will(tasks, registered, x) => Will(tasks', registered, x)
      /\ Ends(tasks, Regs, Reg(registered), "register") => Will(tasks', registered, "reloaded")
      /\ \A x : Ends(tasks, Processes, currentProcessEvent, x)
                  => Ends(tasks', Processes, currentProcessEvent, x)
  BY <1>1, <1>2, TaskPut
<1>4. RegInv' /\ AskInv' /\ ToldInv'
  BY <1>1, <1>2, TaskPutKeeps
<1>5. ScreenType'
  BY <1>1, <1>3 DEF ScreenInv, ScreenType
<1>6. EventInv' /\ ProfileInv'
  BY <1>1, <1>3 DEF ScreenInv, EventInv, ProfileInv
<1>7. ReloadInv'
  <2>1. loading # chosen
    BY <1>1, ProfilesAssumption DEF ScreenInv, ScreenType
  <2> QED
    BY <1>1, <1>3, <2>1 DEF ScreenInv, ReloadInv, Due
<1>8. ModeInv'
  BY <1>1, <1>3, Listens DEF ModeInv
<1> QED
  BY <1>4, <1>5, <1>6, <1>7, <1>8 DEF ScreenInv

(* ---- The event service. -------------------------------------------------*)
LEMMA PerformStep ==
    ASSUME ScreenInv, Screen!PerformEvent
    PROVE  ScreenInv'
<1> DEFINE h == Head(tasks)
<1>1. /\ UNCHANGED <<alive, mode, chosen, registered, loading, visible, shown, lastEvent>>
      /\ tasks # <<>> /\ tasks' = Tail(tasks) /\ h \in Processes \cup {"changed", "reloaded"}
      /\ currentProcessEvent' = IF h \in Processes THEN h ELSE currentProcessEvent
      /\ submitted' = IF h \in {"STARTED", "changed"} THEN submitted + 1 ELSE submitted
      /\ registered /\ h \in Processes =>
           posts' = Append(posts, <<"event", h>>) /\ UNCHANGED requests
      /\ registered /\ h = "changed" => requests' = Append(requests, "profile") /\ UNCHANGED posts
      /\ registered /\ h = "reloaded" => requests' = Append(requests, "general") /\ UNCHANGED posts
      /\ ~registered => UNCHANGED <<posts, requests>>
  BY DEF Screen!PerformEvent, Screen!Heard, Screen!Events, Screen!childVars, Processes
<1>2. h \notin Regs /\ "changed" \notin Processes /\ "reloaded" \notin Processes
      /\ "STARTED" \in Processes /\ "changed" # "reloaded"
  BY <1>1 DEF Processes, Regs
<1>3. /\ tasks' \in Seq(Tasks) /\ h \in Tasks
      /\ \A x : In(tasks, x) => h = x \/ In(tasks', x)
      /\ \A x : Will(tasks, registered, x) => (h = x /\ registered) \/ Will(tasks', registered, x)
      /\ \A x \in Regs : Ends(tasks, Regs, Reg(registered), x) => Ends(tasks', Regs, Reg(registered), x)
      /\ h \in Processes => \A x : Ends(tasks, Processes, currentProcessEvent, x)
                                     => Ends(tasks', Processes, h, x)
      /\ h \notin Processes => \A x \in Processes : Ends(tasks, Processes, currentProcessEvent, x)
                                     => Ends(tasks', Processes, currentProcessEvent, x)
  BY <1>1, <1>2, TaskTaken
<1> HIDE DEF h
<1>4. /\ requests' \in Seq(Asks) /\ AskInv'
      /\ \A x : In(requests, x) => In(requests', x)
      /\ registered /\ h = "changed" => In(requests', "profile")
      /\ registered /\ h = "reloaded" => In(requests', "general")
      /\ NoneOf(requests, Regs) => NoneOf(requests', Regs)
      /\ \A x : LastOf(requests, Regs, x) => LastOf(requests', Regs, x)
  <2>1. {"profile", "general"} \cap Regs = {} /\ {"profile", "general"} \subseteq Asks
    BY DEF Regs, Asks
  <2>2. CASE registered /\ h = "changed"
    BY <1>1, <1>2, <2>1, <2>2, RequestPut
  <2>3. CASE registered /\ h = "reloaded"
    BY <1>1, <1>2, <2>1, <2>3, RequestPut
  <2>4. CASE ~(registered /\ h \in {"changed", "reloaded"})
    BY <1>1, <2>4 DEF ScreenInv, ScreenType, AskInv
  <2> QED
    BY <2>2, <2>3, <2>4
<1>5. /\ posts' \in Seq(Posts)
      /\ registered => Ends(posts', EventPosts, <<"event", lastEvent>>, <<"event", currentProcessEvent'>>)
      /\ \A d, x : Ends(posts, ProfilePosts, d, x) => Ends(posts', ProfilePosts, d, x)
      /\ \A d, x : Ends(posts, ModePosts, d, x) => Ends(posts', ModePosts, d, x)
  <2>1. CASE registered /\ h \in Processes
    <3>1. <<"event", h>> \in EventPosts /\ <<"event", h>> \in Posts
          /\ <<"event", h>> \notin ProfilePosts /\ <<"event", h>> \notin ModePosts
      BY <2>1 DEF EventPosts, ProfilePosts, ModePosts, Posts
    <3> QED
      BY <1>1, <2>1, <3>1, PostPut
  <2>2. CASE ~(registered /\ h \in Processes)
    BY <1>1, <2>2 DEF ScreenInv, ScreenType, ToldInv
  <2> QED
    BY <2>1, <2>2
<1>6. ScreenType'
  <2>1. submitted' \in Nat /\ currentProcessEvent' \in Processes
    BY <1>1 DEF ScreenInv, ScreenType
  <2> QED
    BY <1>1, <1>3, <1>4, <1>5, <2>1 DEF ScreenInv, ScreenType
<1>7. EventInv'
  <2>1. Said(alive) \in Processes /\ Ends(tasks, Processes, currentProcessEvent, Said(alive))
    BY DEF ScreenInv, EventInv, Said, Processes
  <2>2. CASE h \in Processes
    BY <1>1, <1>3, <2>1, <2>2 DEF EventInv
  <2>3. CASE h \notin Processes
    BY <1>1, <1>3, <2>1, <2>3 DEF EventInv
  <2> QED
    BY <2>2, <2>3
<1>8. RegInv'
  <2>1. Reg(visible) \in Regs
    BY DEF Reg, Regs
  <2> QED
    BY <1>1, <1>3, <1>4, <2>1 DEF ScreenInv, RegInv
<1>9. ToldInv'
  BY <1>1, <1>5 DEF ScreenInv, ToldInv
<1>10. ProfileInv'
  BY <1>1, <1>3, <1>4, <1>5 DEF ScreenInv, ProfileInv
<1>11. Due => Due'
  BY <1>1, <1>3 DEF ScreenInv, ScreenType, Due
<1>12. ReloadInv'
  BY <1>1, <1>11 DEF ScreenInv, ReloadInv
<1>13. ModeInv'
  BY <1>1, <1>3, <1>4, <1>5, <1>11 DEF ScreenInv, ModeInv
<1> QED
  BY <1>4, <1>6, <1>7, <1>8, <1>9, <1>10, <1>12, <1>13 DEF ScreenInv

LEMMA RegisterStep ==
    ASSUME ScreenInv, Screen!RegisterEventObserver \/ Screen!UnregisterEventObserver
    PROVE  ScreenInv'
<1> DEFINE h == Head(tasks)
<1>1. /\ UNCHANGED <<alive, mode, chosen, currentProcessEvent, submitted, loading,
                     visible, requests, shown, lastEvent>>
      /\ tasks # <<>> /\ tasks' = Tail(tasks) /\ h \in Regs /\ registered' = (h = "register")
  BY DEF Screen!RegisterEventObserver, Screen!UnregisterEventObserver, Screen!Heard, Screen!Events,
         Screen!childVars, Screen!loadVars, Screen!screenVars, Regs, ScreenInv, ScreenType, Processes
<1>2. h \notin Processes /\ h \notin {"STARTED", "changed", "reloaded"}
  BY <1>1 DEF Processes, Regs
<1>3. /\ tasks' \in Seq(Tasks)
      /\ \A x : In(tasks, x) => h = x \/ In(tasks', x)
      /\ \A x : Will(tasks, registered, x) => h = x \/ Will(tasks', registered', x)
      /\ \A x : Ends(tasks, Regs, Reg(registered), x) => Ends(tasks', Regs, h, x)
      /\ \A x \in Processes : Ends(tasks, Processes, currentProcessEvent, x)
                                => Ends(tasks', Processes, currentProcessEvent, x)
  BY <1>1, <1>2, TaskTaken
<1>4. h = Reg(registered')
  BY <1>1 DEF Reg, Regs
<1> HIDE DEF h
<1>5. /\ posts' \in Seq(Posts)
      /\ registered' => Ends(posts', EventPosts, <<"event", lastEvent>>, <<"event", currentProcessEvent>>)
      /\ \A d, x : Ends(posts, ProfilePosts, d, x) => Ends(posts', ProfilePosts, d, x)
      /\ \A d, x : Ends(posts, ModePosts, d, x) => Ends(posts', ModePosts, d, x)
  <2>1. CASE UNCHANGED posts /\ (registered' => registered)
    BY <2>1 DEF ScreenInv, ScreenType, ToldInv
  <2>2. CASE posts' = Append(posts, <<"event", currentProcessEvent>>)
    <3> DEFINE e == <<"event", currentProcessEvent>>
    <3>1. e \in EventPosts /\ e \in Posts /\ e \notin ProfilePosts /\ e \notin ModePosts
      BY DEF ScreenInv, ScreenType, EventPosts, ProfilePosts, ModePosts, Posts
    <3> QED
      BY <2>2, <3>1, PostPut
  <2>3. \/ UNCHANGED posts /\ (registered' => registered)
        \/ posts' = Append(posts, <<"event", currentProcessEvent>>)
    <3>1. currentProcessEvent \in Processes /\ registered \in BOOLEAN
      BY DEF ScreenInv, ScreenType
    <3>2. CASE Screen!RegisterEventObserver /\ registered
      BY <3>2 DEF Screen!RegisterEventObserver
    <3>3. CASE Screen!RegisterEventObserver /\ ~registered
      BY <3>1, <3>3 DEF Screen!RegisterEventObserver, Screen!Heard, Screen!Events, Processes
    <3>4. CASE Screen!UnregisterEventObserver
      BY <3>4 DEF Screen!UnregisterEventObserver, Screen!screenVars
    <3> QED
      BY <3>1, <3>2, <3>3, <3>4
  <2> QED
    BY <2>1, <2>2, <2>3
<1>6. ScreenType'
  BY <1>1, <1>3, <1>5 DEF ScreenInv, ScreenType
<1>7. EventInv'
  <2>1. Said(alive) \in Processes
    BY DEF Said, Processes
  <2> QED
    BY <1>1, <1>3, <2>1 DEF ScreenInv, EventInv
<1>8. RegInv' /\ AskInv'
  BY <1>1, <1>3, <1>4 DEF ScreenInv, RegInv, AskInv
<1>9. ToldInv'
  BY <1>1, <1>5 DEF ScreenInv, ToldInv
<1>10. ProfileInv'
  BY <1>1, <1>2, <1>3, <1>5 DEF ScreenInv, ProfileInv
<1>11. Due => Due'
  BY <1>1, <1>2, <1>3 DEF Due
<1>12. ReloadInv'
  BY <1>1, <1>11 DEF ScreenInv, ReloadInv
<1>13. ModeInv'
  BY <1>1, <1>2, <1>3, <1>5, <1>11 DEF ScreenInv, ModeInv
<1> QED
  BY <1>6, <1>7, <1>8, <1>9, <1>10, <1>12, <1>13 DEF ScreenInv

(* ---- The screen. --------------------------------------------------------*)
LEMMA AppearStep ==
    ASSUME ScreenInv, Screen!OnStart \/ Screen!OnStop
    PROVE  ScreenInv'
<1>1. UNCHANGED <<alive, mode, chosen, tasks, registered, currentProcessEvent, submitted, loading,
                  posts, shown, lastEvent>>
  BY DEF Screen!OnStart, Screen!OnStop, Screen!childVars, Screen!serviceVars, Screen!loadVars
<1>2. EventInv' /\ ToldInv' /\ ReloadInv'
  BY <1>1 DEF ScreenInv, EventInv, ToldInv, ReloadInv, Due
<1>3. CASE Screen!OnStart
  <2>1. visible' = TRUE /\ requests' = requests \o <<"register", "general", "profile">>
    BY <1>3 DEF Screen!OnStart
  <2>2. /\ requests' \in Seq(Asks) /\ Asked(requests') /\ LastOf(requests', Regs, "register")
        /\ In(requests', "general") /\ In(requests', "profile")
    BY <2>1, AskedAtStart DEF ScreenInv, ScreenType, AskInv
  <2>3. ScreenType'
    BY <1>1, <2>1, <2>2 DEF ScreenInv, ScreenType
  <2>4. RegInv' /\ AskInv' /\ ProfileInv' /\ ModeInv'
    BY <2>1, <2>2 DEF RegInv, Reg, AskInv, ProfileInv, ModeInv
  <2> QED
    BY <1>2, <2>3, <2>4 DEF ScreenInv
<1>4. CASE Screen!OnStop
  <2>1. visible' = FALSE /\ requests' = Append(requests, "unregister")
    BY <1>4 DEF Screen!OnStop
  <2>2. "unregister" \in Asks /\ "unregister" \in Regs
    BY DEF Asks, Regs
  <2>3. requests' \in Seq(Asks) /\ AskInv' /\ LastOf(requests', Regs, "unregister")
    BY <2>1, <2>2, RequestPut
  <2>4. ScreenType'
    BY <1>1, <2>1, <2>3 DEF ScreenInv, ScreenType
  <2>5. RegInv' /\ ProfileInv' /\ ModeInv'
    BY <2>1, <2>3 DEF RegInv, Reg, ProfileInv, ModeInv
  <2> QED
    BY <1>2, <2>3, <2>4, <2>5 DEF ScreenInv
<1> QED
  BY <1>3, <1>4

LEMMA RequestStep ==
    ASSUME ScreenInv, Screen!RunRequest
    PROVE  ScreenInv'
<1> DEFINE h == Head(requests)
<1>1. /\ UNCHANGED <<alive, mode, chosen, registered, currentProcessEvent, submitted, loading,
                     visible, shown, lastEvent>>
      /\ requests # <<>> /\ requests' = Tail(requests)
  BY DEF Screen!RunRequest, Screen!childVars, Screen!loadVars
<1>2. requests \in Seq(Asks) /\ Asked(requests) /\ posts \in Seq(Posts)
  BY DEF ScreenInv, ScreenType, AskInv
<1>3. /\ requests' \in Seq(Asks) /\ AskInv' /\ h \in Asks
      /\ h = "register" => In(requests', "general") /\ In(requests', "profile")
      /\ \A x : In(requests, x) => h = x \/ In(requests', x)
      /\ NoneOf(requests, Regs) => NoneOf(requests', Regs) /\ h \notin Regs
      /\ \A x : LastOf(requests, Regs, x) =>
           LastOf(requests', Regs, x) \/ (NoneOf(requests', Regs) /\ h = x)
  <2>1. requests' \in Seq(Asks) /\ h \in Asks
    BY <1>1, <1>2, Taken
  <2>2. AskInv' /\ (h = "register" => In(requests', "general") /\ In(requests', "profile"))
    BY <1>1, <1>2, AskedTaken DEF AskInv
  <2>3. \A x : In(requests, x) => h = x \/ In(requests', x)
    BY <1>1, <1>2, InTaken, Zenon
  <2>4. /\ NoneOf(requests, Regs) => NoneOf(requests', Regs) /\ h \notin Regs
        /\ \A x : LastOf(requests, Regs, x) =>
             LastOf(requests', Regs, x) \/ (NoneOf(requests', Regs) /\ h = x)
    BY <1>1, <1>2, EndsTaken, Zenon
  <2> QED
    BY <2>1, <2>2, <2>3, <2>4
<1>4. /\ h \in Regs => tasks' = Append(tasks, h) /\ UNCHANGED posts
      /\ h = "general" => posts' = Append(posts, <<"mode", IF alive THEN mode ELSE 0>>) /\ UNCHANGED tasks
      /\ h = "profile" => posts' = Append(posts, <<"profile", chosen>>) /\ UNCHANGED tasks
  BY DEF Screen!RunRequest, Regs
<1>5. h \in Regs \/ h = "general" \/ h = "profile"
  BY <1>3 DEF Asks
<1> HIDE DEF h
<1>6. CASE h \in Regs
  <2>1. h \in Tasks /\ h \notin Processes /\ h \notin {"general", "profile"}
    BY <1>6 DEF Tasks, Regs, Processes
  <2>2. /\ tasks' \in Seq(Tasks)
        /\ \A x : In(tasks, x) => In(tasks', x)
        /\ \A x : Will(tasks, registered, x) => Will(tasks', registered, x)
        /\ Ends(tasks', Regs, Reg(registered), h)
        /\ \A x : Ends(tasks, Processes, currentProcessEvent, x)
                    => Ends(tasks', Processes, currentProcessEvent, x)
    BY <1>4, <1>6, <2>1, TaskPut
  <2>3. UNCHANGED posts
    BY <1>4, <1>6
  <2>4. ScreenType'
    BY <1>1, <1>3, <2>2, <2>3 DEF ScreenInv, ScreenType
  <2>5. EventInv' /\ ToldInv'
    BY <1>1, <2>2, <2>3 DEF ScreenInv, EventInv, ToldInv
  <2>6. RegInv'
    BY <1>1, <1>3, <1>6, <2>2 DEF ScreenInv, RegInv
  <2>7. ProfileInv'
    BY <1>1, <1>3, <2>1, <2>2, <2>3 DEF ScreenInv, ProfileInv
  <2>8. Due => Due'
    BY <1>1, <2>2 DEF Due
  <2>9. ReloadInv'
    BY <1>1, <2>8 DEF ScreenInv, ReloadInv
  <2>10. ModeInv'
    BY <1>1, <1>3, <2>1, <2>2, <2>3, <2>8 DEF ScreenInv, ModeInv
  <2> QED
    BY <1>3, <2>4, <2>5, <2>6, <2>7, <2>9, <2>10 DEF ScreenInv
<1>7. CASE h = "general" \/ h = "profile"
  <2>1. UNCHANGED tasks /\ h \notin Regs
    BY <1>4, <1>7 DEF Regs
  <2> DEFINE m == <<"mode", IF alive THEN mode ELSE 0>>
             p == <<"profile", chosen>>
  <2>2. /\ m \in Posts /\ m \in ModePosts /\ m \notin ProfilePosts /\ m \notin EventPosts
        /\ p \in Posts /\ p \in ProfilePosts /\ p \notin ModePosts /\ p \notin EventPosts
    BY DEF ScreenInv, ScreenType, EventPosts, ProfilePosts, ModePosts, Posts
  <2>3. /\ posts' \in Seq(Posts)
        /\ \A d, x : Ends(posts, EventPosts, d, x) => Ends(posts', EventPosts, d, x)
        /\ h = "general" => /\ \A d : Ends(posts', ModePosts, d, m)
                            /\ \A d, x : Ends(posts, ProfilePosts, d, x) => Ends(posts', ProfilePosts, d, x)
        /\ h = "profile" => /\ \A d : Ends(posts', ProfilePosts, d, p)
                            /\ \A d, x : Ends(posts, ModePosts, d, x) => Ends(posts', ModePosts, d, x)
    <3>1. CASE h = "general"
      <4>1. posts' = Append(posts, m) /\ h # "profile"
        BY <1>4, <3>1
      <4> HIDE DEF m
      <4> QED
        BY <2>2, <4>1, PostPut
    <3>2. CASE h = "profile"
      <4>1. posts' = Append(posts, p) /\ h # "general"
        BY <1>4, <3>2
      <4> HIDE DEF p
      <4> QED
        BY <2>2, <4>1, PostPut
    <3> QED
      BY <1>7, <3>1, <3>2
  <2>4. alive => m = <<"mode", mode>>
    OBVIOUS
  <2> HIDE DEF m
  <2>5. ScreenType'
    BY <1>1, <1>3, <2>1, <2>3 DEF ScreenInv, ScreenType
  <2>6. EventInv' /\ ToldInv'
    BY <1>1, <2>1, <2>3 DEF ScreenInv, EventInv, ToldInv
  <2>7. RegInv'
    <3>1. Reg(visible) \in Regs
      BY DEF Reg, Regs
    <3> QED
      BY <1>1, <1>3, <2>1, <3>1 DEF ScreenInv, RegInv
  <2>8. ProfileInv'
    <3>1. CASE h = "profile"
      BY <1>1, <2>3, <3>1 DEF ProfileInv
    <3>2. CASE h = "general"
      BY <1>1, <1>3, <2>1, <2>3, <3>2 DEF ScreenInv, ProfileInv
    <3> QED
      BY <1>7, <3>1, <3>2
  <2>9. ReloadInv'
    BY <1>1, <2>1 DEF ScreenInv, ReloadInv, Due
  <2>10. ModeInv'
    <3>1. CASE h = "general"
      BY <1>1, <2>3, <2>4, <3>1 DEF ModeInv
    <3>2. CASE h = "profile"
      BY <1>1, <1>3, <2>1, <2>3, <3>2 DEF ScreenInv, ModeInv, Due
    <3> QED
      BY <1>7, <3>1, <3>2
  <2> QED
    BY <1>3, <2>5, <2>6, <2>7, <2>8, <2>9, <2>10 DEF ScreenInv
<1> QED
  BY <1>5, <1>6, <1>7

LEMMA ShowStep ==
    ASSUME ScreenInv, Screen!Show
    PROVE  ScreenInv'
<1> DEFINE h == Head(posts)
<1>1. /\ UNCHANGED <<alive, mode, chosen, tasks, registered, currentProcessEvent, submitted,
                     loading, visible, requests>>
      /\ posts # <<>> /\ posts' = Tail(posts)
      /\ shown' = IF h[1] = "event" /\ h[2] = lastEvent THEN shown
                  ELSE [shown EXCEPT ![h[1]] = h[2]]
      /\ lastEvent' = IF h[1] = "event" THEN h[2] ELSE lastEvent
  BY DEF Screen!Show, Screen!childVars, Screen!serviceVars, Screen!loadVars
<1>2. posts \in Seq(Posts)
  BY DEF ScreenInv, ScreenType
<1>3. posts' \in Seq(Posts) /\ h \in Posts
  BY <1>1, <1>2, Taken
<1>4. \A K, d, x : /\ h \in K /\ Ends(posts, K, d, x) => Ends(posts', K, h, x)
                   /\ h \notin K /\ x \in K /\ Ends(posts, K, d, x) => Ends(posts', K, d, x)
  BY <1>1, <1>2, EndsTaken, Zenon
<1> HIDE DEF h
<1>5. /\ shown \in [event : Processes, profile : Profiles \cup {0}, mode : Profiles \cup {0}]
      /\ lastEvent # "null" => shown.event = lastEvent
  BY DEF ScreenInv, ScreenType, ToldInv
<1>6. /\ shown' \in [event : Processes, profile : Profiles \cup {0}, mode : Profiles \cup {0}]
      /\ lastEvent' \in Processes \cup {"null"}
      /\ lastEvent' # "null" => shown'.event = lastEvent'
      /\ IF h \in EventPosts THEN h = <<"event", lastEvent'>> ELSE lastEvent' = lastEvent
      /\ IF h \in ProfilePosts THEN h = <<"profile", shown'.profile>> ELSE shown'.profile = shown.profile
      /\ IF h \in ModePosts THEN h = <<"mode", shown'.mode>> ELSE shown'.mode = shown.mode
  <2>1. CASE h \in EventPosts
    <3>1. h[1] = "event" /\ h[2] \in Processes /\ h = <<"event", h[2]>>
          /\ h \notin ProfilePosts /\ h \notin ModePosts /\ h[2] # "null"
      BY <2>1 DEF EventPosts, ProfilePosts, ModePosts, Processes
    <3>2. CASE h[2] = lastEvent
      BY <1>1, <1>5, <2>1, <3>1, <3>2
    <3>3. CASE h[2] # lastEvent
      <4>1. shown' = [shown EXCEPT !.event = h[2]]
        BY <1>1, <3>1, <3>3
      <4>2. shown' \in [event : Processes, profile : Profiles \cup {0}, mode : Profiles \cup {0}]
        BY <1>5, <3>1, <4>1, Zenon
      <4>3. shown'.event = h[2] /\ shown'.profile = shown.profile /\ shown'.mode = shown.mode
        BY <1>5, <4>1
      <4> QED
        BY <1>1, <2>1, <3>1, <4>2, <4>3
    <3> QED
      BY <3>2, <3>3
  <2>2. CASE h \in ProfilePosts
    <3>1. h[1] = "profile" /\ h[2] \in Profiles \cup {0} /\ h = <<"profile", h[2]>>
          /\ h \notin EventPosts /\ h \notin ModePosts
      BY <2>2 DEF EventPosts, ProfilePosts, ModePosts
    <3>2. shown' = [shown EXCEPT !.profile = h[2]]
      BY <1>1, <3>1
    <3>3. shown' \in [event : Processes, profile : Profiles \cup {0}, mode : Profiles \cup {0}]
      BY <1>5, <3>1, <3>2, Zenon
    <3>4. shown'.event = shown.event /\ shown'.profile = h[2] /\ shown'.mode = shown.mode
      BY <1>5, <3>2
    <3>5. lastEvent' = lastEvent /\ lastEvent \in Processes \cup {"null"}
      BY <1>1, <3>1 DEF ScreenInv, ScreenType
    <3> QED
      BY <1>5, <2>2, <3>1, <3>3, <3>4, <3>5
  <2>3. CASE h \in ModePosts
    <3>1. h[1] = "mode" /\ h[2] \in Profiles \cup {0} /\ h = <<"mode", h[2]>>
          /\ h \notin EventPosts /\ h \notin ProfilePosts
      BY <2>3 DEF EventPosts, ProfilePosts, ModePosts
    <3>2. shown' = [shown EXCEPT !.mode = h[2]]
      BY <1>1, <3>1
    <3>3. shown' \in [event : Processes, profile : Profiles \cup {0}, mode : Profiles \cup {0}]
      BY <1>5, <3>1, <3>2, Zenon
    <3>4. shown'.event = shown.event /\ shown'.mode = h[2] /\ shown'.profile = shown.profile
      BY <1>5, <3>2
    <3>5. lastEvent' = lastEvent /\ lastEvent \in Processes \cup {"null"}
      BY <1>1, <3>1 DEF ScreenInv, ScreenType
    <3> QED
      BY <1>5, <2>3, <3>1, <3>3, <3>4, <3>5
  <2> QED
    BY <1>3, <2>1, <2>2, <2>3 DEF Posts
<1>7. ScreenType'
  BY <1>1, <1>3, <1>6 DEF ScreenInv, ScreenType
<1>8. EventInv' /\ RegInv' /\ AskInv' /\ ReloadInv'
  BY <1>1 DEF ScreenInv, EventInv, RegInv, AskInv, ReloadInv, Due
<1>9. ToldInv'
  <2>1. <<"event", currentProcessEvent>> \in EventPosts
    BY DEF ScreenInv, ScreenType, EventPosts
  <2> QED
    BY <1>1, <1>4, <1>6, <2>1 DEF ScreenInv, ToldInv
<1>10. ProfileInv'
  <2>1. <<"profile", chosen>> \in ProfilePosts
    BY DEF ScreenInv, ScreenType, ProfilePosts
  <2> QED
    BY <1>1, <1>4, <1>6, <2>1 DEF ScreenInv, ProfileInv
<1>11. ModeInv'
  <2>1. <<"mode", mode>> \in ModePosts
    BY DEF ScreenInv, ScreenType, ModePosts
  <2> QED
    BY <1>1, <1>4, <1>6, <2>1 DEF ScreenInv, ModeInv, Due
<1> QED
  BY <1>7, <1>8, <1>9, <1>10, <1>11 DEF ScreenInv

LEMMA ScreenStart == Screen!Init => ScreenInv
<1> SUFFICES ASSUME Screen!Init PROVE ScreenInv
  OBVIOUS
<1>1. chosen \in Profiles
  BY ScreenAssumption DEF Screen!Init
<1>2. /\ Len(tasks) = 0 /\ Len(requests) = 0 /\ Len(posts) = 0
      /\ \A i \in 1 .. 0 : FALSE
  BY DEF Screen!Init
<1>3. ScreenType
  BY <1>1, EmptySeq DEF Screen!Init, Screen!Idle, ScreenType, Processes
<1>4. \A K : NoneOf(tasks, K) /\ NoneOf(requests, K) /\ NoneOf(posts, K)
  BY <1>2 DEF NoneOf
<1> QED
  BY <1>2, <1>3, <1>4 DEF Screen!Init, ScreenInv, EventInv, RegInv, AskInv, Asked, ToldInv,
     ProfileInv, ReloadInv, ModeInv, Ends, Said, Reg

LEMMA ScreenStep == ScreenInv /\ [StoreNext]_allVars => ScreenInv'
<1> SUFFICES ASSUME ScreenInv, [StoreNext]_allVars PROVE ScreenInv'
  OBVIOUS
<1>1. CASE OnScreen(Screen!Next)
  BY <1>1, ChildStep, ChooseStep, ReloadStep, ScreenLoads, AnnounceStep, PerformStep, RegisterStep,
     AppearStep, RequestStep, ShowStep DEF OnScreen, Screen!Next
<1>2. CASE UNCHANGED screenVars
  BY <1>2 DEF screenVars, ScreenInv, ScreenType, EventInv, RegInv, AskInv, ToldInv,
     ProfileInv, ReloadInv, ModeInv, Due
<1> QED
  BY <1>1, <1>2 DEF StoreNext, Store, Event, Provide, allVars

(* When all threads have come to rest a visible screen shows the child, the *)
(* active profile and the mode as they are; for any profiles and however    *)
(* many changes and appearances.                                            *)
THEOREM ScreenShowsTheTruth == StoreSpec => []ShowsTheTruth
<1>1. StoreInit => ScreenInv
  BY ScreenStart DEF StoreInit
<1>2. ScreenInv /\ [StoreNext]_allVars => ScreenInv'
  BY ScreenStep
<1>3. ScreenInv => ShowsTheTruth
  <2> SUFFICES ASSUME ScreenInv, visible, tasks = <<>>, requests = <<>>, posts = <<>>,
                      loading = 0, submitted = 0
               PROVE  /\ shown.event = IF alive THEN "STARTED" ELSE "STOPPED"
                      /\ shown.profile = chosen
                      /\ alive => shown.mode = mode /\ mode = chosen
    BY DEF ShowsTheTruth, Screen!ShowsTheTruth, Screen!Idle
  <2>1. /\ Len(tasks) = 0 /\ Len(requests) = 0 /\ Len(posts) = 0
        /\ \A i \in 1 .. 0 : FALSE
    OBVIOUS
  <2>2. \A x : ~In(tasks, x) /\ ~In(requests, x) /\ \A b : ~Will(tasks, b, x)
    BY <2>1 DEF In, Will
  <2>3. \A K, x : ~LastOf(tasks, K, x) /\ ~LastOf(requests, K, x) /\ ~LastOf(posts, K, x)
    BY <2>1 DEF LastOf
  <2>4. ~Due
    BY <2>2 DEF Due
  <2>5. currentProcessEvent = Said(alive) /\ registered
    BY <2>3 DEF ScreenInv, ScreenType, EventInv, RegInv, Ends, Reg
  <2>6. shown.event = Said(alive)
    <3>1. <<"event", lastEvent>> = <<"event", currentProcessEvent>>
      BY <2>3, <2>5 DEF ScreenInv, ToldInv, Ends
    <3>2. lastEvent = Said(alive) /\ lastEvent # "null"
      BY <2>5, <3>1 DEF Said
    <3> QED
      BY <3>2 DEF ScreenInv, ToldInv
  <2>7. <<"profile", shown.profile>> = <<"profile", chosen>>
    BY <2>2, <2>3 DEF ScreenInv, ProfileInv, Ends
  <2>8. alive => mode = chosen
    BY <2>4, ProfilesAssumption DEF ScreenInv, ScreenType, ReloadInv
  <2>9. alive => <<"mode", shown.mode>> = <<"mode", mode>>
    BY <2>2, <2>3, <2>4 DEF ScreenInv, ModeInv, Ends
  <2> QED
    BY <2>6, <2>7, <2>8, <2>9 DEF Said
<1> QED
  BY <1>1, <1>2, <1>3, PTL DEF StoreSpec

------------------------------------------------------------------------------
(* ---- EventService. ------------------------------------------------------*)
Observers == [id : Events!Ids, life : Nat, wants : SUBSET (Wants \cup {"speed"})]
Jobs ==
    [do : {"register"}, id : Events!Ids, life : Nat, wants : SUBSET (Wants \cup {"speed"})]
    \cup [do : {"unregister"}, id : Events!Ids \ {"service"}]
    \cup [do : {"event"}, event : {"STARTED", "STOPPED"}]
    \cup [do : {"recast"}]

EventType ==
    /\ observers \in Seq(Observers) /\ queue \in Seq(Jobs)
    /\ current \in {"STARTED", "STOPPED"} /\ childRuns \in BOOLEAN
    /\ life \in Nat \ {0} /\ up \in BOOLEAN /\ linked \subseteq [id : Remote, life : Nat]
    /\ heard \in [Events!Ids -> {"STARTED", "STOPPED", "nothing"}]

(* The service is registered before all others, and stays the first.        *)
FirstInv ==
    IF observers = <<>> THEN queue # <<>> /\ queue[1].do = "register" /\ queue[1].id = "service"
                        ELSE observers[1].id = "service"

(* Who registers from the user interface does so in a life that it has had. *)
LifeInv ==
    /\ \A i \in 1 .. Len(observers) :
         observers[i].id \in Remote => 1 <= observers[i].life /\ observers[i].life <= life
    /\ \A i \in 1 .. Len(queue) : queue[i].do = "register" /\ queue[i].id \in Remote =>
         1 <= queue[i].life /\ queue[i].life <= life

HeardInv ==
    /\ observers # <<>> => heard["service"] = current
    /\ life = 1 /\ up => \A i \in 1 .. Len(observers) : heard[observers[i].id] = current

(* What is pulled is wrong only until a recast that is on its way.          *)
Recasts(job) == job.do = "recast" \/ (job.do = "event" /\ job.event = "STARTED")
PullInv ==
    childRuns /\ (\A i \in 1 .. Len(observers) : ~Events!Dead(observers[i])) =>
        pulled = Events!Wanted \/ \E i \in 1 .. Len(queue) : Recasts(queue[i])

EventsInv == EventType /\ FirstInv /\ LifeInv /\ HeardInv /\ PullInv

LEMMA ConcatOne ==
    ASSUME NEW S, NEW s \in Seq(S), NEW e \in S
    PROVE  s \o <<e>> = Append(s, e)
<1> DEFINE o == <<e>>
<1>1. o \in Seq(S) /\ Len(o) = 1 /\ o[1] = e
  OBVIOUS
<1> HIDE DEF o
<1>2. /\ s \o o \in Seq(S) /\ Len(s \o o) = Len(s) + 1 /\ Len(s) \in Nat
      /\ \A i \in 1 .. Len(s) + 1 : (s \o o)[i] = IF i <= Len(s) THEN s[i] ELSE o[i - Len(s)]
  BY <1>1, ConcatProperties, LenProperties
<1>3. /\ Append(s, e) \in Seq(S) /\ Len(Append(s, e)) = Len(s) + 1
      /\ \A i \in 1 .. Len(s) : Append(s, e)[i] = s[i]
      /\ Append(s, e)[Len(s) + 1] = e
  BY Put
<1>4. \A i \in 1 .. Len(s \o o) : (s \o o)[i] = Append(s, e)[i]
  <2> SUFFICES ASSUME NEW i \in 1 .. Len(s) + 1 PROVE (s \o o)[i] = Append(s, e)[i]
    BY <1>2
  <2>1. CASE i \in 1 .. Len(s)
    BY <1>2, <1>3, <2>1
  <2>2. CASE i = Len(s) + 1
    <3>1. (s \o o)[i] = o[1]
      BY <1>2, <2>2
    <3> QED
      BY <1>1, <1>3, <2>2, <3>1
  <2> QED
    BY <1>2, <2>1, <2>2
<1>5. s \o o = Append(s, e)
  BY <1>2, <1>3, <1>4, SeqEqual
<1> QED
  BY <1>5 DEF o

LEMMA RecastJob == [do |-> "recast"] \in Jobs /\ Recasts([do |-> "recast"])
                   /\ [do |-> "recast"].do # "register"
BY DEF Jobs, Recasts

LEMMA JobKinds ==
    ASSUME NEW j \in Jobs
    PROVE  /\ j.do = "register" =>
                j.id \in Events!Ids /\ j.life \in Nat /\ j.wants \in SUBSET (Wants \cup {"speed"})
           /\ j.do = "unregister" => j.id \in Events!Ids \ {"service"}
           /\ j.do = "event" => j.event \in {"STARTED", "STOPPED"}
BY DEF Jobs

(* A job that is put in line changes none before it.                        *)
LEMMA QueueGrows ==
    ASSUME EventsInv, NEW j \in Jobs, queue' = Append(queue, j)
    PROVE  /\ queue' \in Seq(Jobs) /\ queue' # <<>>
           /\ queue # <<>> => queue'[1] = queue[1]
           /\ \A i \in 1 .. Len(queue') : (i \in 1 .. Len(queue) /\ queue'[i] = queue[i]) \/ queue'[i] = j
           /\ (\E i \in 1 .. Len(queue) : Recasts(queue[i])) =>
                \E i \in 1 .. Len(queue') : Recasts(queue'[i])
           /\ Recasts(j) => \E i \in 1 .. Len(queue') : Recasts(queue'[i])
<1>1. queue \in Seq(Jobs)
  BY DEF EventsInv, EventType
<1>2. /\ queue' \in Seq(Jobs) /\ Len(queue') = Len(queue) + 1 /\ Len(queue) \in Nat
      /\ \A i \in 1 .. Len(queue) : queue'[i] = queue[i]
      /\ queue'[Len(queue) + 1] = j
  BY <1>1, Put
<1>3. queue' # <<>>
  BY <1>2
<1>4. queue # <<>> => 1 \in 1 .. Len(queue)
  BY <1>1, EmptySeq
<1>5. /\ \A i \in 1 .. Len(queue') : i \in 1 .. Len(queue) \/ i = Len(queue) + 1
      /\ \A i \in 1 .. Len(queue) : i \in 1 .. Len(queue')
      /\ Len(queue) + 1 \in 1 .. Len(queue')
  BY <1>2
<1>6. \A i \in 1 .. Len(queue') : (i \in 1 .. Len(queue) /\ queue'[i] = queue[i]) \/ queue'[i] = j
  BY <1>2, <1>5
<1>7. ASSUME NEW i \in 1 .. Len(queue), Recasts(queue[i])
      PROVE  \E k \in 1 .. Len(queue') : Recasts(queue'[k])
  <2>1. i \in 1 .. Len(queue') /\ queue'[i] = queue[i]
    BY <1>2, <1>5
  <2>2. Recasts(queue'[i])
    BY <1>7, <2>1
  <2> QED
    BY <2>1, <2>2
<1>8. ASSUME Recasts(j) PROVE \E k \in 1 .. Len(queue') : Recasts(queue'[k])
  <2>1. Recasts(queue'[Len(queue) + 1])
    BY <1>2, <1>8
  <2> QED
    BY <1>5, <2>1
<1> QED
  BY <1>2, <1>3, <1>4, <1>6, <1>7, <1>8

(* What is left of the line once its head is worked off.                    *)
LEMMA QueueServes ==
    ASSUME EventsInv, queue # <<>>, NEW q,
           q \in {Tail(queue), Append(Tail(queue), [do |-> "recast"])}
    PROVE  /\ q \in Seq(Jobs) /\ Head(queue) \in Jobs /\ Head(queue) = queue[1]
           /\ \A i \in 1 .. Len(q) :
                (\E k \in 1 .. Len(queue) : q[i] = queue[k]) \/ q[i] = [do |-> "recast"]
           /\ (\E i \in 1 .. Len(queue) : Recasts(queue[i])) =>
                Recasts(Head(queue)) \/ \E i \in 1 .. Len(q) : Recasts(q[i])
           /\ q = Append(Tail(queue), [do |-> "recast"]) => \E i \in 1 .. Len(q) : Recasts(q[i])
<1> DEFINE t == Tail(queue)
           r == [do |-> "recast"]
<1>1. queue \in Seq(Jobs)
  BY DEF EventsInv, EventType
<1>2. /\ t \in Seq(Jobs) /\ Len(t) = Len(queue) - 1 /\ Len(queue) \in Nat \ {0}
      /\ Head(queue) = queue[1] /\ Head(queue) \in Jobs
      /\ \A i \in 1 .. Len(queue) - 1 : t[i] = queue[i + 1]
  BY <1>1, Taken
<1>3. r \in Jobs /\ Recasts(r)
  BY RecastJob
<1> HIDE DEF t, r
<1>4. \A i \in 1 .. Len(t) : \E k \in 1 .. Len(queue) : t[i] = queue[k]
  <2> SUFFICES ASSUME NEW i \in 1 .. Len(t) PROVE \E k \in 1 .. Len(queue) : t[i] = queue[k]
    OBVIOUS
  <2>1. i + 1 \in 1 .. Len(queue) /\ t[i] = queue[i + 1]
    BY <1>2
  <2> QED
    BY <2>1
<1>5. ASSUME NEW i \in 1 .. Len(queue), Recasts(queue[i]), ~Recasts(Head(queue))
      PROVE  \E k \in 1 .. Len(t) : Recasts(t[k])
  <2>1. i # 1
    BY <1>2, <1>5
  <2>2. i - 1 \in 1 .. Len(t) /\ i - 1 \in 1 .. Len(queue) - 1 /\ (i - 1) + 1 = i
    BY <1>2, <2>1
  <2>3. t[i - 1] = queue[i]
    BY <1>2, <2>2
  <2>4. Recasts(t[i - 1])
    BY <1>5, <2>3
  <2> QED
    BY <2>2, <2>4
<1>6. CASE q = t
  <2>1. q # Append(t, r)
    <3>1. Len(Append(t, r)) = Len(t) + 1 /\ Len(t) \in Nat
      BY <1>2, <1>3, Put
    <3> QED
      BY <1>6, <3>1
  <2> QED
    BY <1>2, <1>4, <1>5, <1>6, <2>1 DEF t, r
<1>7. CASE q = Append(t, r)
  <2>1. /\ q \in Seq(Jobs) /\ Len(q) = Len(t) + 1 /\ Len(t) \in Nat
        /\ \A i \in 1 .. Len(t) : q[i] = t[i]
        /\ q[Len(t) + 1] = r
    BY <1>2, <1>3, <1>7, Put
  <2>2. /\ \A i \in 1 .. Len(q) : i \in 1 .. Len(t) \/ i = Len(t) + 1
        /\ Len(t) + 1 \in 1 .. Len(q)
    BY <2>1
  <2>3. \A i \in 1 .. Len(q) : (\E k \in 1 .. Len(queue) : q[i] = queue[k]) \/ q[i] = r
    BY <1>4, <2>1, <2>2
  <2>4. Recasts(q[Len(t) + 1])
    BY <1>3, <2>1
  <2>5. \E i \in 1 .. Len(q) : Recasts(q[i])
    BY <2>2, <2>4
  <2> QED
    BY <1>2, <2>1, <2>3, <2>5 DEF r
<1> QED
  BY <1>6, <1>7 DEF t, r

LEMMA ServiceLives == ASSUME EventsInv, observers # <<>> PROVE ~Events!Dead(observers[1])
BY ServiceAssumption DEF EventsInv, FirstInv, Events!Dead

LEMMA EventStart == Events!Init => EventsInv
<1> SUFFICES ASSUME Events!Init PROVE EventsInv
  OBVIOUS
<1> DEFINE j == [do |-> "register", id |-> "service", life |-> 0, wants |-> {"speed"}]
<1>1. /\ observers = <<>> /\ current = "STOPPED" /\ queue = <<j>> /\ childRuns = FALSE
      /\ life = 1 /\ up = TRUE /\ linked = {} /\ heard = [id \in Events!Ids |-> "nothing"]
  BY DEF Events!Init, Events!Service
<1>2. "service" \in Events!Ids
  BY DEF Events!Ids, Events!Service
<1>3. j \in Jobs /\ j.do = "register" /\ j.id = "service"
  BY <1>2, SMT DEF Jobs
<1> HIDE DEF j
<1>4. queue \in Seq(Jobs) /\ Len(queue) = 1 /\ queue[1] = j /\ queue # <<>>
  BY <1>1, <1>3
<1>5. observers \in Seq(Observers) /\ Len(observers) = 0
  BY <1>1, EmptySeq
<1>6. EventType
  <2>1. heard \in [Events!Ids -> {"STARTED", "STOPPED", "nothing"}]
    BY <1>1
  <2>2. life \in Nat \ {0} /\ current \in {"STARTED", "STOPPED"}
    BY <1>1
  <2>3. linked \subseteq [id : Remote, life : Nat]
    BY <1>1
  <2> QED
    BY <1>1, <1>4, <1>5, <2>1, <2>2, <2>3 DEF EventType
<1>7. FirstInv
  BY <1>1, <1>3, <1>4 DEF FirstInv
<1>8. LifeInv
  <2>1. \A i \in 1 .. Len(queue) : queue[i] = j
    BY <1>4
  <2> QED
    BY <1>3, <1>5, <2>1, ServiceAssumption DEF LifeInv
<1>9. HeardInv /\ PullInv
  BY <1>1, <1>5 DEF HeardInv, PullInv
<1> QED
  BY <1>6, <1>7, <1>8, <1>9 DEF EventsInv

(* A call puts a job in line; a child that starts is sure of a recast.      *)
LEMMA CallKeeps ==
    ASSUME EventsInv, NEW j \in Jobs, queue' = Append(queue, j),
           UNCHANGED <<observers, current, life, up, heard>>,
           j.do = "register" /\ j.id \in Remote => 1 <= j.life /\ j.life <= life,
           linked' \subseteq [id : Remote, life : Nat], childRuns' \in BOOLEAN,
           childRuns' => Recasts(j) \/ (childRuns /\ UNCHANGED pulled)
    PROVE  EventsInv'
<1>1. /\ queue' \in Seq(Jobs) /\ queue' # <<>>
      /\ queue # <<>> => queue'[1] = queue[1]
      /\ \A i \in 1 .. Len(queue') : (i \in 1 .. Len(queue) /\ queue'[i] = queue[i]) \/ queue'[i] = j
      /\ (\E i \in 1 .. Len(queue) : Recasts(queue[i])) =>
           \E i \in 1 .. Len(queue') : Recasts(queue'[i])
      /\ Recasts(j) => \E i \in 1 .. Len(queue') : Recasts(queue'[i])
  BY QueueGrows
<1>2. EventType'
  BY <1>1 DEF EventsInv, EventType
<1>3. FirstInv'
  BY <1>1 DEF EventsInv, FirstInv
<1>4. LifeInv'
  <2>1. ASSUME NEW i \in 1 .. Len(queue'), queue'[i].do = "register", queue'[i].id \in Remote
        PROVE  1 <= queue'[i].life /\ queue'[i].life <= life
    BY <1>1, <2>1 DEF EventsInv, LifeInv
  <2> QED
    BY <2>1 DEF EventsInv, LifeInv
<1>5. HeardInv'
  BY DEF EventsInv, HeardInv
<1>6. PullInv'
  <2>1. Events!Wanted' = Events!Wanted /\ \A o : Events!Dead(o)' = Events!Dead(o)
    BY DEF Events!Wanted, Events!Range, Events!Dead
  <2>2. \A i \in 1 .. Len(observers) : Events!Dead(observers[i])' = Events!Dead(observers[i])
    BY DEF Events!Dead
  <2> QED
    BY <1>1, <2>1, <2>2 DEF EventsInv, PullInv
<1> QED
  BY <1>2, <1>3, <1>4, <1>5, <1>6 DEF EventsInv

LEMMA CallStep ==
    ASSUME EventsInv,
           \/ \E id \in Events!Ids, w \in SUBSET Wants : Events!RegisterEventObserver(id, w)
           \/ \E id \in Events!Ids \ {"service"} : Events!UnregisterEventObserver(id)
           \/ Events!PerformProcessEvent
           \/ \E link \in linked : Events!BinderDied(link)
    PROVE  EventsInv'
<1>0. life \in Nat \ {0} /\ linked \subseteq [id : Remote, life : Nat] /\ childRuns \in BOOLEAN
  BY DEF EventsInv, EventType
<1>1. ASSUME NEW id \in Events!Ids, NEW w \in SUBSET Wants, Events!RegisterEventObserver(id, w)
      PROVE  EventsInv'
  <2> DEFINE j == [do |-> "register", id |-> id, life |-> IF id \in Remote THEN life ELSE 0,
                   wants |-> w]
  <2>1. queue' = Append(queue, j)
        /\ UNCHANGED <<observers, current, childRuns, pulled, life, up, linked, heard>>
    BY <1>1 DEF Events!RegisterEventObserver, Events!Call
  <2>2. j \in Jobs /\ j.do = "register" /\ j.id = id
        /\ (id \in Remote => j.life = life)
    BY <1>0, SMT DEF Jobs
  <2> HIDE DEF j
  <2> QED
    BY <1>0, <2>1, <2>2, CallKeeps
<1>2. ASSUME NEW id \in Events!Ids \ {"service"}, Events!UnregisterEventObserver(id)
      PROVE  EventsInv'
  <2> DEFINE j == [do |-> "unregister", id |-> id]
  <2>1. queue' = Append(queue, j)
        /\ UNCHANGED <<observers, current, childRuns, pulled, life, up, linked, heard>>
    BY <1>2 DEF Events!UnregisterEventObserver, Events!Call
  <2>2. j \in Jobs /\ j.do = "unregister"
    BY SMT DEF Jobs
  <2> HIDE DEF j
  <2> QED
    BY <1>0, <2>1, <2>2, CallKeeps
<1>3. ASSUME Events!PerformProcessEvent PROVE EventsInv'
  <2> DEFINE j == [do |-> "event", event |-> IF childRuns THEN "STOPPED" ELSE "STARTED"]
  <2>1. queue' = Append(queue, j) /\ childRuns' = ~childRuns
        /\ UNCHANGED <<observers, current, life, up, linked, heard>>
    BY <1>3 DEF Events!PerformProcessEvent, Events!Call
  <2>2. j \in Jobs /\ j.do = "event" /\ (~childRuns => j.event = "STARTED")
    BY SMT DEF Jobs
  <2> HIDE DEF j
  <2> QED
    BY <1>0, <2>1, <2>2, CallKeeps DEF Recasts
<1>4. ASSUME NEW link \in linked, Events!BinderDied(link) PROVE EventsInv'
  <2> DEFINE j == [do |-> "unregister", id |-> link.id]
  <2>1. queue' = Append(queue, j) /\ linked' = linked \ {link}
        /\ UNCHANGED <<observers, current, childRuns, pulled, life, up, heard>>
    BY <1>4 DEF Events!BinderDied
  <2>2. link.id \in Events!Ids \ {"service"}
    BY <1>0, ServiceAssumption DEF Events!Ids
  <2>3. j \in Jobs /\ j.do = "unregister"
    BY <2>2, SMT DEF Jobs
  <2> HIDE DEF j
  <2> QED
    BY <1>0, <2>1, <2>3, CallKeeps
<1> QED
  BY <1>1, <1>2, <1>3, <1>4

(* Who is dead stays dead.                                                  *)
LEMMA UiStep ==
    ASSUME EventsInv, Events!UiDies \/ Events!UiReturns
    PROVE  EventsInv'
<1>1. /\ UNCHANGED <<observers, current, queue, childRuns, pulled, linked>>
      /\ up' \in BOOLEAN
      /\ \/ up' = FALSE /\ UNCHANGED <<life, heard>>
         \/ /\ life' = life + 1
            /\ heard' = [id \in Events!Ids |-> IF id \in Remote THEN "nothing" ELSE heard[id]]
  BY DEF Events!UiDies, Events!UiReturns
<1>2. life \in Nat \ {0} /\ life' \in Nat \ {0} /\ life <= life'
  BY <1>1 DEF EventsInv, EventType
<1>3. EventType'
  <2>1. heard' \in [Events!Ids -> {"STARTED", "STOPPED", "nothing"}]
    BY <1>1 DEF EventsInv, EventType
  <2> QED
    BY <1>1, <1>2, <2>1 DEF EventsInv, EventType
<1>4. FirstInv'
  BY <1>1 DEF EventsInv, FirstInv
<1>5. observers \in Seq(Observers) /\ queue \in Seq(Jobs)
  BY DEF EventsInv, EventType
<1>6. LifeInv'
  <2>1. ASSUME NEW i \in 1 .. Len(observers), observers[i].id \in Remote
        PROVE  1 <= observers[i].life /\ observers[i].life <= life'
    <3>0. observers[i] \in Observers
      BY <1>5, ElementOfSeq
    <3>1. observers[i].life \in Nat
      BY <3>0 DEF Observers
    <3>2. 1 <= observers[i].life /\ observers[i].life <= life
      BY <2>1 DEF EventsInv, LifeInv
    <3> QED
      BY <1>2, <3>1, <3>2
  <2>2. ASSUME NEW i \in 1 .. Len(queue), queue[i].do = "register", queue[i].id \in Remote
        PROVE  1 <= queue[i].life /\ queue[i].life <= life'
    <3>1. queue[i].life \in Nat
      BY <1>5, <2>2, ElementOfSeq, JobKinds
    <3>2. 1 <= queue[i].life /\ queue[i].life <= life
      BY <2>2 DEF EventsInv, LifeInv
    <3> QED
      BY <1>2, <3>1, <3>2
  <2> QED
    BY <1>1, <2>1, <2>2 DEF LifeInv
<1>7. HeardInv'
  <2>1. "service" \in Events!Ids
    BY DEF Events!Ids, Events!Service
  <2>2. heard'["service"] = heard["service"]
    BY <1>1, <2>1, ServiceAssumption
  <2>3. ~(life' = 1 /\ up')
    BY <1>1, <1>2
  <2> QED
    BY <1>1, <2>2, <2>3 DEF EventsInv, HeardInv
<1>8. PullInv'
  <2>1. ASSUME NEW i \in 1 .. Len(observers), Events!Dead(observers[i])
        PROVE  Events!Dead(observers[i])'
    <3>0. observers[i] \in Observers
      BY <1>5, ElementOfSeq
    <3>1. observers[i].life \in Nat
      BY <3>0 DEF Observers
    <3>2. observers[i].id \in Remote /\ observers[i].life <= life
      BY <2>1 DEF EventsInv, LifeInv, Events!Dead
    <3> QED
      BY <1>1, <1>2, <3>1, <3>2 DEF Events!Dead
  <2>2. Events!Wanted' = Events!Wanted
    BY <1>1 DEF Events!Wanted, Events!Range
  <2> QED
    BY <1>1, <2>1, <2>2 DEF EventsInv, PullInv
<1> QED
  BY <1>3, <1>4, <1>6, <1>7, <1>8 DEF EventsInv

(* What stays of the line, with the recast that a task may leave behind.    *)
LEMMA QueueRest ==
    ASSUME EventsInv, queue # <<>>, NEW more \in BOOLEAN,
           queue' = Tail(queue) \o (IF more THEN <<[do |-> "recast"]>> ELSE <<>>)
    PROVE  /\ queue' \in {Tail(queue), Append(Tail(queue), [do |-> "recast"])}
           /\ more => queue' = Append(Tail(queue), [do |-> "recast"])
<1>1. Tail(queue) \in Seq(Jobs)
  BY Taken DEF EventsInv, EventType
<1>2. CASE more
  <2>1. queue' = Append(Tail(queue), [do |-> "recast"])
    BY <1>1, <1>2, RecastJob, ConcatOne
  <2> QED
    BY <2>1
<1>3. CASE ~more
  <2>1. queue' = Tail(queue) \o << >>
    BY <1>3
  <2>2. queue' = Tail(queue)
    BY <1>1, <2>1, ConcatEmptySeq
  <2> QED
    BY <1>3, <2>2
<1> QED
  BY <1>2, <1>3

(* What is left of the line holds no registration of another life.          *)
LEMMA QueueLives ==
    ASSUME EventsInv, queue # <<>>,
           queue' \in {Tail(queue), Append(Tail(queue), [do |-> "recast"])}
    PROVE  \A i \in 1 .. Len(queue') : queue'[i].do = "register" /\ queue'[i].id \in Remote =>
             1 <= queue'[i].life /\ queue'[i].life <= life
<1> SUFFICES ASSUME NEW i \in 1 .. Len(queue'), queue'[i].do = "register",
                    queue'[i].id \in Remote
             PROVE  1 <= queue'[i].life /\ queue'[i].life <= life
  OBVIOUS
<1>1. (\E k \in 1 .. Len(queue) : queue'[i] = queue[k]) \/ queue'[i] = [do |-> "recast"]
  BY QueueServes
<1>2. queue'[i] # [do |-> "recast"]
  BY RecastJob
<1> QED
  BY <1>1, <1>2 DEF EventsInv, LifeInv

LEMMA AfterFirst == ASSUME EventsInv, queue # <<>>, Head(queue).do # "register" PROVE observers # <<>>
<1>1. Head(queue) = queue[1]
  BY Taken DEF EventsInv, EventType
<1> QED
  BY <1>1 DEF EventsInv, FirstInv

LEMMA ObserversAre ==
    ASSUME EventsInv
    PROVE  \A i \in 1 .. Len(observers) :
             observers[i] \in Observers /\ observers[i].id \in Events!Ids /\ observers[i].life \in Nat
<1> SUFFICES ASSUME NEW i \in 1 .. Len(observers)
             PROVE  observers[i] \in Observers /\ observers[i].id \in Events!Ids
                    /\ observers[i].life \in Nat
  OBVIOUS
<1>1. observers \in Seq(Observers)
  BY DEF EventsInv, EventType
<1>2. observers[i] \in Observers
  BY <1>1, ElementOfSeq
<1> QED
  BY <1>2 DEF Observers

(* In the first life of the user interface nobody has died.                 *)
LEMMA FirstLife ==
    ASSUME EventsInv, life = 1, up
    PROVE  \A i \in 1 .. Len(observers) : ~Events!Dead(observers[i])
<1> SUFFICES ASSUME NEW i \in 1 .. Len(observers) PROVE ~Events!Dead(observers[i])
  OBVIOUS
<1>1. observers[i].life \in Nat
  BY ObserversAre
<1>2. observers[i].id \in Remote => 1 <= observers[i].life
  BY DEF EventsInv, LifeInv
<1> QED
  BY <1>1, <1>2 DEF Events!Dead

LEMMA ServeEvent == ASSUME EventsInv, Events!Deliver PROVE EventsInv'
<1> DEFINE e == Head(queue).event
           more == e = "STARTED" /\ \E i \in Events!Told : observers[i].id = "service"
<1>1. /\ queue # <<>> /\ Head(queue).do = "event" /\ current' = e
      /\ heard' = [id \in Events!Ids |->
                     IF \E i \in Events!Told : observers[i].id = id THEN e ELSE heard[id]]
      /\ queue' = Tail(queue) \o (IF more THEN <<[do |-> "recast"]>> ELSE <<>>)
      /\ UNCHANGED <<observers, childRuns, pulled, life, up, linked>>
  BY DEF Events!Deliver, Events!Take, Events!Service
<1>2. observers # <<>> /\ observers \in Seq(Observers)
  <2>1. Head(queue).do # "register"
    BY <1>1
  <2> QED
    BY <1>1, <2>1, AfterFirst DEF EventsInv, EventType
<1>3. 1 \in 1 .. Len(observers) /\ DOMAIN observers = 1 .. Len(observers)
  BY <1>2, EmptySeq, LenProperties
<1>4. observers[1].id = "service" /\ ~Events!Dead(observers[1])
  BY <1>2, ServiceLives DEF EventsInv, FirstInv
<1>5. 1 \in Events!Told
  <2>1. \A j \in 1 .. 1 : j = 1
    OBVIOUS
  <2> QED
    BY <1>3, <1>4, <2>1 DEF Events!Told
<1>6. Head(queue) \in Jobs
  <2>1. queue \in Seq(Jobs)
    BY DEF EventsInv, EventType
  <2> QED
    BY <1>1, <2>1, Taken
<1>7. e \in {"STARTED", "STOPPED"}
  BY <1>1, <1>6, JobKinds
<1>8. more <=> e = "STARTED"
  BY <1>4, <1>5
<1> HIDE DEF e
<1>9. /\ queue' \in {Tail(queue), Append(Tail(queue), [do |-> "recast"])}
      /\ more => queue' = Append(Tail(queue), [do |-> "recast"])
  <2> HIDE DEF more
  <2> QED
    <3>1. more \in BOOLEAN
      BY DEF more
    <3> QED
      BY <1>1, <3>1, QueueRest
<1> HIDE DEF more
<1>10. /\ queue' \in Seq(Jobs)
       /\ (\E i \in 1 .. Len(queue) : Recasts(queue[i])) =>
            Recasts(Head(queue)) \/ \E i \in 1 .. Len(queue') : Recasts(queue'[i])
       /\ queue' = Append(Tail(queue), [do |-> "recast"]) =>
            \E i \in 1 .. Len(queue') : Recasts(queue'[i])
  BY <1>1, <1>9, QueueServes
<1>11. "service" \in Events!Ids /\ heard \in [Events!Ids -> {"STARTED", "STOPPED", "nothing"}]
  BY DEF EventsInv, EventType, Events!Ids, Events!Service
<1>12. heard' \in [Events!Ids -> {"STARTED", "STOPPED", "nothing"}]
  BY <1>1, <1>7, <1>11
<1>13. EventType'
  BY <1>1, <1>7, <1>10, <1>12 DEF EventsInv, EventType
<1>14. FirstInv'
  BY <1>1, <1>2 DEF EventsInv, FirstInv
<1>15. LifeInv'
  <2>1. \A i \in 1 .. Len(queue') : queue'[i].do = "register" /\ queue'[i].id \in Remote =>
             1 <= queue'[i].life /\ queue'[i].life <= life
    BY <1>1, <1>9, QueueLives
  <2> QED
    BY <1>1, <2>1 DEF EventsInv, LifeInv
<1>16. HeardInv'
  <2>1. \A i \in Events!Told : i \in 1 .. Len(observers) => heard'[observers[i].id] = e
    BY <1>1, ObserversAre
  <2>2. heard'["service"] = e
    BY <1>3, <1>4, <1>5, <2>1
  <2>3. ASSUME life = 1, up, NEW i \in 1 .. Len(observers) PROVE heard'[observers[i].id] = e
    <3>1. \A j \in 1 .. Len(observers) : ~Events!Dead(observers[j])
      BY <2>3, FirstLife
    <3>2. \A j \in 1 .. i : j \in 1 .. Len(observers)
      BY <1>2
    <3>3. i \in Events!Told
      BY <1>3, <3>1, <3>2 DEF Events!Told
    <3> QED
      BY <2>1, <3>3
  <2> QED
    BY <1>1, <2>2, <2>3 DEF HeardInv
<1>17. PullInv'
  <2>1. Events!Wanted' = Events!Wanted
    BY <1>1 DEF Events!Wanted, Events!Range
  <2>2. \A i \in 1 .. Len(observers) : Events!Dead(observers[i])' = Events!Dead(observers[i])
    BY <1>1 DEF Events!Dead
  <2>3. Recasts(Head(queue)) => e = "STARTED"
    BY <1>1 DEF Recasts, e
  <2>4. (\E i \in 1 .. Len(queue) : Recasts(queue[i])) =>
           \E i \in 1 .. Len(queue') : Recasts(queue'[i])
    BY <1>8, <1>9, <1>10, <2>3
  <2> QED
    BY <1>1, <2>1, <2>2, <2>4 DEF EventsInv, PullInv
<1> QED
  BY <1>13, <1>14, <1>15, <1>16, <1>17 DEF EventsInv

LEMMA ServeRecast == ASSUME EventsInv, Events!RecastEventRequirement PROVE EventsInv'
<1>1. /\ queue # <<>> /\ Head(queue).do = "recast" /\ queue' = Tail(queue)
      /\ pulled' = IF childRuns THEN Events!Wanted ELSE pulled
      /\ UNCHANGED <<observers, current, childRuns, life, up, linked, heard>>
  BY DEF Events!RecastEventRequirement, Events!Take
<1>2. observers # <<>>
  BY <1>1, AfterFirst
<1>3. queue' \in {Tail(queue), Append(Tail(queue), [do |-> "recast"])}
  BY <1>1
<1>4. queue' \in Seq(Jobs)
  BY <1>1, <1>3, QueueServes
<1>5. EventType'
  BY <1>1, <1>4 DEF EventsInv, EventType
<1>6. FirstInv' /\ HeardInv'
  BY <1>1, <1>2 DEF EventsInv, FirstInv, HeardInv
<1>7. LifeInv'
  <2>1. \A i \in 1 .. Len(queue') : queue'[i].do = "register" /\ queue'[i].id \in Remote =>
             1 <= queue'[i].life /\ queue'[i].life <= life
    BY <1>1, <1>3, QueueLives
  <2> QED
    BY <1>1, <2>1 DEF EventsInv, LifeInv
<1>8. PullInv'
  <2>1. Events!Wanted' = Events!Wanted
    BY <1>1 DEF Events!Wanted, Events!Range
  <2> QED
    BY <1>1, <2>1 DEF PullInv
<1> QED
  BY <1>5, <1>6, <1>7, <1>8 DEF EventsInv

LEMMA FunctionIsSeq ==
    ASSUME NEW S, NEW n \in Nat, NEW f \in [1 .. n -> S]
    PROVE  f \in Seq(S) /\ Len(f) = n
OBVIOUS

(* The observer that registers takes the place of its id, or the last.      *)
LEMMA Placed ==
    ASSUME EventsInv, NEW o \in Observers,
           observers' = IF o.id \notin Events!Known THEN Append(observers, o)
                        ELSE [i \in DOMAIN observers |->
                                IF observers[i].id = o.id THEN o ELSE observers[i]]
    PROVE  /\ observers' \in Seq(Observers) /\ observers' # <<>>
           /\ \A i \in 1 .. Len(observers') :
                observers'[i] = o \/ (i \in 1 .. Len(observers) /\ observers'[i] = observers[i])
           /\ \E i \in 1 .. Len(observers') : observers'[i] = o
           /\ observers # <<>> => observers'[1].id = observers[1].id
           /\ observers = <<>> => observers'[1] = o
           /\ o.id \in Events!Known =>
                \E i \in 1 .. Len(observers) : observers[i].id = o.id
<1>1. observers \in Seq(Observers) /\ Len(observers) \in Nat /\ DOMAIN observers = 1 .. Len(observers)
  <2>1. observers \in Seq(Observers)
    BY DEF EventsInv, EventType
  <2> QED
    BY <2>1, LenProperties
<1>2. observers # <<>> => 1 \in 1 .. Len(observers)
  BY <1>1, EmptySeq
<1>3. ASSUME o.id \notin Events!Known
      PROVE  /\ observers' \in Seq(Observers) /\ observers' # <<>>
             /\ \A i \in 1 .. Len(observers') :
                  observers'[i] = o \/ (i \in 1 .. Len(observers) /\ observers'[i] = observers[i])
             /\ \E i \in 1 .. Len(observers') : observers'[i] = o
             /\ observers # <<>> => observers'[1].id = observers[1].id
             /\ observers = <<>> => observers'[1] = o
  <2>1. /\ observers' \in Seq(Observers) /\ Len(observers') = Len(observers) + 1
        /\ \A i \in 1 .. Len(observers) : observers'[i] = observers[i]
        /\ observers'[Len(observers) + 1] = o
    <3> DEFINE s == Append(observers, o)
    <3>1. observers' = s
      BY <1>3
    <3>2. /\ s \in Seq(Observers) /\ Len(s) = Len(observers) + 1
          /\ \A i \in 1 .. Len(observers) : s[i] = observers[i]
          /\ s[Len(observers) + 1] = o
      BY <1>1, Put
    <3> HIDE DEF s
    <3> QED
      BY <3>1, <3>2
  <2>2. observers' # <<>>
    BY <1>1, <2>1
  <2>3. /\ \A i \in 1 .. Len(observers') : i \in 1 .. Len(observers) \/ i = Len(observers) + 1
        /\ Len(observers) + 1 \in 1 .. Len(observers')
    BY <1>1, <2>1
  <2>4. observers = <<>> => observers'[1] = o
    <3>1. observers = <<>> => Len(observers) = 0
      OBVIOUS
    <3> QED
      BY <2>1, <3>1
  <2>5. observers # <<>> => observers'[1].id = observers[1].id
    BY <1>2, <2>1
  <2>6. \A i \in 1 .. Len(observers') :
                  observers'[i] = o \/ (i \in 1 .. Len(observers) /\ observers'[i] = observers[i])
    BY <2>1, <2>3
  <2>7. \E i \in 1 .. Len(observers') : observers'[i] = o
    BY <2>1, <2>3
  <2> QED
    BY <2>1, <2>2, <2>4, <2>5, <2>6, <2>7
<1>4. ASSUME o.id \in Events!Known
      PROVE  \E i \in 1 .. Len(observers) : observers[i].id = o.id
  <2>1. PICK p \in Events!Range(observers) : o.id = p.id
    BY <1>4 DEF Events!Known
  <2>2. PICK i \in DOMAIN observers : p = observers[i]
    BY <2>1 DEF Events!Range
  <2> QED
    BY <1>1, <2>1, <2>2
<1>5. ASSUME o.id \in Events!Known
      PROVE  /\ observers' \in Seq(Observers) /\ observers' # <<>>
             /\ \A i \in 1 .. Len(observers') :
                  observers'[i] = o \/ (i \in 1 .. Len(observers) /\ observers'[i] = observers[i])
             /\ \E i \in 1 .. Len(observers') : observers'[i] = o
             /\ observers # <<>> => observers'[1].id = observers[1].id
             /\ observers # <<>>
  <2>1. observers' = [i \in 1 .. Len(observers) |->
                                IF observers[i].id = o.id THEN o ELSE observers[i]]
    BY <1>1, <1>5
  <2>2. PICK k \in 1 .. Len(observers) : observers[k].id = o.id
    BY <1>4, <1>5
  <2>3. \A i \in 1 .. Len(observers) : observers[i] \in Observers
    BY <1>1, ElementOfSeq
  <2>4. observers' \in [1 .. Len(observers) -> Observers]
    BY <2>1, <2>3
  <2>5. observers' \in Seq(Observers)
    BY <1>1, <2>4, FunctionIsSeq
  <2>6. Len(observers') = Len(observers)
    BY <1>1, <2>4, FunctionIsSeq
  <2>7. \A i \in 1 .. Len(observers) :
           observers'[i] = IF observers[i].id = o.id THEN o ELSE observers[i]
    BY <2>1
  <2>8. Len(observers) # 0 /\ 1 \in 1 .. Len(observers)
    BY <1>1, <2>2
  <2>9. observers # <<>> /\ observers' # <<>>
    BY <2>6, <2>8
  <2>10. \E i \in 1 .. Len(observers') : observers'[i] = o
    BY <2>2, <2>6, <2>7
  <2>11. observers'[1].id = observers[1].id
    BY <2>7, <2>8
  <2>12. \A i \in 1 .. Len(observers') :
           observers'[i] = o \/ (i \in 1 .. Len(observers) /\ observers'[i] = observers[i])
    BY <2>6, <2>7
  <2> QED
    BY <2>5, <2>9, <2>10, <2>11, <2>12
<1> QED
  BY <1>3, <1>4, <1>5

LEMMA ServeRegister == ASSUME EventsInv, Events!Register PROVE EventsInv'
<1> DEFINE job == Head(queue)
           o == [id |-> job.id, life |-> job.life, wants |-> job.wants]
           alive1 == ~Events!Dead(o)
<1>1. /\ queue # <<>> /\ job.do = "register"
      /\ observers' = IF o.id \notin Events!Known THEN Append(observers, o)
                      ELSE [i \in DOMAIN observers |->
                              IF observers[i].id = o.id THEN o ELSE observers[i]]
      /\ queue' = Tail(queue) \o (IF Events!Dead(o) THEN <<>> ELSE <<[do |-> "recast"]>>)
      /\ linked' = IF o.id \in Remote /\ ~Events!Dead(o)
                     THEN linked \cup {[id |-> o.id, life |-> o.life]} ELSE linked
      /\ heard' = IF o.id \notin Events!Known /\ ~Events!Dead(o)
                    THEN [heard EXCEPT ![o.id] = current] ELSE heard
      /\ UNCHANGED <<current, childRuns, pulled, life, up>>
  BY DEF Events!Register, Events!Take
<1>2. job \in Jobs /\ job = queue[1] /\ queue \in Seq(Jobs) /\ 1 \in 1 .. Len(queue)
  <2>1. queue \in Seq(Jobs)
    BY DEF EventsInv, EventType
  <2> QED
    BY <1>1, <2>1, Taken, EmptySeq
<1>3. job.id \in Events!Ids /\ job.life \in Nat /\ job.wants \in SUBSET (Wants \cup {"speed"})
  BY <1>1, <1>2, JobKinds
<1>4. job.id \in Remote => 1 <= job.life /\ job.life <= life
  BY <1>1, <1>2 DEF EventsInv, LifeInv
<1> HIDE DEF job
<1>5. o.id = job.id /\ o.life = job.life /\ o \in Observers
  BY <1>3 DEF Observers
<1> HIDE DEF o
<1>6. /\ observers' \in Seq(Observers) /\ observers' # <<>>
      /\ \A i \in 1 .. Len(observers') :
           observers'[i] = o \/ (i \in 1 .. Len(observers) /\ observers'[i] = observers[i])
      /\ \E i \in 1 .. Len(observers') : observers'[i] = o
      /\ observers # <<>> => observers'[1].id = observers[1].id
      /\ observers = <<>> => observers'[1] = o
      /\ o.id \in Events!Known =>
           \E i \in 1 .. Len(observers) : observers[i].id = o.id
  BY <1>1, <1>5, Placed
<1>7. queue' = Tail(queue) \o (IF alive1 THEN <<[do |-> "recast"]>> ELSE <<>>)
  BY <1>1
<1>8. /\ queue' \in {Tail(queue), Append(Tail(queue), [do |-> "recast"])}
      /\ alive1 => queue' = Append(Tail(queue), [do |-> "recast"])
  <2>1. alive1 \in BOOLEAN
    BY DEF Events!Dead
  <2> HIDE DEF alive1
  <2> QED
    BY <1>1, <1>7, <2>1, QueueRest
<1>9. /\ queue' \in Seq(Jobs)
      /\ queue' = Append(Tail(queue), [do |-> "recast"]) =>
            \E i \in 1 .. Len(queue') : Recasts(queue'[i])
  BY <1>1, <1>8, QueueServes
<1>10. /\ "service" \in Events!Ids /\ heard \in [Events!Ids -> {"STARTED", "STOPPED", "nothing"}]
       /\ current \in {"STARTED", "STOPPED"} /\ linked \subseteq [id : Remote, life : Nat]
  BY DEF EventsInv, EventType, Events!Ids, Events!Service
<1>11. heard' \in [Events!Ids -> {"STARTED", "STOPPED", "nothing"}]
  <2>1. CASE heard' = heard
    BY <1>10, <2>1
  <2>2. CASE heard' = [heard EXCEPT ![o.id] = current]
    BY <1>10, <2>2
  <2> QED
    BY <1>1, <2>1, <2>2
<1>12. linked' \subseteq [id : Remote, life : Nat]
  <2>1. CASE linked' = linked
    BY <1>10, <2>1
  <2>2. CASE o.id \in Remote /\ linked' = linked \cup {[id |-> o.id, life |-> o.life]}
    <3>1. [id |-> o.id, life |-> o.life] \in [id : Remote, life : Nat]
      BY <1>3, <1>5, <2>2
    <3> QED
      BY <1>10, <2>2, <3>1
  <2> QED
    BY <1>1, <2>1, <2>2
<1>13. EventType'
  BY <1>1, <1>6, <1>9, <1>11, <1>12 DEF EventsInv, EventType
<1>14. observers = <<>> => o.id = "service"
  BY <1>2, <1>5 DEF EventsInv, FirstInv
<1>15. FirstInv'
  BY <1>6, <1>14 DEF EventsInv, FirstInv
<1>16. LifeInv'
  <2>1. \A i \in 1 .. Len(queue') : queue'[i].do = "register" /\ queue'[i].id \in Remote =>
             1 <= queue'[i].life /\ queue'[i].life <= life
    BY <1>1, <1>8, QueueLives
  <2>2. ASSUME NEW i \in 1 .. Len(observers'), observers'[i].id \in Remote
        PROVE  1 <= observers'[i].life /\ observers'[i].life <= life
    BY <1>4, <1>5, <1>6, <2>2 DEF EventsInv, LifeInv
  <2> QED
    BY <1>1, <2>1, <2>2 DEF LifeInv
<1>17. ASSUME o.id \in Events!Known PROVE observers # <<>>
  <2>1. \E i \in 1 .. Len(observers) : TRUE
    BY <1>6, <1>17
  <2> QED
    BY <2>1
<1>18. HeardInv'
  <2>1. Events!Dead(o) => o.id # "service"
    BY ServiceAssumption DEF Events!Dead
  <2>2. heard'["service"] = current
    <3>1. CASE heard' = heard /\ observers # <<>>
      BY <3>1 DEF EventsInv, HeardInv
    <3>2. CASE heard' = [heard EXCEPT ![o.id] = current]
      <4>1. CASE o.id = "service"
        BY <1>10, <3>2, <4>1
      <4>2. CASE o.id # "service"
        <5>1. heard["service"] = current
          BY <1>14, <4>2 DEF EventsInv, HeardInv
        <5> QED
          BY <1>10, <3>2, <4>2, <5>1
      <4> QED
        BY <4>1, <4>2
    <3> QED
      BY <1>1, <1>14, <1>17, <2>1, <3>1, <3>2
  <2>3. ASSUME life = 1, up, NEW i \in 1 .. Len(observers')
        PROVE  heard'[observers'[i].id] = current
    <3>1. ~Events!Dead(o)
      BY <1>3, <1>4, <1>5, <2>3 DEF Events!Dead
    <3>2. \A k \in 1 .. Len(observers) : heard[observers[k].id] = current
                                         /\ observers[k].id \in Events!Ids
      BY <2>3, ObserversAre DEF EventsInv, HeardInv
    <3>3. CASE o.id \in Events!Known
      <4>1. heard' = heard
        BY <1>1, <3>3
      <4>2. heard[o.id] = current
        BY <1>6, <3>2, <3>3
      <4> QED
        BY <1>6, <3>2, <4>1, <4>2
    <3>4. CASE o.id \notin Events!Known
      <4>1. heard' = [heard EXCEPT ![o.id] = current]
        BY <1>1, <3>1, <3>4
      <4>2. observers'[i] = o => heard'[observers'[i].id] = current
        BY <1>3, <1>5, <1>10, <4>1
      <4>3. ASSUME i \in 1 .. Len(observers), observers'[i] = observers[i]
            PROVE  heard'[observers'[i].id] = current
        BY <1>10, <3>2, <4>1, <4>3
      <4> QED
        BY <1>6, <4>2, <4>3
    <3> QED
      BY <3>3, <3>4
  <2> QED
    BY <1>1, <2>2, <2>3 DEF HeardInv
<1>19. PullInv'
  <2>1. CASE Events!Dead(o)
    <3>1. PICK k \in 1 .. Len(observers') : observers'[k] = o
      BY <1>6
    <3>2. o.id \in Remote /\ (o.life < life \/ ~up)
      BY <2>1 DEF Events!Dead
    <3>3. observers'[k].id \in Remote /\ (observers'[k].life < life' \/ ~up')
      BY <1>1, <3>1, <3>2
    <3> QED
      BY <3>3 DEF PullInv, Events!Dead
  <2>2. CASE alive1
    BY <1>8, <1>9, <2>2 DEF PullInv
  <2> QED
    BY <2>1, <2>2
<1> QED
  BY <1>13, <1>15, <1>16, <1>18, <1>19 DEF EventsInv

(* What is left of a sequence that loses an element, but not its first.     *)
LEMMA RemovedOne ==
    ASSUME NEW S, NEW s \in Seq(S), NEW k \in 2 .. Len(s)
    PROVE  /\ Events!RemoveAt(s, k) \in Seq(S) /\ Events!RemoveAt(s, k) # <<>> /\ Events!RemoveAt(s, k)[1] = s[1]
           /\ \A i \in 1 .. Len(Events!RemoveAt(s, k)) :
                \E j \in 1 .. Len(s) : Events!RemoveAt(s, k)[i] = s[j]
<1> DEFINE a == SubSeq(s, 1, k - 1)
           b == SubSeq(s, k + 1, Len(s))
           r == Events!RemoveAt(s, k)
<1>1. Len(s) \in Nat /\ \A i \in 1 .. Len(s) : s[i] \in S
  BY LenProperties, ElementOfSeq
<1>2. /\ a \in Seq(S) /\ Len(a) = k - 1
      /\ \A i \in 1 .. k - 1 : a[i] = s[i]
  <2>1. \A i \in 1 .. k - 1 : s[i] \in S
    BY <1>1
  <2>2. /\ a \in Seq(S) /\ Len(a) = IF 1 <= k - 1 THEN (k - 1) - 1 + 1 ELSE 0
        /\ \A i \in 1 .. (k - 1) - 1 + 1 : a[i] = s[1 + i - 1]
    BY <1>1, <2>1, SubSeqProperties
  <2> HIDE DEF a
  <2> QED
    BY <1>1, <2>2
<1>3. /\ b \in Seq(S) /\ Len(b) = Len(s) - k
      /\ \A i \in 1 .. Len(s) - k : b[i] = s[k + i]
  <2>1. \A i \in k + 1 .. Len(s) : s[i] \in S
    BY <1>1
  <2>2. /\ b \in Seq(S) /\ Len(b) = IF k + 1 <= Len(s) THEN Len(s) - (k + 1) + 1 ELSE 0
        /\ \A i \in 1 .. Len(s) - (k + 1) + 1 : b[i] = s[(k + 1) + i - 1]
    BY <1>1, <2>1, SubSeqProperties
  <2> HIDE DEF b
  <2> QED
    BY <1>1, <2>2
<1>4. r = a \o b
  BY DEF Events!RemoveAt
<1> HIDE DEF a, b, r
<1>5. /\ r \in Seq(S) /\ Len(r) = Len(a) + Len(b)
      /\ \A i \in 1 .. Len(a) + Len(b) : r[i] = IF i <= Len(a) THEN a[i] ELSE b[i - Len(a)]
  BY <1>2, <1>3, <1>4, ConcatProperties
<1>6. r # <<>>
  BY <1>1, <1>2, <1>3, <1>5
<1>7. r[1] = s[1]
  <2>1. 1 \in 1 .. Len(a) + Len(b) /\ 1 <= Len(a) /\ 1 \in 1 .. k - 1
    BY <1>1, <1>2, <1>3
  <2> QED
    BY <1>2, <1>5, <2>1
<1>8. ASSUME NEW i \in 1 .. Len(r) PROVE \E j \in 1 .. Len(s) : r[i] = s[j]
  <2>1. CASE i <= Len(a)
    <3>1. i \in 1 .. k - 1 /\ i \in 1 .. Len(s) /\ i \in 1 .. Len(a) + Len(b)
      BY <1>1, <1>2, <1>3, <1>5, <2>1
    <3> QED
      BY <1>2, <1>5, <2>1, <3>1
  <2>2. CASE ~(i <= Len(a))
    <3>1. i - Len(a) \in 1 .. Len(s) - k /\ k + (i - Len(a)) \in 1 .. Len(s)
          /\ i \in 1 .. Len(a) + Len(b)
      BY <1>1, <1>2, <1>3, <1>5, <2>2
    <3>2. r[i] = b[i - Len(a)]
      BY <1>5, <2>2, <3>1
    <3>3. r[i] = s[k + (i - Len(a))]
      BY <1>3, <3>1, <3>2
    <3> QED
      BY <3>1, <3>3
  <2> QED
    BY <2>1, <2>2
<1> QED
  BY <1>5, <1>6, <1>7, <1>8 DEF r

LEMMA Removed ==
    ASSUME EventsInv, observers # <<>>, NEW id \in Events!Ids \ {"service"},
           observers' = Events!Without(id)
    PROVE  /\ observers' \in Seq(Observers) /\ observers' # <<>>
           /\ observers'[1] = observers[1]
           /\ \A i \in 1 .. Len(observers') :
                \E j \in 1 .. Len(observers) : observers'[i] = observers[j]
<1>1. observers \in Seq(Observers) /\ Len(observers) \in Nat
      /\ DOMAIN observers = 1 .. Len(observers)
  <2>1. observers \in Seq(Observers)
    BY DEF EventsInv, EventType
  <2> QED
    BY <2>1, LenProperties
<1>2. CASE id \notin Events!Known
  <2>1. observers' = observers
    BY <1>2 DEF Events!Without
  <2> QED
    BY <1>1, <2>1
<1>3. CASE id \in Events!Known
  <2> DEFINE k == CHOOSE i \in DOMAIN observers : observers[i].id = id
             r == Events!RemoveAt(observers, k)
  <2>1. \E i \in DOMAIN observers : observers[i].id = id
    <3>1. PICK p \in Events!Range(observers) : id = p.id
      BY <1>3 DEF Events!Known
    <3>2. PICK i \in DOMAIN observers : p = observers[i]
      BY <3>1 DEF Events!Range
    <3> QED
      BY <3>1, <3>2
  <2>2. k \in DOMAIN observers /\ observers[k].id = id
    BY <2>1
  <2>3. observers' = r
    BY <1>3 DEF Events!Without, Events!RemoveAt
  <2> HIDE DEF k
  <2>4. k # 1
    BY <2>2 DEF EventsInv, FirstInv
  <2>5. k \in 2 .. Len(observers)
    BY <1>1, <2>2, <2>4
  <2>6. /\ r \in Seq(Observers) /\ r # <<>> /\ r[1] = observers[1]
        /\ \A i \in 1 .. Len(r) : \E j \in 1 .. Len(observers) : r[i] = observers[j]
    BY <1>1, <2>5, RemovedOne
  <2> HIDE DEF r
  <2> QED
    BY <2>3, <2>6
<1> QED
  BY <1>2, <1>3

LEMMA ServeUnregister == ASSUME EventsInv, Events!Unregister PROVE EventsInv'
<1> DEFINE id == Head(queue).id
<1>1. /\ queue # <<>> /\ Head(queue).do = "unregister"
      /\ observers' = Events!Without(id)
      /\ queue' = Append(Tail(queue), [do |-> "recast"])
      /\ UNCHANGED <<current, childRuns, pulled, life, up, linked, heard>>
  BY DEF Events!Unregister, Events!Take
<1>2. observers # <<>>
  <2>1. Head(queue).do # "register"
    BY <1>1
  <2> QED
    BY <1>1, <2>1, AfterFirst
<1>3. id \in Events!Ids \ {"service"}
  <2>1. Head(queue) \in Jobs
    BY <1>1, Taken DEF EventsInv, EventType
  <2> QED
    BY <1>1, <2>1, JobKinds
<1> HIDE DEF id
<1>4. /\ observers' \in Seq(Observers) /\ observers' # <<>>
      /\ observers'[1] = observers[1]
      /\ \A i \in 1 .. Len(observers') :
           \E j \in 1 .. Len(observers) : observers'[i] = observers[j]
  BY <1>1, <1>2, <1>3, Removed
<1>5. queue' \in {Tail(queue), Append(Tail(queue), [do |-> "recast"])}
  BY <1>1
<1>6. queue' \in Seq(Jobs) /\ \E i \in 1 .. Len(queue') : Recasts(queue'[i])
  BY <1>1, <1>5, QueueServes
<1>7. EventType'
  BY <1>1, <1>4, <1>6 DEF EventsInv, EventType
<1>8. FirstInv'
  BY <1>2, <1>4 DEF EventsInv, FirstInv
<1>9. LifeInv'
  <2>1. \A i \in 1 .. Len(queue') : queue'[i].do = "register" /\ queue'[i].id \in Remote =>
             1 <= queue'[i].life /\ queue'[i].life <= life
    BY <1>1, <1>5, QueueLives
  <2>2. ASSUME NEW i \in 1 .. Len(observers'), observers'[i].id \in Remote
        PROVE  1 <= observers'[i].life /\ observers'[i].life <= life
    <3>1. PICK j \in 1 .. Len(observers) : observers'[i] = observers[j]
      BY <1>4
    <3> QED
      BY <2>2, <3>1 DEF EventsInv, LifeInv
  <2> QED
    BY <1>1, <2>1, <2>2 DEF LifeInv
<1>10. HeardInv'
  <2>1. heard["service"] = current
    BY <1>2 DEF EventsInv, HeardInv
  <2>2. ASSUME life = 1, up, NEW i \in 1 .. Len(observers')
        PROVE  heard[observers'[i].id] = current
    <3>1. PICK j \in 1 .. Len(observers) : observers'[i] = observers[j]
      BY <1>4
    <3> QED
      BY <2>2, <3>1 DEF EventsInv, HeardInv
  <2> QED
    BY <1>1, <2>1, <2>2 DEF HeardInv
<1>11. PullInv'
  BY <1>6 DEF PullInv
<1> QED
  BY <1>7, <1>8, <1>9, <1>10, <1>11 DEF EventsInv

LEMMA EventsStep == EventsInv /\ [StoreNext]_allVars => EventsInv'
<1> SUFFICES ASSUME EventsInv, [StoreNext]_allVars PROVE EventsInv'
  OBVIOUS
<1>1. CASE UNCHANGED eventVars
  <2>1. UNCHANGED <<observers, current, queue, childRuns, pulled, life, up, linked, heard>>
    BY <1>1 DEF eventVars
  <2>2. Events!Wanted' = Events!Wanted
    BY <2>1 DEF Events!Wanted, Events!Range
  <2>3. EventType' /\ FirstInv' /\ LifeInv' /\ HeardInv'
    BY <2>1 DEF EventsInv, EventType, FirstInv, LifeInv, HeardInv
  <2>4. PullInv'
    BY <2>1, <2>2 DEF EventsInv, PullInv, Events!Dead
  <2> QED
    BY <2>3, <2>4 DEF EventsInv
<1>2. CASE Events!Next
  <2>1. CASE \/ \E id \in Events!Ids, w \in SUBSET Wants : Events!RegisterEventObserver(id, w)
             \/ \E id \in Events!Ids \ {"service"} : Events!UnregisterEventObserver(id)
             \/ Events!PerformProcessEvent
             \/ \E link \in linked : Events!BinderDied(link)
    BY <2>1, CallStep
  <2>2. CASE Events!UiDies \/ Events!UiReturns
    BY <2>2, UiStep
  <2>3. CASE Events!Handle
    BY <2>3, ServeEvent, ServeRegister, ServeUnregister, ServeRecast DEF Events!Handle
  <2> QED
    BY <1>2, <2>1, <2>2, <2>3 DEF Events!Next, Events!Service
<1> QED
  BY <1>1, <1>2 DEF StoreNext, Store, Event, OnScreen, Provide, allVars

LEMMA EventsSettle == EventsInv => ObserversSettle
<1> SUFFICES ASSUME EventsInv, queue = <<>>
             PROVE  /\ heard["service"] = current
                    /\ life = 1 /\ up =>
                         \A o \in Events!Range(observers) : heard[o.id] = current
                    /\ childRuns /\ (\A o \in Events!Range(observers) : ~Events!Dead(o)) =>
                         pulled = Events!Wanted
  BY DEF ObserversSettle, Events!Settled, Events!Service
<1>1. observers # <<>>
  BY DEF EventsInv, FirstInv
<1>2. DOMAIN observers = 1 .. Len(observers)
  <2>1. observers \in Seq(Observers)
    BY DEF EventsInv, EventType
  <2> QED
    BY <2>1, LenProperties
<1>3. heard["service"] = current
  BY <1>1 DEF EventsInv, HeardInv
<1>4. ASSUME life = 1, up, NEW o \in Events!Range(observers) PROVE heard[o.id] = current
  <2>1. PICK i \in 1 .. Len(observers) : o = observers[i]
    BY <1>2, <1>4 DEF Events!Range
  <2> QED
    BY <1>4, <2>1 DEF EventsInv, HeardInv
<1>5. ASSUME childRuns, \A o \in Events!Range(observers) : ~Events!Dead(o)
      PROVE  pulled = Events!Wanted
  <2>1. \A i \in 1 .. Len(observers) : observers[i] \in Events!Range(observers)
    BY <1>2 DEF Events!Range
  <2>2. \A i \in 1 .. Len(observers) : ~Events!Dead(observers[i])
    BY <1>5, <2>1
  <2>3. ~\E i \in 1 .. Len(queue) : Recasts(queue[i])
    OBVIOUS
  <2> QED
    BY <1>5, <2>2, <2>3 DEF EventsInv, PullInv
<1> QED
  BY <1>3, <1>4, <1>5

(* Whoever registers, leaves or dies, and however often the child changes:  *)
(* once the tasks of ClashEventService.kt are worked off, the service knows *)
(* the last event, so does everybody in the first life of the user          *)
(* interface, and exactly the streams that living observers want are pulled.*)
THEOREM EventObserversSettle == StoreSpec => []ObserversSettle
<1>1. StoreInit => EventsInv
  BY EventStart DEF StoreInit
<1> QED
  BY <1>1, EventsStep, EventsSettle, PTL DEF StoreSpec
==============================================================================
