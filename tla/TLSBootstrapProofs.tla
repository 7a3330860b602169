------------------------- MODULE TLSBootstrapProofs -------------------------
(***************************************************************************)
(* Proofs about TLSBootstrap, for every set of profiles and policies and   *)
(* every number of edits and faults.                                       *)
(***************************************************************************)
EXTENDS TLSBootstrap, TLAPS

(* Neither invariant is inductive as it stands: both need what the process  *)
(* carries from its bootstrap read to the watcher.                          *)

(* The settings the bootstrap read, as the watcher compares them.           *)
LoadedSettings == [spec |-> load.spec, policy |-> load.policy]

(* The watcher of a process compares with what this process loaded, it has  *)
(* events only while it exists, and the servers use what was loaded.        *)
WatcherFollowsLoad ==
    /\ pc \notin {"running", "stopping"} => watched = {}
    /\ watched # {} => watched = {LoadedSettings} /\ load.watchable
    /\ pending => watched # {}
    /\ pc \in {"setup", "running", "stopping"} => served = Effective(load)

(* A watcher with nothing left to look at has seen the object as it is.     *)
WatcherUpToDate ==
    pc = "running" /\ watched # {} /\ ~pending /\ cluster.present =>
        Resolve(cluster) \subseteq watched

WatchInv == WatcherFollowsLoad /\ WatcherUpToDate

(* The process has settings that are not the cluster's: the watcher will    *)
(* ask for a restart, which an edit or a failed read since the load pays.   *)
Drifted ==
    /\ pc \in {"options", "setup", "running"}
    /\ load.watchable /\ cluster.present
    /\ Resolve(cluster) \ {LoadedSettings} # {}

RestartsPaid == restarts + (IF Drifted THEN 1 ELSE 0) <= edits + faults

-----------------------------------------------------------------------------
(* A fallback is a well-formed result of the bootstrap read.                *)
LEMMA FallbackType == ASSUME NEW w \in BOOLEAN PROVE Fallback(w) \in Loads
BY TLSAssumption DEF Fallback, Loads

(* The object holds at most one setting, and a setting of the right type.   *)
LEMMA ResolveFacts ==
    ASSUME NEW c \in APIServers
    PROVE  /\ Resolve(c) \subseteq Settings
           /\ \A s, t \in Resolve(c) : s = t
BY TLSAssumption DEF APIServers, Resolve, Settings

(* Whatever a process loaded, it knows a profile to serve with.             *)
LEMMA EffectiveType ==
    ASSUME NEW l \in Loads PROVE Effective(l) \in Profiles
BY TLSAssumption DEF Loads, Effective

(* Settings that agree make a process serve with the same profile.          *)
LEMMA SameSettingsServeAlike ==
    ASSUME NEW s \in {LoadedSettings} PROVE Effective(s) = Effective(load)
BY DEF LoadedSettings, Effective

(* Every step keeps the types.                                              *)
LEMMA TypeOKStep == TypeOK /\ [Next]_vars => TypeOK'
<1> SUFFICES ASSUME TypeOK, [Next]_vars PROVE TypeOK'
  OBVIOUS
<1> USE TLSAssumption
<1>0. NoLoad \in Loads /\ Fallback(TRUE) \in Loads /\ Fallback(FALSE) \in Loads
  BY FallbackType DEF NoLoad
<1>e. ASSUME Exit PROVE
        /\ pc' \in PCs /\ load' \in Loads /\ pending' \in BOOLEAN
        /\ served' \in (Profiles \ Unusable) \cup {None}
        /\ watched' \in SUBSET Settings
  BY <1>0, <1>e DEF Exit, PCs
<1>f. Fault => faults' \in 0..MaxFaults
  BY DEF TypeOK, Fault
<1>1. CASE Start
  BY <1>1 DEF TypeOK, Start, PCs
<1>2. CASE LoadWithAdherence
  <2>1. ASSUME NEW s \in Resolve(cluster)
        PROVE  [spec |-> s.spec, policy |-> s.policy, fallback |-> FALSE,
                watchable |-> TRUE] \in Loads
    BY ResolveFacts DEF TypeOK, Settings, Loads
  <2>2. QED
    BY <1>0, <1>2, <1>e, <2>1 DEF TypeOK, LoadWithAdherence, PCs
<1>3. CASE LoadFails
  BY <1>0, <1>3, <1>e, <1>f DEF TypeOK, LoadFails, PCs
<1>4. CASE managerTLSOptions
  <2>1. ConfigFromProfile(Effective(load)) \subseteq Profiles \ Unusable
    BY EffectiveType DEF TypeOK, ConfigFromProfile
  <2>2. QED
    BY <1>4, <1>e, <2>1 DEF TypeOK, managerTLSOptions, PCs
<1>5. CASE StartManager
  <2>1. newTLSProfileWatcher(load) \in Settings
    BY DEF TypeOK, newTLSProfileWatcher, Loads, Settings
  <2>2. QED
    BY <1>5, <2>1 DEF TypeOK, StartManager, registerTLSProfileWatcher, PCs
<1>6. CASE ProfileEvent
  <2>1. pc' \in PCs
    BY <1>6 DEF TypeOK, ProfileEvent, PCs
  <2>2. restarts' \in Nat
    BY <1>6 DEF TypeOK, ProfileEvent
  <2>3. QED
    BY <1>6, <2>1, <2>2 DEF TypeOK, ProfileEvent
<1>7. CASE Shutdown
  BY <1>7, <1>e DEF TypeOK, Shutdown
<1>8. CASE ProcessDies
  BY <1>8, <1>e, <1>f DEF TypeOK, ProcessDies
<1>9. ASSUME NEW c \in APIServers, AdminEdits(c) PROVE TypeOK'
  BY <1>9 DEF TypeOK, AdminEdits, Edit
<1>10. CASE UNCHANGED vars
  BY <1>10 DEF TypeOK, vars, proc
<1>11. QED
  BY <1>1, <1>2, <1>3, <1>4, <1>5, <1>6, <1>7, <1>8, <1>9, <1>10
     DEF Next, Process

(* Every behaviour is well-typed: in particular no process ever serves with *)
(* a profile none of whose ciphers Go supports, it exits instead.           *)
THEOREM TLSTypeCorrect == Spec => []TypeOK
<1>1. Init => TypeOK
  <2>1. NoLoad \in Loads
    BY FallbackType DEF NoLoad
  <2>2. 0 \in Nat /\ 0 \in 0..MaxEdits /\ 0 \in 0..MaxFaults
    BY TLSAssumption
  <2>3. QED
    BY <2>1, <2>2 DEF Init, TypeOK, PCs
<1>2. QED
  BY <1>1, TypeOKStep, PTL DEF Spec

-----------------------------------------------------------------------------
(* No change of the settings is missed.                                     *)

(* A process that ends leaves no watcher behind.                            *)
LEMMA ExitKeepsWatch == ASSUME Exit PROVE WatchInv'
BY DEF Exit, WatchInv, WatcherFollowsLoad, WatcherUpToDate

(* Every step keeps the watcher in line with what the process loaded.       *)
LEMMA WatchInvStep == TypeOK /\ WatchInv /\ [Next]_vars => WatchInv'
<1> SUFFICES ASSUME TypeOK, WatchInv, [Next]_vars PROVE WatchInv'
  OBVIOUS
<1> USE DEF WatchInv, WatcherFollowsLoad, WatcherUpToDate, LoadedSettings
<1>1. CASE Start
  BY <1>1 DEF Start
<1>2. CASE LoadWithAdherence
  <2>1. Exit \/ (pc' = "options" /\ UNCHANGED <<served, watched, pending>>)
    BY <1>2 DEF LoadWithAdherence
  <2>2. QED
    BY <1>2, <2>1, ExitKeepsWatch DEF LoadWithAdherence
<1>3. CASE LoadFails
  <2>1. Exit \/ (pc' = "options" /\ UNCHANGED <<served, watched, pending>>)
    BY <1>3 DEF LoadFails
  <2>2. QED
    BY <1>3, <2>1, ExitKeepsWatch DEF LoadFails
<1>4. CASE managerTLSOptions
  BY <1>4, ExitKeepsWatch DEF managerTLSOptions, ConfigFromProfile, Effective
<1>5. CASE StartManager
  BY <1>5 DEF StartManager, registerTLSProfileWatcher, newTLSProfileWatcher,
     Watches, Effective
<1>6. CASE ProfileEvent
  <2>1. UNCHANGED <<cluster, load, served, watched>> /\ pending' = FALSE
    BY <1>6 DEF ProfileEvent
  <2>2. pc' = "running" /\ cluster.present => Resolve(cluster) \subseteq watched
    BY <1>6 DEF ProfileEvent
  <2>3. pc = "running" /\ pc' \in {"running", "stopping"}
    BY <1>6 DEF ProfileEvent
  <2>4. Resolve(cluster)' = Resolve(cluster) /\ Effective(load)' = Effective(load)
    BY <2>1
  <2>5. QED
    BY <2>1, <2>2, <2>3, <2>4
<1>7. CASE Shutdown \/ ProcessDies
  BY <1>7, ExitKeepsWatch DEF Shutdown, ProcessDies
<1>8. ASSUME NEW c \in APIServers, AdminEdits(c) PROVE WatchInv'
  BY <1>8 DEF AdminEdits, Effective
<1>9. CASE UNCHANGED vars
  BY <1>9 DEF vars, proc, Effective, Resolve
<1>10. QED
  BY <1>1, <1>2, <1>3, <1>4, <1>5, <1>6, <1>7, <1>8, <1>9 DEF Next, Process

(* Every behaviour keeps the watcher in line with the load.                 *)
LEMMA WatchInvAlways == Spec => []WatchInv
<1>1. Init => WatchInv
  BY DEF Init, WatchInv, WatcherFollowsLoad, WatcherUpToDate
<1>2. QED
  BY <1>1, WatchInvStep, TLSTypeCorrect, PTL DEF Spec

(* A process whose watcher has nothing left to look at serves with what the *)
(* cluster asks for now, for all profiles, policies and edits: the watcher  *)
(* starts from the bootstrap's read, so nothing falls between the two.      *)
THEOREM ServesProfile == Spec => []ServesClusterProfile
<1>1. WatchInv => ServesClusterProfile
  <2> SUFFICES ASSUME WatchInv, pc = "running", watched # {}, ~pending,
                      cluster.present, NEW s \in Resolve(cluster)
               PROVE  served = Effective(s)
    BY DEF ServesClusterProfile
  <2>1. s \in {LoadedSettings}
    BY DEF WatchInv, WatcherFollowsLoad, WatcherUpToDate
  <2>2. served = Effective(load)
    BY DEF WatchInv, WatcherFollowsLoad
  <2>3. QED
    BY <2>1, <2>2, SameSettingsServeAlike
<1>2. QED
  BY <1>1, WatchInvAlways, PTL

-----------------------------------------------------------------------------
(* No restart loop.                                                         *)

(* Every restart the watcher asks for, or is about to, has been paid for.   *)
LEMMA RestartsPaidStep ==
    TypeOK /\ WatchInv /\ RestartsPaid /\ [Next]_vars => RestartsPaid'
<1> SUFFICES ASSUME TypeOK, WatchInv, RestartsPaid, [Next]_vars
             PROVE  RestartsPaid'
  OBVIOUS
<1>0. restarts \in Nat /\ edits \in Nat /\ faults \in Nat
  BY TLSAssumption DEF TypeOK
<1>1. ASSUME UNCHANGED <<restarts, edits, faults>>, Drifted' => Drifted
      PROVE  RestartsPaid'
  BY <1>0, <1>1 DEF RestartsPaid
<1>2. ASSUME restarts' = restarts,
             \/ edits' = edits + 1 /\ faults' = faults
             \/ edits' = edits /\ faults' = faults + 1
      PROVE  RestartsPaid'
  <2>1. restarts <= edits + faults
    BY <1>0 DEF RestartsPaid
  <2>2. restarts' + 1 <= edits' + faults' /\ restarts' + 0 <= edits' + faults'
    BY <1>0, <1>2, <2>1
  <2>3. QED
    BY <2>2 DEF RestartsPaid
<1>3. CASE Start
  BY <1>1, <1>3 DEF Start, Drifted
<1>4. CASE LoadWithAdherence
  <2>1. ~Drifted'
    BY <1>4, ResolveFacts DEF LoadWithAdherence, Drifted, LoadedSettings, Exit,
       Fallback, TypeOK, Settings
  <2>2. QED
    BY <1>1, <1>4, <2>1 DEF LoadWithAdherence
<1>5. CASE LoadFails \/ ProcessDies
  <2>1. UNCHANGED <<restarts, edits>> /\ faults' = faults + 1
    BY <1>5 DEF LoadFails, ProcessDies, Fault
  <2>2. QED
    BY <1>0, <1>2, <2>1
<1>6. CASE managerTLSOptions
  BY <1>1, <1>6 DEF managerTLSOptions, Drifted, LoadedSettings, Exit
<1>7. CASE StartManager
  BY <1>1, <1>7 DEF StartManager, Drifted, LoadedSettings
<1>8. CASE ProfileEvent
  <2>1. CASE pc' = "stopping"
    <3>1. Drifted /\ ~Drifted'
      BY <1>8, <2>1 DEF ProfileEvent, Drifted, WatchInv, WatcherFollowsLoad
    <3>2. restarts' = restarts + 1 /\ UNCHANGED <<edits, faults>>
      BY <1>8, <2>1 DEF ProfileEvent
    <3>3. QED
      BY <1>0, <3>1, <3>2 DEF RestartsPaid
  <2>2. CASE pc' # "stopping"
    BY <1>1, <1>8, <2>2 DEF ProfileEvent, Drifted, LoadedSettings
  <2>3. QED
    BY <2>1, <2>2
<1>9. CASE Shutdown
  BY <1>1, <1>9 DEF Shutdown, Exit, Drifted
<1>10. ASSUME NEW c \in APIServers, AdminEdits(c) PROVE RestartsPaid'
  BY <1>0, <1>2, <1>10 DEF AdminEdits, Edit
<1>11. CASE UNCHANGED vars
  BY <1>1, <1>11 DEF vars, proc, Drifted, LoadedSettings
<1>12. QED
  BY <1>3, <1>4, <1>5, <1>6, <1>7, <1>8, <1>9, <1>10, <1>11 DEF Next, Process

(* There is no restart loop, for any number of edits and faults: a process  *)
(* that finds nothing changed since its read is never asked to stop.        *)
THEOREM RestartsEarned == Spec => []RestartsAreEarned
<1>1. Init => RestartsPaid
  BY DEF Init, RestartsPaid, Drifted
<1>2. TypeOK /\ RestartsPaid => RestartsAreEarned
  <2> SUFFICES ASSUME TypeOK, RestartsPaid PROVE RestartsAreEarned
    OBVIOUS
  <2>1. restarts \in Nat /\ edits \in Nat /\ faults \in Nat
    BY TLSAssumption DEF TypeOK
  <2>2. QED
    BY <2>1 DEF RestartsPaid, RestartsAreEarned
<1>3. QED
  BY <1>1, <1>2, RestartsPaidStep, WatchInvAlways, TLSTypeCorrect, PTL DEF Spec
=============================================================================
