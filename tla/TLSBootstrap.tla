---------------------------- MODULE TLSBootstrap ----------------------------
(***************************************************************************)
(* One manager process after another: each reads the cluster's TLS profile *)
(* and adherence policy before it serves, serves with what it read or with *)
(* a fallback, and is restarted by a watcher when the settings are not the *)
(* ones it started with. The settings may change at any time, also between *)
(* the read and the start of the watcher.                                  *)
(***************************************************************************)
EXTENDS Integers, FiniteSets

CONSTANTS
    Profiles,      \* values of spec.tlsSecurityProfile
    Intermediate,  \* the default profile
    Unreadable,    \* profiles of unknown type, or Custom without a spec
    Unusable,      \* profiles none of whose ciphers Go supports
    Policies,      \* values of spec.tlsAdherence
    Honoring,      \* policies under which the cluster profile is used
    Unset,         \* the policy that is not set
    None,          \* no profile
    MaxEdits,      \* bound: changes of the APIServer object
    MaxFaults      \* bound: API errors at boot, crashes

ASSUME TLSAssumption ==
    /\ Intermediate \in Profiles /\ None \notin Profiles
    /\ Unreadable \subseteq Profiles \ {Intermediate}
    /\ Unusable \subseteq Profiles \ {Intermediate}
    /\ Honoring \subseteq Policies /\ Unset \in Policies \ Honoring
    /\ MaxEdits \in Nat /\ MaxFaults \in Nat

VARIABLES
    cluster,  \* the APIServer object "cluster"
    pc,       \* how far the process has come
    load,     \* its LoadResult
    served,   \* the profile of its metrics and webhook servers
    watched,  \* what the watcher compares with; empty: no watcher
    pending,  \* has the watcher an event to look at?
    restarts, \* history: shutdowns the watcher asked for
    edits, faults

proc == <<pc, load, served, watched, pending>>
vars == <<cluster, proc, restarts, edits, faults>>

Settings  == [spec: Profiles, policy: Policies]
APIServers == [present: BOOLEAN, profile: Profiles, policy: Policies]
Loads     == [spec: Profiles, policy: Policies, fallback: BOOLEAN,
              watchable: BOOLEAN]
PCs       == {"down", "load", "options", "setup", "running", "stopping"}

Fallback(watchable) == [spec |-> Intermediate, policy |-> Unset,
                        fallback |-> TRUE, watchable |-> watchable]
NoLoad == Fallback(FALSE)

Init ==
    /\ cluster \in APIServers
    /\ pc = "down" /\ load = NoLoad /\ served = None
    /\ watched = {} /\ pending = FALSE
    /\ restarts = 0 /\ edits = 0 /\ faults = 0

Edit  == edits < MaxEdits /\ edits' = edits + 1
Fault == faults < MaxFaults /\ faults' = faults + 1

Exit ==
    /\ pc' = "down" /\ load' = NoLoad /\ served' = None
    /\ watched' = {} /\ pending' = FALSE

-----------------------------------------------------------------------------
(* An administrator sets, creates or removes the APIServer object.          *)
AdminEdits(c) ==
    /\ Edit /\ c # cluster
    /\ cluster' = c
    /\ pending' = (pending \/ watched # {})
    /\ UNCHANGED <<pc, load, served, watched, restarts, faults>>

ShouldHonorClusterTLSProfile(policy) == policy \in Honoring

(* What loader and watcher make of the object: the set of settings it       *)
(* holds, empty when the profile cannot be read. Without adherence such a   *)
(* profile is no error.                                                     *)
Resolve(c) ==
    {[spec |-> p, policy |-> c.policy] :
        p \in IF c.profile \notin Unreadable THEN {c.profile}
              ELSE IF ShouldHonorClusterTLSProfile(c.policy) THEN {}
              ELSE {Intermediate}}

-----------------------------------------------------------------------------
(* The kubelet starts the process again, whatever ended it.                 *)
Start ==
    /\ pc = "down" /\ pc' = "load"
    /\ UNCHANGED <<cluster, load, served, watched, pending, restarts, edits, faults>>

LoadWithAdherence ==
    /\ pc = "load"
    /\ \/ /\ cluster.present
          /\ \E s \in Resolve(cluster) :
                load' = [spec |-> s.spec, policy |-> s.policy,
                         fallback |-> FALSE, watchable |-> TRUE]
          /\ pc' = "options" /\ UNCHANGED <<served, watched, pending>>
       \/ /\ cluster.present /\ Resolve(cluster) = {}
          /\ Exit
       \/ /\ ~cluster.present
          /\ load' = Fallback(FALSE)
          /\ pc' = "options" /\ UNCHANGED <<served, watched, pending>>
    /\ UNCHANGED <<cluster, restarts, edits, faults>>

(* A transient error, a deadline included, is answered with the fallback,   *)
(* any other one with an exit.                                              *)
LoadFails ==
    /\ pc = "load"
    /\ Fault
    /\ \/ /\ load' = Fallback(TRUE)
          /\ pc' = "options" /\ UNCHANGED <<served, watched, pending>>
       \/ Exit
    /\ UNCHANGED <<cluster, restarts, edits>>

(* The profile a process with these settings serves with.                   *)
Effective(s) == IF ShouldHonorClusterTLSProfile(s.policy) THEN s.spec
                ELSE Intermediate

(* Mutant: a profile without usable ciphers is no error.                     *)
ConfigFromProfileAny(p) == {p}

ConfigFromProfile(p) == {p} \ Unusable

managerTLSOptions ==
    /\ pc = "options"
    /\ \/ /\ served' \in ConfigFromProfile(Effective(load))
          /\ pc' = "setup" /\ UNCHANGED <<load, watched, pending>>
       \/ /\ ConfigFromProfile(Effective(load)) = {}
          /\ Exit
    /\ UNCHANGED <<cluster, restarts, edits, faults>>

(* Mutants: the watcher starts from the settings as they are when it is      *)
(* made; from the profile that is served.                                   *)
newTLSProfileWatcherLate(l) ==
    IF ~cluster.present \/ Resolve(cluster) = {}
    THEN [spec |-> l.spec, policy |-> l.policy]
    ELSE CHOOSE s \in Resolve(cluster) : TRUE
newTLSProfileWatcherServed(l) == [spec |-> Effective(l), policy |-> l.policy]

(* The watcher starts from what the bootstrap read.                         *)
newTLSProfileWatcher(l) == [spec |-> l.spec, policy |-> l.policy]

(* Mutant: no watcher after a fallback.                                      *)
WatchesUnlessFallback(l) == l.watchable /\ ~l.fallback

Watches(l) == l.watchable

(* The informer of the watcher lists the object first.                      *)
registerTLSProfileWatcher ==
    watched' = {newTLSProfileWatcher(load)} /\ pending' = TRUE

(* Manager, controllers and health checks are set up, the watcher is        *)
(* registered if there is something to watch, and the manager started.      *)
StartManager ==
    /\ pc = "setup" /\ pc' = "running"
    /\ \/ Watches(load) /\ registerTLSProfileWatcher
       \/ ~Watches(load) /\ watched' = {} /\ pending' = FALSE
    /\ UNCHANGED <<cluster, load, served, restarts, edits, faults>>

(* The watcher looks at the object. OnProfileChange and                     *)
(* OnAdherencePolicyChange both cancel the manager's context.               *)
ProfileEvent ==
    /\ pc = "running" /\ pending
    /\ pending' = FALSE
    /\ IF cluster.present /\ Resolve(cluster) \ watched # {}
       THEN pc' = "stopping" /\ restarts' = restarts + 1
       ELSE UNCHANGED <<pc, restarts>>
    /\ UNCHANGED <<cluster, load, served, watched, edits, faults>>

(* mgr.Start returns after its runnables have stopped; main ends.           *)
Shutdown ==
    /\ pc = "stopping" /\ Exit
    /\ UNCHANGED <<cluster, restarts, edits, faults>>

(* An os.Exit(1) of the setup, a lost lease, a crash.                       *)
ProcessDies ==
    /\ pc \in {"options", "setup", "running", "stopping"}
    /\ Fault /\ Exit
    /\ UNCHANGED <<cluster, restarts, edits>>

Process ==
    \/ Start \/ LoadWithAdherence \/ managerTLSOptions \/ StartManager
    \/ ProfileEvent \/ Shutdown

Next ==
    \/ Process
    \/ \E c \in APIServers : AdminEdits(c)
    \/ LoadFails \/ ProcessDies

(* The kubelet restarts the container, the process runs on, and the watch   *)
(* delivers; edits and faults need not happen.                              *)
Spec == Init /\ [][Next]_vars
FairSpec == Spec /\ WF_vars(Process)

-----------------------------------------------------------------------------
(* Every variable stays in its domain. In particular a process that cannot  *)
(* use the profile refuses to start instead of serving with it.             *)
TypeOK ==
    /\ cluster \in APIServers
    /\ pc \in PCs /\ load \in Loads
    /\ served \in (Profiles \ Unusable) \cup {None}
    /\ watched \in SUBSET Settings
    /\ pending \in BOOLEAN
    /\ restarts \in Nat /\ edits \in 0..MaxEdits /\ faults \in 0..MaxFaults

(* No change of the settings is missed: a process whose watcher has nothing *)
(* left to look at serves with what the cluster asks for now, although the  *)
(* settings may have changed since the bootstrap read, before the watcher   *)
(* existed, or the read may have failed.                                    *)
ServesClusterProfile ==
    pc = "running" /\ watched # {} /\ ~pending /\ cluster.present =>
        \A s \in Resolve(cluster) : served = Effective(s)

(* No restart loop: each shutdown the watcher asks for is paid for by a     *)
(* change of the settings or a failed read, also when the profile served is *)
(* not the cluster's or the object comes and goes.                          *)
RestartsAreEarned == restarts <= edits + faults

Usable(c) ==
    c.present => \E s \in Resolve(c) : Effective(s) \notin Unusable

(* Once the settings stay usable a process comes up, stays up and serves    *)
(* with them, unless it started when there was nothing to watch.            *)
Converges ==
    <>[]Usable(cluster) =>
        <>[](/\ pc = "running"
             /\ cluster.present /\ load.watchable =>
                    \A s \in Resolve(cluster) : served = Effective(s))
=============================================================================
