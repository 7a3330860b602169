--------------------------- MODULE PlatformStatus ---------------------------
(***************************************************************************)
(* The status of the Ray CR, which follows the spec, the platform's        *)
(* ConfigMap and the operand Deployments. The CR and the ConfigMaps reach  *)
(* the controller through caches that lag independently; a ConfigMap event *)
(* is dropped or turned into a request by a mapper that reads the cached   *)
(* CR; a pass starts from a cached status, reads the ConfigMap twice, and  *)
(* writes the status it has built also when one of its actions fails.      *)
(***************************************************************************)
EXTENDS Naturals

CONSTANTS
    Namespaces,    \* namespaces the CR may project, each may hold a ConfigMap
    Names,         \* platform names
    Versions,      \* versions validateReleaseVersion accepts
    BadVersions,   \* versions it rejects: too long, or no semantic version
    Standalone,    \* StandaloneDistributionName
    NoVersion,     \* StandaloneDistributionVersion
    None,          \* the empty string, or no entry
    Written,       \* the ConfigMaps the platform writes, missing keys None
    MaxGeneration, \* bound: spec edits
    MaxEdits,      \* bound: changes of ConfigMaps and Deployments
    MaxFaults      \* bound: API errors and crashes

ASSUME StatusAssumption ==
    /\ Versions \cap BadVersions = {}
    /\ None \notin Namespaces \cup Names \cup Versions \cup BadVersions
                   \cup {Standalone, NoVersion}
    /\ NoVersion \notin BadVersions
    /\ Written \subseteq [name: Names \cup {None},
                           version: Versions \cup BadVersions \cup {None},
                           handshake: Versions \cup BadVersions \cup {None}]
    /\ MaxGeneration \in Nat \ {0} /\ MaxEdits \in Nat /\ MaxFaults \in Nat

VARIABLES
    spec,        \* generation and spec of the CR (gen 0: there is none)
    status,      \* its status in the API server
    specCache, statusCache,  \* the CR as the cached client returns it
    cm, cmCache, \* each namespace's ConfigMap, and the cached copies
    notices,     \* namespaces whose ConfigMap event waits for the mapper
    avail,       \* are the operand Deployments available?
    queued,      \* is default-ray in the workqueue?
    pc,          \* the step of the pass
    rr, work,    \* the pass's rr.Instance: its spec and its status
    edits, faults

crVars   == <<spec, status, specCache, statusCache>>
cmVars   == <<cm, cmCache, notices>>
passVars == <<pc, rr, work>>
vars     == <<crVars, cmVars, avail, queued, passVars, edits, faults>>

Specs == [gen: 0..MaxGeneration, ns: Namespaces \cup {None},
          mgmt: {"Managed", "Removed"}]
NoSpec == [gen |-> 0, ns |-> None, mgmt |-> "Managed"]

(* A missing ConfigMap reads like one without the keys.                     *)
NoConfigMap == [name |-> None, version |-> None, handshake |-> None]
ConfigMaps  == Written \cup {NoConfigMap}

Distributions == [name: Names \cup {Standalone, None},
                  version: Versions \cup {NoVersion, None}]

(* available and degraded are the conditions DeploymentsAvailable ("Removed":*)
(* True with reason RemovedComponent) and Degraded; prov is                 *)
(* ProvisioningSucceeded; platform is the platform's entry in the releases. *)
Statuses == [available: {"Unknown", "True", "False", "Removed"},
             degraded: {"Unknown", "False"}, prov: BOOLEAN,
             obs: 0..MaxGeneration, dist: Distributions,
             platform: Versions \cup BadVersions \cup {None}]
NoStatus == [available |-> "Unknown", degraded |-> "Unknown", prov |-> FALSE,
             obs |-> 0, dist |-> [name |-> None, version |-> None],
             platform |-> None]

Init ==
    /\ spec = NoSpec /\ status = NoStatus
    /\ specCache = NoSpec /\ statusCache = NoStatus
    /\ cm = [n \in Namespaces |-> NoConfigMap] /\ cmCache = cm
    /\ notices = {}
    /\ avail = FALSE /\ queued = FALSE
    /\ pc = "idle" /\ rr = NoSpec /\ work = NoStatus
    /\ edits = 0 /\ faults = 0

Edit  == edits < MaxEdits /\ edits' = edits + 1
Fault == faults < MaxFaults /\ faults' = faults + 1

IsAvailable(s) == s.available \in {"True", "Removed"}

-----------------------------------------------------------------------------
(* The CR, the ConfigMaps and the Deployments, and how changes of them      *)
(* reach the workqueue.                                                     *)

(* Create the CR, or edit its spec; a projected namespace stays.            *)
UserWrites(n, m) ==
    /\ spec.gen < MaxGeneration
    /\ spec.ns = None \/ n = spec.ns
    /\ spec.gen = 0 \/ spec.ns # n \/ spec.mgmt # m
    /\ spec' = [gen |-> spec.gen + 1, ns |-> n, mgmt |-> m]
    /\ UNCHANGED <<status, specCache, statusCache, cmVars, avail, queued,
                   passVars, edits, faults>>

(* Status writes do not pass the predicate, a new generation does.          *)
CacheSync ==
    /\ <<specCache, statusCache>> # <<spec, status>>
    /\ specCache' = spec /\ statusCache' = status
    /\ queued' = (queued \/ specCache.gen # spec.gen)
    /\ UNCHANGED <<spec, status, cmVars, avail, passVars, edits, faults>>

PlatformWrites(n, c) ==
    /\ Edit /\ c # cm[n]
    /\ cm' = [cm EXCEPT ![n] = c]
    /\ UNCHANGED <<crVars, cmCache, notices, avail, queued, passVars, faults>>

(* The informer updates its store, then tells its handlers.                 *)
ConfigMapSync(n) ==
    /\ cmCache[n] # cm[n]
    /\ cmCache' = [cmCache EXCEPT ![n] = cm[n]]
    /\ notices' = notices \cup {n}
    /\ UNCHANGED <<crVars, cm, avail, queued, passVars, edits, faults>>

(* Mutant: the mapper trusts a running pass to see the change.              *)
MapsIdleOnly(n) == specCache.gen # 0 /\ specCache.ns = n /\ pc = "idle"

(* Does the mapper turn this event into a request? platformConfigPredicate  *)
(* has passed it by name; an absent CR, no namespace or another one drops it.*)
Maps(n) == specCache.gen # 0 /\ specCache.ns # None /\ specCache.ns = n

platformConfigMapper(n) ==
    /\ n \in notices
    /\ notices' = notices \ {n}
    /\ \/ /\ queued' = (queued \/ Maps(n))
          /\ UNCHANGED faults
       \/ /\ Fault            \* Get fails, not with NotFound
          /\ queued' = TRUE
    /\ UNCHANGED <<crVars, cm, cmCache, avail, passVars, edits>>

(* The CR owns the Deployments: their changes enqueue it.                   *)
DeploymentsChange ==
    /\ Edit /\ specCache.ns # None
    /\ avail' = ~avail /\ queued' = TRUE
    /\ UNCHANGED <<crVars, cmVars, passVars, faults>>

-----------------------------------------------------------------------------
(* One pass.                                                                *)

(* releasesAction replaces the whole list, the platform entry with it.      *)
releases(s) == [s EXCEPT !.platform = None]

(* Without a namespace waitForNamespace holds the pass: no action runs.     *)
StartPass ==
    /\ pc = "idle" /\ queued /\ specCache.gen # 0
    /\ queued' = FALSE
    /\ rr' = specCache
    /\ IF specCache.ns = None
       THEN pc' = "status" /\ work' = [statusCache EXCEPT !.prov = FALSE]
       ELSE pc' = "deployments" /\ work' = releases(statusCache)
    /\ UNCHANGED <<crVars, cmVars, avail, edits, faults>>

(* The Get finds no CR.                                                     *)
SkipPass ==
    /\ pc = "idle" /\ queued /\ specCache.gen = 0
    /\ queued' = FALSE
    /\ UNCHANGED <<crVars, cmVars, avail, passVars, edits, faults>>

Step(from, to, s) ==
    /\ pc = from /\ pc' = to
    /\ work' = s
    /\ UNCHANGED <<crVars, cmVars, avail, queued, rr, edits, faults>>

Removed == rr.mgmt = "Removed"

deploymentStatus ==
    Step("deployments", "distribution",
         [work EXCEPT !.available = IF Removed THEN "Removed"
                                    ELSE IF avail THEN "True" ELSE "False"])

(* Mutant: any version the platform writes is taken.                        *)
validateNothing(v) == TRUE

validateReleaseVersion(v) == v \notin BadVersions

standaloneDistribution == [name |-> Standalone, version |-> NoVersion]

(* The set of distributions the ConfigMap names: none when it is invalid.   *)
readPlatformDistribution(c) ==
    IF c.name = None /\ c.version = None THEN {standaloneDistribution}
    ELSE {[name    |-> IF c.name = None THEN Standalone ELSE c.name,
           version |-> v] : v \in {v \in {c.version} : validateReleaseVersion(v)}}

distribution ==
    \/ /\ IsAvailable(work)
       /\ \E d \in readPlatformDistribution(cmCache[rr.ns]) :
             Step("distribution", "platform", [work EXCEPT !.dist = d])
    \/ /\ pc = "distribution"
       /\ ~IsAvailable(work) \/ readPlatformDistribution(cmCache[rr.ns]) = {}
       /\ Step("distribution", "platform", work)

(* Mutant: the platform release does not wait for the Deployments.          *)
ReportsPlatformUngated == ~Removed

ReportsPlatform == ~Removed /\ IsAvailable(work)

(* The handshake value is copied as it is, unlike the distribution's.       *)
readPlatformVersion(c) == c.handshake

(* degradedAction marks Degraded False in every pass that gets this far.    *)
degraded(s) == [s EXCEPT !.degraded = "False"]

(* Mutant: the generation the API server has, not the one reconciled.       *)
observedLiveGeneration(s) == [s EXCEPT !.obs = spec.gen]

observedGeneration(s) == [s EXCEPT !.obs = rr.gen]

(* platformReleaseAction, degradedAction and observedGenerationAction.      *)
platformRelease ==
    Step("platform", "gc",
         observedGeneration(degraded(
            [work EXCEPT !.platform = IF ReportsPlatform
                                      THEN readPlatformVersion(cmCache[rr.ns])
                                      ELSE @])))

(* The collection succeeds, and with it the pass.                           *)
reconcileGC == Step("gc", "status", [work EXCEPT !.prov = TRUE])

(* An action fails: the status is written as it is, ProvisioningSucceeded   *)
(* False.                                                                   *)
ActionFails ==
    /\ pc \in {"deployments", "distribution", "platform", "gc"}
    /\ Fault
    /\ pc' = "status"
    /\ work' = [work EXCEPT !.prov = FALSE]
    /\ UNCHANGED <<crVars, cmVars, avail, queued, rr, edits>>

EndPass == pc' = "idle" /\ rr' = NoSpec /\ work' = NoStatus

(* A pass that failed is retried, a held one is not. A write for an outdated*)
(* snapshot is applied or meets a conflict.                                 *)
StatusUpdate ==
    /\ pc = "status"
    /\ EndPass
    /\ \/ /\ status' = work
          /\ queued' = (queued \/ (~work.prov /\ rr.ns # None))
       \/ /\ rr # spec
          /\ queued' = TRUE
          /\ UNCHANGED status
    /\ UNCHANGED <<spec, specCache, statusCache, cmVars, avail, edits, faults>>

StatusUpdateFails ==
    /\ pc = "status"
    /\ Fault /\ EndPass
    /\ queued' = TRUE
    /\ UNCHANGED <<crVars, cmVars, avail, edits>>

(* The process dies; its successor lists everything.                        *)
Crash ==
    /\ Fault /\ EndPass
    /\ specCache' = spec /\ statusCache' = status
    /\ cmCache' = cm /\ notices' = {}
    /\ queued' = (spec.gen # 0)
    /\ UNCHANGED <<spec, status, cm, avail, edits>>

Pass == \/ StartPass \/ SkipPass \/ deploymentStatus \/ distribution
        \/ platformRelease \/ reconcileGC \/ StatusUpdate

Next ==
    \/ Pass
    \/ \E n \in Namespaces \cup {None}, m \in {"Managed", "Removed"} :
            UserWrites(n, m)
    \/ CacheSync
    \/ \E n \in Namespaces : \/ \E c \in ConfigMaps : PlatformWrites(n, c)
                             \/ ConfigMapSync(n) \/ platformConfigMapper(n)
    \/ DeploymentsChange
    \/ ActionFails \/ StatusUpdateFails \/ Crash

Spec == Init /\ [][Next]_vars

-----------------------------------------------------------------------------
(* No version that validateReleaseVersion rejects is ever the version of    *)
(* the distribution in a status, and no generation beyond the CR's is its   *)
(* observedGeneration. The handshake's version is any the platform writes.  *)
TypeOK ==
    /\ {spec, specCache, rr} \subseteq Specs
    /\ {status, statusCache, work} \subseteq Statuses
    /\ cm \in [Namespaces -> ConfigMaps] /\ cmCache \in [Namespaces -> ConfigMaps]
    /\ notices \subseteq Namespaces
    /\ avail \in BOOLEAN /\ queued \in BOOLEAN
    /\ pc \in {"idle", "deployments", "distribution", "platform", "gc", "status"}
    /\ edits \in 0..MaxEdits /\ faults \in 0..MaxFaults

CachesCurrent == /\ specCache = spec /\ statusCache = status
                 /\ cmCache = cm /\ notices = {}

(* What a status has to say about a spec, a ConfigMap and the Deployments.  *)
AvailableFor(sp) == IF sp.mgmt = "Removed" THEN "Removed"
                    ELSE IF avail THEN "True" ELSE "False"

PlatformFor(sp, c) == IF sp.mgmt = "Managed" /\ avail THEN c.handshake ELSE None

NamesDistribution(s, c) ==
    IsAvailable(s) /\ c.version \notin BadVersions =>
        /\ s.dist.name = IF c.name = None THEN Standalone ELSE c.name
        /\ s.dist.version = IF c.name = None /\ c.version = None
                            THEN NoVersion ELSE c.version

TellsTruth(s, sp, c) ==
    /\ s.prov /\ s.obs = sp.gen
    /\ s.available = AvailableFor(sp)
    /\ s.platform = PlatformFor(sp, c)
    /\ NamesDistribution(s, c)

(* When nothing is pending the status tells the truth about the spec, the   *)
(* ConfigMap of the CR's namespace and the Deployments as they are: both    *)
(* reads of the last pass saw the same, current ConfigMap, no event the     *)
(* mapper dropped was needed, an entry that is gone is not reported any     *)
(* more, and only an invalid version may leave an older distribution.       *)
QuiescentStatus ==
    pc = "idle" /\ ~queued /\ CachesCurrent /\ spec.ns # None =>
        TellsTruth(status, spec, cm[spec.ns])

(* The handshake: the module never claims the platform's version in a       *)
(* status that does not also report its Deployments available, not even in  *)
(* the status a failed pass or a pass on an outdated snapshot leaves.       *)
HandshakeNeedsDeployments ==
    status.platform # None => status.available = "True"

(* Whoever waits for observedGeneration may read the conditions: once it is *)
(* the CR's generation, DeploymentsAvailable was computed for this spec, not*)
(* for the one before a toggle, although failed and outdated passes write   *)
(* their status too.                                                        *)
ObservedMatchesSpec ==
    spec.gen # 0 /\ status.obs = spec.gen =>
        /\ spec.ns # None
        /\ status.available # "Unknown"
        /\ (status.available = "Removed") = (spec.mgmt = "Removed")
=============================================================================
