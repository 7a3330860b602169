------------------------ MODULE PlatformStatusProofs ------------------------
(***************************************************************************)
(* Proofs about PlatformStatus, for every set of namespaces, names and     *)
(* versions, every set of ConfigMaps and all bounds.                       *)
(***************************************************************************)
EXTENDS PlatformStatus, TLAPS

(* None of the invariants is inductive as it stands: what a pass writes     *)
(* depends on the cached copies it started from. The parts that make them   *)
(* so.                                                                      *)

(* Only a held pass works without a namespace.                              *)
PassHasNamespace ==
    pc \in {"deployments", "distribution", "platform", "gc"} => rr.ns # None

(* A generation names one spec, and none means that there is no CR.         *)
GenerationNames(sp) == /\ sp.gen <= spec.gen
                       /\ sp.gen = spec.gen => sp = spec
                       /\ sp.gen = 0 => sp = NoSpec

AvailableFits(s, sp) == /\ s.available # "Unknown"
                        /\ (s.available = "Removed") = (sp.mgmt = "Removed")

(* A status that observed the generation of a spec fits that spec.          *)
StatusFits(s, sp) ==
    /\ s.obs <= sp.gen
    /\ sp.gen # 0 /\ s.obs = sp.gen => sp.ns # None /\ AvailableFits(s, sp)

ClaimFits(s) == s.platform # None => s.available = "True"

(* The pass has dropped the platform entry and not read it yet; it has      *)
(* looked at the Deployments.                                               *)
WorkFits ==
    /\ pc \in {"deployments", "distribution", "platform"} => work.platform = None
    /\ pc \in {"distribution", "platform", "gc"} => AvailableFits(work, rr)

StatusInv ==
    /\ PassHasNamespace
    /\ GenerationNames(spec) /\ GenerationNames(specCache) /\ GenerationNames(rr)
    /\ StatusFits(status, spec) /\ StatusFits(statusCache, specCache)
    /\ StatusFits(work, rr)
    /\ ClaimFits(status) /\ ClaimFits(statusCache) /\ ClaimFits(work)
    /\ WorkFits

(* What an undisturbed pass has got right so far.                           *)
WorkTellsTruth ==
    LET c == cmCache[rr.ns]
    IN  /\ pc \in {"distribution", "platform", "gc"} =>
              work.available = AvailableFor(rr)
        /\ pc \in {"platform", "gc"} => NamesDistribution(work, c)
        /\ pc = "gc" => work.platform = PlatformFor(rr, c) /\ work.obs = rr.gen
        /\ pc = "status" /\ work.prov => TellsTruth(work, rr, c)

(* Whatever is not in the workqueue or on its way through the mapper has    *)
(* not changed since the pass began or ended.                               *)
RestInv ==
    ~queued =>
        /\ pc # "idle" => rr = specCache
        /\ specCache.ns # None /\ specCache.ns \notin notices =>
              IF pc = "idle"
              THEN TellsTruth(status, specCache, cmCache[specCache.ns])
              ELSE WorkTellsTruth

-----------------------------------------------------------------------------
(* The records in use before a CR exists are well-formed.                   *)
LEMMA EmptyRecords ==
    /\ NoSpec \in Specs /\ NoStatus \in Statuses
    /\ NoConfigMap \in ConfigMaps
    /\ 0 \in 0..MaxGeneration /\ 0 \in 0..MaxEdits /\ 0 \in 0..MaxFaults
BY StatusAssumption DEF NoSpec, Specs, NoStatus, Statuses, Distributions,
   NoConfigMap, ConfigMaps

(* What the keys of a ConfigMap hold.                                       *)
LEMMA ConfigMapFields ==
    ASSUME NEW c \in ConfigMaps
    PROVE  /\ c.name \in Names \cup {None}
           /\ c.version \in Versions \cup BadVersions \cup {None}
           /\ c.handshake \in Versions \cup BadVersions \cup {None}
BY StatusAssumption DEF ConfigMaps, NoConfigMap

(* A distribution read from a ConfigMap carries no rejected version.        *)
LEMMA DistributionType ==
    ASSUME NEW c \in ConfigMaps, NEW d \in readPlatformDistribution(c)
    PROVE  d \in Distributions
<1>1. CASE c.name = None /\ c.version = None
  BY <1>1 DEF readPlatformDistribution, standaloneDistribution, Distributions
<1>2. CASE ~(c.name = None /\ c.version = None)
  <2>1. /\ d.name = IF c.name = None THEN Standalone ELSE c.name
        /\ d.version = c.version /\ c.version \notin BadVersions
        /\ d = [name |-> d.name, version |-> d.version]
    BY <1>2 DEF readPlatformDistribution, validateReleaseVersion
  <2>2. d.name \in Names \cup {Standalone, None}
    BY <2>1, ConfigMapFields
  <2>3. d.version \in Versions \cup {NoVersion, None}
    BY <2>1, ConfigMapFields
  <2>4. QED
    BY <2>1, <2>2, <2>3 DEF Distributions
<1>3. QED
  BY <1>1, <1>2

(* The cached ConfigMap a pass reads is one that the platform writes.       *)
LEMMA ReadsConfigMap ==
    ASSUME TypeOK, StatusInv,
           pc \in {"deployments", "distribution", "platform", "gc"}
    PROVE  rr.ns \in Namespaces /\ cmCache[rr.ns] \in ConfigMaps
BY DEF TypeOK, StatusInv, PassHasNamespace, Specs

-----------------------------------------------------------------------------
(* Type correctness.                                                        *)

(* The steps of a pass keep the types, given that a pass which reads the    *)
(* ConfigMap has a namespace to read it from.                               *)
LEMMA TypeOKPass == TypeOK /\ StatusInv /\ Pass => TypeOK'
<1> SUFFICES ASSUME TypeOK, StatusInv, Pass PROVE TypeOK'
  OBVIOUS
<1> USE EmptyRecords
<1>0. ASSUME NEW from, NEW s \in Statuses, NEW to,
             to \in {"distribution", "platform", "gc", "status"}, Step(from, to, s)
      PROVE  TypeOK'
  BY <1>0 DEF Step, TypeOK, crVars, cmVars
<1>1. CASE StartPass
  <2>1. [statusCache EXCEPT !.prov = FALSE] \in Statuses
    BY DEF TypeOK, Statuses
  <2>2. releases(statusCache) \in Statuses
    BY DEF TypeOK, Statuses, releases
  <2>3. QED
    BY <1>1, <2>1, <2>2 DEF StartPass, TypeOK, crVars, cmVars
<1>2. CASE SkipPass
  BY <1>2 DEF SkipPass, TypeOK, crVars, cmVars, passVars
<1>3. CASE deploymentStatus
  <2>1. [work EXCEPT !.available = IF Removed THEN "Removed"
                     ELSE IF avail THEN "True" ELSE "False"] \in Statuses
    BY DEF TypeOK, Statuses
  <2>2. QED
    BY <1>0, <1>3, <2>1 DEF deploymentStatus
<1>4. CASE distribution
  <2>0. pc = "distribution"
    BY <1>4 DEF distribution, Step
  <2>1. ASSUME NEW d \in readPlatformDistribution(cmCache[rr.ns])
        PROVE  [work EXCEPT !.dist = d] \in Statuses
    <3>1. d \in Distributions
      BY <2>0, DistributionType, ReadsConfigMap
    <3>2. QED
      BY <3>1 DEF TypeOK, Statuses
  <2>2. work \in Statuses
    BY DEF TypeOK
  <2>3. QED
    BY <1>0, <1>4, <2>1, <2>2 DEF distribution
<1>5. CASE platformRelease
  <2>0. pc = "platform"
    BY <1>5 DEF platformRelease, Step
  <2>1. readPlatformVersion(cmCache[rr.ns]) \in Versions \cup BadVersions \cup {None}
    BY <2>0, ReadsConfigMap, ConfigMapFields DEF readPlatformVersion
  <2>2. work.platform \in Versions \cup BadVersions \cup {None} /\ rr.gen \in 0..MaxGeneration
    BY DEF TypeOK, Statuses, Specs
  <2>3. ASSUME NEW v \in Versions \cup BadVersions \cup {None}
        PROVE  observedGeneration(degraded([work EXCEPT !.platform = v]))
                    \in Statuses
    BY <2>2 DEF TypeOK, Statuses, observedGeneration, degraded
  <2>4. (IF ReportsPlatform THEN readPlatformVersion(cmCache[rr.ns])
         ELSE work.platform) \in Versions \cup BadVersions \cup {None}
    BY <2>1, <2>2
  <2>5. QED
    BY <1>0, <1>5, <2>3, <2>4 DEF platformRelease
<1>6. CASE reconcileGC
  <2>1. [work EXCEPT !.prov = TRUE] \in Statuses
    BY DEF TypeOK, Statuses
  <2>2. QED
    BY <1>0, <1>6, <2>1 DEF reconcileGC
<1>7. CASE StatusUpdate
  BY <1>7 DEF StatusUpdate, EndPass, TypeOK, cmVars
<1>8. QED
  BY <1>1, <1>2, <1>3, <1>4, <1>5, <1>6, <1>7 DEF Pass

(* So do users, the platform, the caches, failures and crashes.             *)
LEMMA TypeOKStep == TypeOK /\ StatusInv /\ [Next]_vars => TypeOK'
<1> SUFFICES ASSUME TypeOK, StatusInv, [Next]_vars PROVE TypeOK'
  OBVIOUS
<1> USE EmptyRecords
<1>e. Edit => edits' \in 0..MaxEdits
  BY StatusAssumption DEF TypeOK, Edit
<1>f. Fault => faults' \in 0..MaxFaults
  BY StatusAssumption DEF TypeOK, Fault
<1>1. ASSUME NEW n \in Namespaces \cup {None}, NEW m \in {"Managed", "Removed"},
             UserWrites(n, m)
      PROVE  TypeOK'
  <2>1. spec.gen + 1 \in 0..MaxGeneration
    BY <1>1, StatusAssumption DEF UserWrites, TypeOK, Specs
  <2>2. [gen |-> spec.gen + 1, ns |-> n, mgmt |-> m] \in Specs
    BY <2>1 DEF Specs
  <2>3. QED
    BY <1>1, <2>2 DEF UserWrites, TypeOK, cmVars, passVars
<1>2. CASE CacheSync
  BY <1>2 DEF CacheSync, TypeOK, cmVars, passVars
<1>3. ASSUME NEW n \in Namespaces, NEW c \in ConfigMaps, PlatformWrites(n, c)
      PROVE  TypeOK'
  BY <1>3, <1>e DEF PlatformWrites, TypeOK, crVars, passVars
<1>4. ASSUME NEW n \in Namespaces, ConfigMapSync(n) PROVE TypeOK'
  BY <1>4 DEF ConfigMapSync, TypeOK, crVars, passVars
<1>5. ASSUME NEW n \in Namespaces, platformConfigMapper(n) PROVE TypeOK'
  BY <1>5, <1>f DEF platformConfigMapper, TypeOK, crVars, passVars
<1>6. CASE DeploymentsChange
  BY <1>6, <1>e DEF DeploymentsChange, TypeOK, crVars, cmVars, passVars
<1>7. CASE ActionFails
  <2>1. [work EXCEPT !.prov = FALSE] \in Statuses
    BY DEF TypeOK, Statuses
  <2>2. QED
    BY <1>7, <1>f, <2>1 DEF ActionFails, TypeOK, crVars, cmVars
<1>8. CASE StatusUpdateFails
  BY <1>8, <1>f DEF StatusUpdateFails, EndPass, TypeOK, crVars, cmVars
<1>9. CASE Crash
  BY <1>9, <1>f DEF Crash, EndPass, TypeOK
<1>10. CASE UNCHANGED vars
  BY <1>10 DEF TypeOK, vars, crVars, cmVars, passVars
<1>11. QED
  BY <1>1, <1>2, <1>3, <1>4, <1>5, <1>6, <1>7, <1>8, <1>9, <1>10, TypeOKPass
     DEF Next

-----------------------------------------------------------------------------
(* What a status may claim.                                                 *)

(* A status whose generation, condition and claim are those of one that     *)
(* fits, fits too.                                                          *)
LEMMA FitsByFields ==
    ASSUME NEW s, NEW t, NEW sp, StatusFits(s, sp), ClaimFits(s),
           t.obs = s.obs, t.available = s.available,
           t.platform = s.platform \/ t.platform = None
    PROVE  StatusFits(t, sp) /\ ClaimFits(t)
BY DEF StatusFits, ClaimFits, AvailableFits

(* A snapshot of the CR is older than the CR or the same: a status that     *)
(* fits the snapshot fits the CR.                                           *)
LEMMA FitsStoredSpec ==
    ASSUME TypeOK, GenerationNames(rr), StatusFits(work, rr)
    PROVE  StatusFits(work, spec)
<1>1. rr.gen \in Nat /\ spec.gen \in Nat /\ work.obs \in Nat
  BY StatusAssumption DEF TypeOK, Specs, Statuses
<1>2. QED
  BY <1>1 DEF GenerationNames, StatusFits

(* No pass is under way: nothing is claimed by it.                          *)
LEMMA EndPassFits ==
    ASSUME TypeOK, EndPass, spec'.gen \in Nat, spec'.gen = 0 => spec' = NoSpec
    PROVE  /\ PassHasNamespace' /\ WorkFits' /\ GenerationNames(rr)'
           /\ StatusFits(work, rr)' /\ ClaimFits(work)'
BY DEF EndPass, PassHasNamespace, WorkFits, GenerationNames, StatusFits,
   ClaimFits, NoSpec, NoStatus, AvailableFits

(* The steps of a pass keep statuses and specs in line.                     *)
LEMMA StatusInvPass == TypeOK /\ StatusInv /\ Pass => StatusInv'
<1> SUFFICES ASSUME TypeOK, StatusInv, Pass PROVE StatusInv'
  OBVIOUS
<1>0. ASSUME NEW from, NEW to, NEW s, Step(from, to, s),
             StatusFits(s, rr), ClaimFits(s), PassHasNamespace', WorkFits'
      PROVE  StatusInv'
  <2>1. UNCHANGED <<spec, status, specCache, statusCache, rr>> /\ work' = s
    BY <1>0 DEF Step, crVars
  <2>2. QED
    BY <1>0, <2>1 DEF StatusInv, GenerationNames, StatusFits, AvailableFits,
       ClaimFits
<1>1. CASE StartPass
  <2>1. UNCHANGED <<spec, status, specCache, statusCache>> /\ rr' = specCache
    BY <1>1 DEF StartPass, crVars
  <2>2. CASE specCache.ns = None
    <3>1. pc' = "status" /\ work' = [statusCache EXCEPT !.prov = FALSE]
      BY <1>1, <2>2 DEF StartPass
    <3>2. StatusFits(work', specCache) /\ ClaimFits(work')
      BY <3>1, FitsByFields DEF TypeOK, Statuses, StatusInv
    <3>3. QED
      BY <2>1, <3>1, <3>2 DEF StatusInv, PassHasNamespace, WorkFits,
         GenerationNames, StatusFits, ClaimFits, AvailableFits
  <2>3. CASE specCache.ns # None
    <3>1. pc' = "deployments" /\ work' = releases(statusCache)
      BY <1>1, <2>3 DEF StartPass
    <3>2. StatusFits(work', specCache) /\ ClaimFits(work') /\ work'.platform = None
      BY <3>1, FitsByFields DEF TypeOK, Statuses, StatusInv, releases
    <3>3. QED
      BY <2>1, <2>3, <3>1, <3>2 DEF StatusInv, PassHasNamespace, WorkFits,
         GenerationNames, StatusFits, ClaimFits, AvailableFits
  <2>4. QED
    BY <2>2, <2>3
<1>2. CASE SkipPass
  BY <1>2 DEF SkipPass, StatusInv, crVars, passVars, PassHasNamespace, WorkFits,
     GenerationNames, StatusFits, ClaimFits, AvailableFits
<1>3. CASE deploymentStatus
  <2> DEFINE s == [work EXCEPT !.available =
                        IF Removed THEN "Removed"
                        ELSE IF avail THEN "True" ELSE "False"]
  <2>1. /\ pc = "deployments" /\ pc' = "distribution" /\ work' = s /\ rr' = rr
        /\ Step("deployments", "distribution", s)
    BY <1>3 DEF deploymentStatus, Step
  <2>2. s.platform = None /\ s.obs = work.obs /\ AvailableFits(s, rr)
    BY <2>1 DEF TypeOK, Statuses, StatusInv, WorkFits, AvailableFits, Removed
  <2>3. rr.ns # None
    BY <2>1 DEF StatusInv, PassHasNamespace
  <2>4. StatusFits(s, rr) /\ ClaimFits(s)
    BY <2>2, <2>3 DEF StatusInv, StatusFits, ClaimFits
  <2>5. PassHasNamespace' /\ WorkFits'
    BY <2>1, <2>2, <2>3 DEF PassHasNamespace, WorkFits, AvailableFits
  <2>6. QED
    BY <1>0, <2>1, <2>4, <2>5
<1>4. CASE distribution
  <2>1. /\ pc = "distribution" /\ pc' = "platform" /\ rr' = rr
        /\ Step("distribution", "platform", work')
        /\ \/ work' = work
           \/ \E d : work' = [work EXCEPT !.dist = d]
    BY <1>4 DEF distribution, Step
  <2>2. /\ work'.platform = work.platform /\ work'.obs = work.obs
        /\ work'.available = work.available
    BY <2>1 DEF TypeOK, Statuses
  <2>3. StatusFits(work', rr) /\ ClaimFits(work')
    BY <2>2, FitsByFields DEF StatusInv
  <2>4. PassHasNamespace' /\ WorkFits'
    BY <2>1, <2>2 DEF StatusInv, PassHasNamespace, WorkFits, AvailableFits
  <2>5. QED
    BY <1>0, <2>1, <2>3, <2>4
<1>5. CASE platformRelease
  <2>1. /\ pc = "platform" /\ pc' = "gc" /\ rr' = rr
        /\ Step("platform", "gc", work')
        /\ work' = observedGeneration(degraded(
              [work EXCEPT !.platform = IF ReportsPlatform
                                        THEN readPlatformVersion(cmCache[rr.ns])
                                        ELSE @]))
    BY <1>5 DEF platformRelease, Step
  <2>2. /\ work'.available = work.available /\ work'.obs = rr.gen
        /\ work'.platform = IF ReportsPlatform
                            THEN readPlatformVersion(cmCache[rr.ns])
                            ELSE work.platform
    BY <2>1 DEF TypeOK, Statuses, observedGeneration, degraded
  <2>3. rr.ns # None /\ AvailableFits(work, rr) /\ work.platform = None
    BY <2>1 DEF StatusInv, PassHasNamespace, WorkFits
  <2>4. ClaimFits(work')
    BY <2>2, <2>3 DEF ClaimFits, AvailableFits, ReportsPlatform, Removed,
       IsAvailable
  <2>5. StatusFits(work', rr)
    <3>1. rr.gen \in Nat
      BY StatusAssumption DEF TypeOK, Specs
    <3>2. QED
      BY <2>2, <2>3, <3>1 DEF StatusFits, AvailableFits
  <2>6. PassHasNamespace' /\ WorkFits'
    BY <2>1, <2>2, <2>3 DEF PassHasNamespace, WorkFits, AvailableFits
  <2>7. QED
    BY <1>0, <2>1, <2>4, <2>5, <2>6
<1>6. CASE reconcileGC
  <2>1. /\ pc = "gc" /\ pc' = "status" /\ rr' = rr
        /\ Step("gc", "status", work') /\ work' = [work EXCEPT !.prov = TRUE]
    BY <1>6 DEF reconcileGC, Step
  <2>2. StatusFits(work', rr) /\ ClaimFits(work')
    BY <2>1, FitsByFields DEF TypeOK, Statuses, StatusInv
  <2>3. PassHasNamespace' /\ WorkFits'
    BY <2>1 DEF PassHasNamespace, WorkFits
  <2>4. QED
    BY <1>0, <2>1, <2>2, <2>3
<1>7. CASE StatusUpdate
  <2>1. EndPass /\ UNCHANGED <<spec, specCache, statusCache>>
    BY <1>7 DEF StatusUpdate
  <2>2. status' = work \/ status' = status
    BY <1>7 DEF StatusUpdate
  <2>3. StatusFits(status', spec) /\ ClaimFits(status')
    BY <2>2, FitsStoredSpec DEF StatusInv
  <2>4. spec'.gen \in Nat /\ (spec'.gen = 0 => spec' = NoSpec)
    BY <2>1, StatusAssumption DEF TypeOK, Specs, StatusInv, GenerationNames
  <2>5. /\ PassHasNamespace' /\ WorkFits' /\ GenerationNames(rr)'
        /\ StatusFits(work, rr)' /\ ClaimFits(work)'
    BY <2>1, <2>4, EndPassFits
  <2>6. QED
    BY <2>1, <2>3, <2>5 DEF StatusInv, GenerationNames, StatusFits, ClaimFits,
       AvailableFits
<1>8. QED
  BY <1>1, <1>2, <1>3, <1>4, <1>5, <1>6, <1>7 DEF Pass

(* So do users, caches, failures and crashes.                               *)
LEMMA StatusInvStep == TypeOK /\ StatusInv /\ [Next]_vars => StatusInv'
<1> SUFFICES ASSUME TypeOK, StatusInv, [Next]_vars PROVE StatusInv'
  OBVIOUS
<1>0. ASSUME UNCHANGED <<crVars, passVars>> PROVE StatusInv'
  BY <1>0 DEF StatusInv, crVars, passVars, PassHasNamespace, WorkFits,
     GenerationNames, StatusFits, ClaimFits, AvailableFits
<1>g. /\ spec.gen \in Nat /\ specCache.gen \in Nat /\ rr.gen \in Nat
      /\ status.obs \in Nat
      /\ spec.gen = 0 => spec = NoSpec
  BY StatusAssumption DEF TypeOK, Specs, Statuses, StatusInv, GenerationNames
<1>1. ASSUME NEW n \in Namespaces \cup {None}, NEW m \in {"Managed", "Removed"},
             UserWrites(n, m)
      PROVE  StatusInv'
  <2>1. /\ spec'.gen = spec.gen + 1
        /\ UNCHANGED <<status, specCache, statusCache, passVars>>
    BY <1>1 DEF UserWrites
  <2>2. /\ specCache.gen < spec'.gen /\ rr.gen < spec'.gen
        /\ status.obs < spec'.gen /\ spec'.gen # 0
    BY <1>g, <2>1 DEF StatusInv, GenerationNames, StatusFits
  <2>3. GenerationNames(specCache)' /\ GenerationNames(rr)' /\ GenerationNames(spec)'
    BY <1>g, <2>1, <2>2 DEF StatusInv, GenerationNames, passVars
  <2>4. StatusFits(status, spec)'
    BY <1>g, <2>1, <2>2 DEF StatusFits
  <2>5. QED
    BY <2>1, <2>3, <2>4 DEF StatusInv, passVars, PassHasNamespace, WorkFits,
       StatusFits, ClaimFits, AvailableFits
<1>2. CASE CacheSync
  BY <1>2 DEF CacheSync, StatusInv, passVars, PassHasNamespace, WorkFits,
     GenerationNames, StatusFits, ClaimFits, AvailableFits
<1>3. ASSUME NEW n \in Namespaces, NEW c \in ConfigMaps, PlatformWrites(n, c)
      PROVE  StatusInv'
  BY <1>0, <1>3 DEF PlatformWrites
<1>4. ASSUME NEW n \in Namespaces, ConfigMapSync(n) \/ platformConfigMapper(n)
      PROVE  StatusInv'
  BY <1>0, <1>4 DEF ConfigMapSync, platformConfigMapper
<1>5. CASE DeploymentsChange
  BY <1>0, <1>5 DEF DeploymentsChange
<1>6. CASE ActionFails
  <2>1. /\ UNCHANGED <<crVars, rr>> /\ pc' = "status"
        /\ work' = [work EXCEPT !.prov = FALSE]
    BY <1>6 DEF ActionFails
  <2>2. StatusFits(work', rr) /\ ClaimFits(work')
    BY <2>1, FitsByFields DEF TypeOK, Statuses, StatusInv
  <2>3. PassHasNamespace' /\ WorkFits'
    BY <2>1 DEF PassHasNamespace, WorkFits
  <2>4. QED
    BY <2>1, <2>2, <2>3 DEF StatusInv, crVars, GenerationNames, StatusFits,
       ClaimFits, AvailableFits
<1>7. CASE StatusUpdateFails \/ Crash
  <2>1. EndPass /\ UNCHANGED <<spec, status>>
        /\ \/ UNCHANGED <<specCache, statusCache>>
           \/ specCache' = spec /\ statusCache' = status
    BY <1>7 DEF StatusUpdateFails, Crash, crVars
  <2>2. /\ PassHasNamespace' /\ WorkFits' /\ GenerationNames(rr)'
        /\ StatusFits(work, rr)' /\ ClaimFits(work)'
    BY <1>g, <2>1, EndPassFits
  <2>3. QED
    BY <2>1, <2>2 DEF StatusInv, GenerationNames, StatusFits, ClaimFits,
       AvailableFits
<1>8. CASE UNCHANGED vars
  BY <1>0, <1>8 DEF vars
<1>9. QED
  BY <1>1, <1>2, <1>3, <1>4, <1>5, <1>6, <1>7, <1>8, StatusInvPass DEF Next

(* Before a CR exists its status fits.                                      *)
LEMMA InitFits == Init => TypeOK /\ StatusInv
<1> SUFFICES ASSUME Init PROVE TypeOK /\ StatusInv
  OBVIOUS
<1>1. TypeOK
  BY EmptyRecords DEF Init, TypeOK
<1>2. StatusInv
  BY DEF Init, StatusInv, PassHasNamespace, WorkFits, GenerationNames,
     StatusFits, ClaimFits, AvailableFits, NoSpec, NoStatus
<1>3. QED
  BY <1>1, <1>2

(* Both hold together in every behaviour.                                   *)
LEMMA StatusInvAlways == Spec => [](TypeOK /\ StatusInv)
BY InitFits, TypeOKStep, StatusInvStep, PTL DEF Spec

(* Every behaviour is well-typed: no version that validateReleaseVersion    *)
(* rejects and no generation beyond the CR's ever reaches a status, of the  *)
(* CR, of a cached copy or of a running pass.                               *)
THEOREM StatusTypeCorrect == Spec => []TypeOK
BY StatusInvAlways, PTL

(* The handshake never claims the platform's version for a module whose     *)
(* Deployments are not reported available, whichever passes fail, work on   *)
(* an outdated snapshot or start from an outdated status.                   *)
THEOREM HandshakeHolds == Spec => []HandshakeNeedsDeployments
<1>1. StatusInv => HandshakeNeedsDeployments
  BY DEF StatusInv, ClaimFits, HandshakeNeedsDeployments
<1>2. QED
  BY <1>1, StatusInvAlways, PTL

(* Once observedGeneration is the CR's generation, the condition            *)
(* DeploymentsAvailable was computed for this very spec.                    *)
THEOREM ObservedMatches == Spec => []ObservedMatchesSpec
<1>1. StatusInv => ObservedMatchesSpec
  BY DEF StatusInv, StatusFits, AvailableFits, ObservedMatchesSpec
<1>2. QED
  BY <1>1, StatusInvAlways, PTL

-----------------------------------------------------------------------------
(* When nothing is pending the status tells the truth.                      *)

(* What distributionAction writes is what the ConfigMap says, and it writes *)
(* nothing only when the Deployments are not available or the version is    *)
(* invalid.                                                                 *)
LEMMA DistributionNamed ==
    ASSUME NEW s, NEW c \in ConfigMaps,
           \/ s.dist \in readPlatformDistribution(c)
           \/ ~IsAvailable(s) \/ readPlatformDistribution(c) = {}
    PROVE  NamesDistribution(s, c)
<1>1. CASE s.dist \in readPlatformDistribution(c)
  BY <1>1 DEF readPlatformDistribution, standaloneDistribution,
     NamesDistribution, validateReleaseVersion
<1>2. CASE readPlatformDistribution(c) = {}
  BY <1>2 DEF readPlatformDistribution, NamesDistribution, validateReleaseVersion
<1>3. QED
  BY <1>1, <1>2 DEF NamesDistribution

(* The steps of a pass that nothing disturbs carry the truth to the status. *)
LEMMA RestInvPass == TypeOK /\ StatusInv /\ RestInv /\ Pass => RestInv'
<1> SUFFICES ASSUME TypeOK, StatusInv, RestInv, Pass, ~queued' PROVE RestInv'
  BY DEF RestInv
<1>0. ASSUME NEW from, NEW to, NEW s, Step(from, to, s),
             from # "idle", to # "idle",
             rr = specCache /\ rr.ns # None /\ rr.ns \notin notices /\ WorkTellsTruth
                => WorkTellsTruth'
      PROVE  RestInv'
  <2>1. /\ UNCHANGED <<specCache, notices, rr, queued>>
        /\ pc # "idle" /\ pc' # "idle"
    BY <1>0 DEF Step, crVars, cmVars
  <2>2. QED
    BY <1>0, <2>1 DEF RestInv
<1>1. CASE StartPass
  <2>1. /\ UNCHANGED <<specCache, notices, cmCache>> /\ rr' = specCache
        /\ pc' # "idle"
    BY <1>1 DEF StartPass, crVars, cmVars
  <2>2. specCache.ns # None => pc' = "deployments"
    BY <1>1 DEF StartPass
  <2>3. pc' = "deployments" => WorkTellsTruth'
    BY DEF WorkTellsTruth
  <2>4. QED
    BY <2>1, <2>2, <2>3 DEF RestInv
<1>2. CASE SkipPass
  <2>1. UNCHANGED <<specCache, pc>> /\ pc = "idle" /\ specCache.ns = None
    BY <1>2 DEF SkipPass, crVars, passVars, StatusInv, GenerationNames, NoSpec
  <2>2. QED
    BY <2>1 DEF RestInv
<1>3. CASE deploymentStatus
  <2>1. /\ pc = "deployments" /\ pc' = "distribution" /\ UNCHANGED <<rr, avail>>
        /\ Step("deployments", "distribution", work')
        /\ work' = [work EXCEPT !.available = IF Removed THEN "Removed"
                                  ELSE IF avail THEN "True" ELSE "False"]
    BY <1>3 DEF deploymentStatus, Step
  <2>2. WorkTellsTruth'
    BY <2>1 DEF WorkTellsTruth, AvailableFor, Removed, TypeOK, Statuses
  <2>3. QED
    BY <1>0, <2>1, <2>2
<1>4. CASE distribution
  <2>1. /\ pc = "distribution" /\ pc' = "platform"
        /\ UNCHANGED <<rr, avail, cmCache>>
        /\ Step("distribution", "platform", work')
    BY <1>4 DEF distribution, Step, cmVars
  <2>2. /\ rr.ns \in Namespaces /\ cmCache[rr.ns] \in ConfigMaps
    BY <2>1, ReadsConfigMap
  <2>3. \/ work' = work /\ (~IsAvailable(work)
                            \/ readPlatformDistribution(cmCache[rr.ns]) = {})
        \/ \E d \in readPlatformDistribution(cmCache[rr.ns]) :
                work' = [work EXCEPT !.dist = d]
    BY <1>4 DEF distribution, Step
  <2>4. /\ work'.available = work.available
        /\ \/ work'.dist \in readPlatformDistribution(cmCache[rr.ns])
           \/ ~IsAvailable(work') \/ readPlatformDistribution(cmCache[rr.ns]) = {}
    BY <2>3 DEF TypeOK, Statuses, IsAvailable
  <2>5. NamesDistribution(work', cmCache[rr.ns])
    BY <2>2, <2>4, DistributionNamed
  <2>6. WorkTellsTruth => WorkTellsTruth'
    BY <2>1, <2>4, <2>5 DEF WorkTellsTruth, AvailableFor, NamesDistribution,
       IsAvailable
  <2>7. QED
    BY <1>0, <2>1, <2>6
<1>5. CASE platformRelease
  <2>1. /\ pc = "platform" /\ pc' = "gc" /\ UNCHANGED <<rr, avail, cmCache>>
        /\ Step("platform", "gc", work')
        /\ work' = observedGeneration(degraded(
              [work EXCEPT !.platform = IF ReportsPlatform
                                        THEN readPlatformVersion(cmCache[rr.ns])
                                        ELSE @]))
    BY <1>5 DEF platformRelease, Step, cmVars
  <2>2. /\ work'.available = work.available /\ work'.obs = rr.gen
        /\ work'.dist = work.dist
        /\ work'.platform = IF ReportsPlatform
                            THEN readPlatformVersion(cmCache[rr.ns])
                            ELSE work.platform
    BY <2>1 DEF TypeOK, Statuses, observedGeneration, degraded
  <2>3. work.platform = None /\ rr.mgmt \in {"Managed", "Removed"}
    BY <2>1 DEF StatusInv, WorkFits, TypeOK, Specs
  <2>4. WorkTellsTruth => work'.platform = PlatformFor(rr, cmCache[rr.ns])
    BY <2>1, <2>2, <2>3 DEF WorkTellsTruth, AvailableFor, PlatformFor,
       ReportsPlatform, Removed, IsAvailable, readPlatformVersion
  <2>5. WorkTellsTruth => WorkTellsTruth'
    BY <2>1, <2>2, <2>4 DEF WorkTellsTruth, AvailableFor, NamesDistribution,
       IsAvailable, PlatformFor
  <2>6. QED
    BY <1>0, <2>1, <2>5
<1>6. CASE reconcileGC
  <2>1. /\ pc = "gc" /\ pc' = "status" /\ UNCHANGED <<rr, avail, cmCache>>
        /\ Step("gc", "status", work') /\ work' = [work EXCEPT !.prov = TRUE]
    BY <1>6 DEF reconcileGC, Step, cmVars
  <2>2. /\ work'.available = work.available /\ work'.obs = work.obs
        /\ work'.dist = work.dist /\ work'.platform = work.platform
        /\ work'.prov = TRUE
    BY <2>1 DEF TypeOK, Statuses
  <2>3. WorkTellsTruth => WorkTellsTruth'
    BY <2>1, <2>2 DEF WorkTellsTruth, TellsTruth, AvailableFor, IsAvailable,
       NamesDistribution, PlatformFor
  <2>4. QED
    BY <1>0, <2>1, <2>3
<1>7. CASE StatusUpdate
  <2>1. /\ pc = "status" /\ pc' = "idle" /\ status' = work
        /\ ~queued /\ (work.prov \/ rr.ns = None)
        /\ UNCHANGED <<specCache, notices, cmCache, avail>>
    BY <1>7 DEF StatusUpdate, EndPass, cmVars
  <2>2. rr = specCache /\ (specCache.ns # None /\ specCache.ns \notin notices
                                => TellsTruth(work, specCache, cmCache[specCache.ns]))
    BY <2>1 DEF RestInv, WorkTellsTruth
  <2>3. QED
    BY <2>1, <2>2 DEF RestInv, TellsTruth, AvailableFor, IsAvailable,
       NamesDistribution, PlatformFor
<1>8. QED
  BY <1>1, <1>2, <1>3, <1>4, <1>5, <1>6, <1>7 DEF Pass

(* Whatever else changes what a pass reads also enqueues the CR, or puts    *)
(* its ConfigMap on the way to the mapper.                                  *)
LEMMA RestInvStep == TypeOK /\ StatusInv /\ RestInv /\ [Next]_vars => RestInv'
<1> SUFFICES ASSUME TypeOK, StatusInv, RestInv, [Next]_vars, ~queued' PROVE RestInv'
  BY DEF RestInv
<1>0. ASSUME UNCHANGED <<status, specCache, pc, rr, work, cmCache, notices, avail>>,
             ~queued
      PROVE  RestInv'
  BY <1>0 DEF RestInv, WorkTellsTruth, TellsTruth, AvailableFor, IsAvailable,
     NamesDistribution, PlatformFor
<1>1. ASSUME NEW n \in Namespaces \cup {None}, NEW m \in {"Managed", "Removed"},
             UserWrites(n, m)
      PROVE  RestInv'
  BY <1>0, <1>1 DEF UserWrites, cmVars, passVars
<1>2. CASE CacheSync
  <2>1. ~queued /\ specCache' = specCache
    BY <1>2 DEF CacheSync, StatusInv, GenerationNames
  <2>2. QED
    BY <1>0, <1>2, <2>1 DEF CacheSync, cmVars, passVars
<1>3. ASSUME NEW n \in Namespaces, NEW c \in ConfigMaps, PlatformWrites(n, c)
      PROVE  RestInv'
  BY <1>0, <1>3 DEF PlatformWrites, crVars, passVars
<1>4. ASSUME NEW n \in Namespaces, ConfigMapSync(n) PROVE RestInv'
  <2>1. /\ UNCHANGED <<status, specCache, pc, rr, work, avail, queued>>
        /\ notices' = notices \cup {n}
        /\ \A k \in Namespaces : k # n => cmCache'[k] = cmCache[k]
    BY <1>4 DEF ConfigMapSync, crVars, passVars, TypeOK
  <2>2. specCache.ns \in Namespaces \cup {None}
    BY DEF TypeOK, Specs
  <2>3. QED
    BY <2>1, <2>2 DEF RestInv, WorkTellsTruth, TellsTruth, AvailableFor,
       IsAvailable, NamesDistribution, PlatformFor
<1>5. ASSUME NEW n \in Namespaces, platformConfigMapper(n) PROVE RestInv'
  <2>1. /\ UNCHANGED <<status, specCache, pc, rr, work, avail, cmCache>>
        /\ notices' = notices \ {n} /\ ~queued /\ ~Maps(n)
    BY <1>5 DEF platformConfigMapper, crVars, passVars
  <2>2. specCache.ns # None => specCache.ns # n
    BY <2>1 DEF Maps, StatusInv, GenerationNames, NoSpec
  <2>3. QED
    BY <2>1, <2>2 DEF RestInv, WorkTellsTruth, TellsTruth, AvailableFor,
       IsAvailable, NamesDistribution, PlatformFor
<1>6. CASE DeploymentsChange \/ StatusUpdateFails
  BY <1>6 DEF DeploymentsChange, StatusUpdateFails
<1>7. CASE ActionFails
  <2>1. /\ UNCHANGED <<specCache, rr, notices, queued>> /\ pc # "idle"
        /\ pc' = "status" /\ work' = [work EXCEPT !.prov = FALSE]
    BY <1>7 DEF ActionFails, crVars, cmVars
  <2>2. WorkTellsTruth'
    BY <2>1 DEF WorkTellsTruth, TypeOK, Statuses
  <2>3. QED
    BY <2>1, <2>2 DEF RestInv
<1>8. CASE Crash
  <2>1. pc' = "idle" /\ specCache' = spec /\ spec.gen = 0
    BY <1>8, Zenon DEF Crash, EndPass
  <2>2. specCache'.ns = None
    BY <2>1 DEF StatusInv, GenerationNames, NoSpec
  <2>3. QED
    BY <2>1, <2>2 DEF RestInv
<1>9. CASE UNCHANGED vars
  BY <1>0, <1>9 DEF vars, crVars, cmVars, passVars
<1>10. QED
  BY <1>1, <1>2, <1>3, <1>4, <1>5, <1>6, <1>7, <1>8, <1>9, RestInvPass DEF Next

(* When the controller rests and its caches are current, the status tells   *)
(* the truth about spec, ConfigMap and Deployments, for any number of       *)
(* edits and faults: no event the mapper drops or the workqueue merges was  *)
(* needed, and the two reads of a pass cannot disagree unnoticed.           *)
THEOREM RestingStatusIsTrue == Spec => []QuiescentStatus
<1>1. Init => RestInv
  BY DEF Init, RestInv, NoSpec
<1>2. RestInv => QuiescentStatus
  BY DEF RestInv, QuiescentStatus, CachesCurrent
<1>3. QED
  BY <1>1, <1>2, RestInvStep, StatusInvAlways, PTL DEF Spec
=============================================================================
