---------------------------- MODULE RayLifecycle ----------------------------
(***************************************************************************)
(* The life of the singleton Ray CR "default-ray" and of the objects the   *)
(* module applies for it: users edit the CR, the informer delivers it to   *)
(* the controller with a lag, the controller reconciles one snapshot at a  *)
(* time through the pipeline SetupWithManager builds, and API errors,      *)
(* crashes and third parties interfere between any two of its steps.       *)
(*                                                                         *)
(* Every write to the CR is an Update with the snapshot's resourceVersion. *)
(* Versions are not counted: cacheCurrent and snapCurrent say whether the  *)
(* informer's and the pass's copy carry the version now stored, which is   *)
(* all that a conflict depends on.                                         *)
(***************************************************************************)
EXTENDS Integers, FiniteSets

CONSTANTS
    Rendered,         \* objects the kustomize overlay renders
    CRDs,             \* the CustomResourceDefinitions among them
    SCCs,             \* the SecurityContextConstraints among them
    Listed,           \* objects of a kind deleteOwnedOperands lists
    Owning,           \* objects deploy gives a controller ownerRef to the CR
    InTree,           \* labelled, unowned objects present before the module
    NotebookRole,     \* the ClusterRole "ray", applied apart from the overlay
    ClusterHasSCC,    \* is security.openshift.io registered?
    DeployLabelsCRDs, \* does deploy's part-of default reach CRDs?
    MaxUID,           \* bound: how often the CR is created
    MaxGeneration,    \* bound: spec edits of one CR
    MaxFaults,        \* bound: API errors and crashes
    MaxTampers        \* bound: third-party edits and ConfigMap events

Objects == Rendered \cup InTree \cup {NotebookRole}

ASSUME ObjectsAssumption ==
    /\ IsFiniteSet(Objects)
    /\ CRDs \subseteq Objects
    /\ SCCs \subseteq Rendered
    /\ Listed \subseteq Objects
    /\ Owning \subseteq Rendered
    /\ CRDs \cap (Listed \cup Owning \cup SCCs) = {}
    /\ NotebookRole \notin (Rendered \cup InTree \cup CRDs)

ASSUME FlagsAssumption ==
    /\ ClusterHasSCC \in BOOLEAN
    /\ DeployLabelsCRDs \in BOOLEAN

ASSUME BoundsAssumption ==
    /\ MaxUID \in Nat \ {0}
    /\ MaxGeneration \in Nat \ {0}
    /\ MaxFaults \in Nat
    /\ MaxTampers \in Nat

VARIABLES
    ray,          \* the CR in the API server (uid 0: there is none)
    lastUID,      \* the UID given to the last CR created
    cache,        \* the CR as the informer last delivered it
    cacheCurrent, \* has the API server no version newer than cache?
    queued,       \* is default-ray in the workqueue?
    pc,           \* the step of the pipeline the pass has reached
    rr,           \* the pass's rr.Instance
    snapCurrent,  \* does rr carry the stored resourceVersion?
    observed,     \* the observedGeneration this pass will report
    outcome,      \* how the pass ended: "ok", "error" or "held"
    hasSCCs,      \* filterPlatformResources' sync.Once result
    objs,         \* the operands in the API server
    unseen,       \* operands whose last change the cached client lags behind
    lost,         \* unowned operands that a third party deleted, or a pass
                  \* left unwritten on an outdated read, since the last apply
    missed,       \* labelled operands the last collection of all did not list
    certReady,    \* are the cert-manager CRDs installed?
    faults,       \* API errors and crashes so far
    tampers       \* third-party interferences so far

rayVars  == <<ray, lastUID, cache, cacheCurrent>>
passVars == <<pc, rr, snapCurrent, observed, outcome>>
objVars  == <<objs, unseen, lost, missed>>
envVars  == <<certReady, faults, tampers>>
vars     == <<rayVars, queued, passVars, hasSCCs, objVars, envVars>>

States == {"Managed", "Removed"}

NoRay == [uid |-> 0, gen |-> 0, projected |-> FALSE, mgmt |-> "Managed",
          fin |-> FALSE, del |-> FALSE, obs |-> 0, prov |-> FALSE]

NoObj == [live |-> FALSE, labelled |-> FALSE, owner |-> 0, gen |-> 0]

(* An operand of an earlier, in-tree deployment: labelled part-of=ray, with *)
(* no ownerRef and none of the module's annotations.                        *)
InTreeObj == [live |-> TRUE, labelled |-> TRUE, owner |-> 0, gen |-> 0]

Rays == [uid: 0..MaxUID, gen: 0..MaxGeneration, projected: BOOLEAN,
         mgmt: States, fin: BOOLEAN, del: BOOLEAN,
         obs: 0..MaxGeneration, prov: BOOLEAN]

Operands == [live: BOOLEAN, labelled: BOOLEAN, owner: 0..MaxUID,
             gen: 0..MaxGeneration]

ApplyPCs  == {"finalizer", "preApply", "prepare", "notebook", "deploy",
              "gcOwned", "gc", "status"}
DeletePCs == {"delNotebook", "delGC", "delOwned", "delFinalizer"}
PCs       == {"idle"} \cup ApplyPCs \cup DeletePCs

Init ==
    /\ ray = NoRay /\ lastUID = 0
    /\ cache = NoRay /\ cacheCurrent = TRUE
    /\ queued = FALSE
    /\ pc = "idle" /\ rr = NoRay /\ snapCurrent = FALSE
    /\ observed = 0 /\ outcome = "ok"
    /\ hasSCCs = "unset"
    /\ objs = [o \in Objects |-> IF o \in InTree THEN InTreeObj ELSE NoObj]
    /\ unseen = {} /\ lost = {} /\ missed = {}
    /\ certReady \in BOOLEAN
    /\ faults = 0 /\ tampers = 0

(* A failure or a third party's interference uses up its budget.            *)
Fault  == faults < MaxFaults /\ faults' = faults + 1
Tamper == tampers < MaxTampers /\ tampers' = tampers + 1

-----------------------------------------------------------------------------
(* The CR in the API server and its users.                                  *)

(* A write by anybody but the running pass: both copies fall behind.        *)
StoreRay(new) ==
    /\ ray' = new
    /\ cacheCurrent' = FALSE
    /\ snapCurrent' = FALSE

(* Mutant: the immutability rule on applicationsNamespace is dropped.        *)
AdmitsAnyNamespace(old, projected) == TRUE

(* The CRD's CEL rules: one name, so one CR; and applicationsNamespace may  *)
(* not change once it is set.                                               *)
AdmitsNamespace(old, projected) == old => projected

UserCreate(m, p) ==
    /\ ray.uid = 0 /\ lastUID < MaxUID
    /\ lastUID' = lastUID + 1
    /\ StoreRay([NoRay EXCEPT !.uid = lastUID + 1, !.gen = 1,
                              !.mgmt = m, !.projected = p])
    /\ UNCHANGED <<cache, queued, pc, rr, observed, outcome, hasSCCs,
                   objVars, envVars>>

(* A spec edit bumps metadata.generation; it is accepted while the CR is    *)
(* terminating too.                                                         *)
UserEdit(m, p) ==
    /\ ray.uid # 0 /\ ray.gen < MaxGeneration
    /\ <<m, p>> # <<ray.mgmt, ray.projected>>
    /\ AdmitsNamespace(ray.projected, p)
    /\ StoreRay([ray EXCEPT !.gen = @ + 1, !.mgmt = m, !.projected = p])
    /\ UNCHANGED <<lastUID, cache, queued, pc, rr, observed, outcome, hasSCCs,
                   objVars, envVars>>

(* A delete only marks a CR that has a finalizer; the generation stays.     *)
UserDelete ==
    /\ ray.uid # 0 /\ ~ray.del
    /\ StoreRay(IF ray.fin THEN [ray EXCEPT !.del = TRUE] ELSE NoRay)
    /\ UNCHANGED <<lastUID, cache, queued, pc, rr, observed, outcome, hasSCCs,
                   objVars, envVars>>

-----------------------------------------------------------------------------
(* Events.                                                                  *)

(* Framework DefaultPredicate, for the updates the CR can see.              *)
GenerationChanged(old, new) == old.gen # new.gen

DeletionTimestampSet(old, new) == ~old.del /\ new.del

(* Mutants: the delete predicate is left out; every update passes.           *)
RayEventPassesDefaultOnly(old, new) ==
    old.uid # new.uid \/ GenerationChanged(old, new)
RayEventPassesAlways(old, new) == TRUE

(* Create and Delete events pass both predicates, an Update either.         *)
RayEventPasses(old, new) ==
    \/ old.uid # new.uid
    \/ GenerationChanged(old, new)
    \/ DeletionTimestampSet(old, new)

CacheSync ==
    /\ ~cacheCurrent
    /\ cache' = ray /\ cacheCurrent' = TRUE
    /\ queued' = (queued \/ RayEventPasses(cache, ray))
    /\ UNCHANGED <<ray, lastUID, passVars, hasSCCs, objVars, envVars>>

(* The informer of an operand's kind catches up. Dynamic ownership enqueues *)
(* the controller owner of an operand that changed.                         *)
Observe(o) ==
    /\ o \in unseen
    /\ unseen' = unseen \ {o}
    /\ queued' = (queued \/ o \in Owning)
    /\ UNCHANGED <<rayVars, passVars, hasSCCs, objs, lost, missed, envVars>>

(* The platform ConfigMap changed and platformConfigMapper maps it to the   *)
(* CR it reads from the cache.                                              *)
PlatformConfigEvent ==
    /\ Tamper
    /\ cache.uid # 0 /\ cache.projected
    /\ queued' = TRUE
    /\ UNCHANGED <<rayVars, passVars, hasSCCs, objVars, certReady, faults>>

-----------------------------------------------------------------------------
(* Shorthands for the steps of a pass.                                      *)

GoTo(step) == pc' = step

(* The pass leaves the pipeline for the framework's status update.          *)
EndWith(result) == GoTo("status") /\ outcome' = result

(* Mutant: the error of a pass is logged and not returned.                   *)
FinishWithoutRetry(requeue) ==
    /\ GoTo("idle")
    /\ rr' = NoRay /\ snapCurrent' = FALSE
    /\ observed' = 0 /\ outcome' = "ok"
    /\ queued' = queued

Finish(requeue) ==
    /\ GoTo("idle")
    /\ rr' = NoRay /\ snapCurrent' = FALSE
    /\ observed' = 0 /\ outcome' = "ok"
    /\ queued' = (queued \/ requeue)

(* Update of rr.Instance with its resourceVersion; only for snapCurrent.    *)
UpdateRay(new) ==
    /\ ray' = new /\ rr' = new
    /\ snapCurrent' = TRUE
    /\ cacheCurrent' = (cacheCurrent /\ new = ray)

Removed == rr.mgmt = "Removed"

(* deploy's server-side apply with ForceOwnership, and the labels that      *)
(* stampPartOfLabels and deploy's default put on the object.                *)
AppliedForm(o) ==
    [live     |-> TRUE,
     labelled |-> objs[o].labelled \/ o \notin CRDs \/ DeployLabelsCRDs,
     owner    |-> IF o \in Owning THEN rr.uid ELSE objs[o].owner,
     gen      |-> rr.gen]

(* applyNotebookClusterRole: labels set, ownerReferences nil.               *)
NotebookForm == [live |-> TRUE, labelled |-> TRUE, owner |-> 0, gen |-> 0]

(* Writes to a set of operands; the cached client lags behind each change.  *)
ApplyObjects(S) ==
    /\ objs' = [o \in Objects |-> IF o \in S THEN AppliedForm(o) ELSE objs[o]]
    /\ unseen' = unseen \cup {o \in S : AppliedForm(o) # objs[o]}
    /\ lost' = lost \ S
    /\ missed' = missed \ S

EraseObjects(S) ==
    /\ objs' = [o \in Objects |-> IF o \in S THEN NoObj ELSE objs[o]]
    /\ unseen' = unseen \cup {o \in S : objs[o] # NoObj}
    /\ UNCHANGED lost

DeleteObjects(S) == EraseObjects(S) /\ missed' = missed \ S

-----------------------------------------------------------------------------
(* What the pass deploys and what its garbage collections delete.           *)

(* manifestInit, RenderKustomize and filterPlatformResources.               *)
Desired(mgmt, sccs) ==
    IF mgmt = "Removed" THEN {}
    ELSE IF sccs = "yes" THEN Rendered ELSE Rendered \ SCCs

(* Mutant: the Managed collection does without owned-only.                   *)
ManagedGCTargetsUnowned ==
    {o \in Objects \ CRDs : objs[o].labelled /\ objs[o].gen # rr.gen}

(* Framework GC lists by label and never removes CRDs. The owned-only one   *)
(* keeps what the running pass has just stamped with its generation.        *)
ManagedGCTargets ==
    {o \in Objects \ CRDs : /\ objs[o].labelled
                            /\ objs[o].owner = rr.uid
                            /\ objs[o].gen # rr.gen}

(* Mutant: the default predicate, which keeps the current generation.        *)
RemovedGCTargetsStale ==
    {o \in Objects \ CRDs : objs[o].labelled /\ objs[o].gen # rr.gen}

RemovedGCTargets == {o \in Objects \ CRDs : objs[o].labelled}

GCTargets == IF Removed THEN RemovedGCTargets ELSE ManagedGCTargets

(* Mutant: the kinds to delete include CustomResourceDefinition.             *)
ListedKindsWithCRDs == Listed \cup CRDs

(* namespacedOwnedLists and clusterOwnedLists.                               *)
ListedKinds == Listed

ownedByUID(o, uid) == objs[o].owner = uid
labeledOperand(o)  == objs[o].labelled

(* Mutant: the owned operands are found by label alone.                      *)
OwnedTargetsByLabel == {o \in ListedKinds : labeledOperand(o)}

OwnedTargets == {o \in ListedKinds : ownedByUID(o, rr.uid) \/ labeledOperand(o)}

(* What a listing may return of what it looks for: it can lag behind, and   *)
(* then an operand whose last change is unseen is missing from it.          *)
Listings(targets) == {S \in SUBSET targets : targets \ unseen \subseteq S}

(* deleteOwnedFromList lists through the cached client.                     *)
deleteOwnedOperands ==
    \E S \in Listings(OwnedTargets) : DeleteObjects(S)

(* The framework's label listing can lag behind too and "leave an operand   *)
(* behind", as reconcileGCAction's comment says of it.                      *)
managedGC == \E S \in Listings(ManagedGCTargets) : DeleteObjects(S)

removedGC ==
    \E S \in Listings(RemovedGCTargets) :
        /\ EraseObjects(S)
        /\ missed' = RemovedGCTargets \ S

(* deleteNotebookClusterRole returns early on a cached NotFound.            *)
deleteNotebookClusterRole ==
    \/ DeleteObjects({NotebookRole})
    \/ NotebookRole \in unseen /\ UNCHANGED objVars

-----------------------------------------------------------------------------
(* The apply path.                                                          *)

StartPass ==
    /\ pc = "idle" /\ queued /\ cache.uid # 0
    /\ queued' = FALSE
    /\ rr' = cache /\ snapCurrent' = cacheCurrent
    /\ observed' = cache.obs
    /\ GoTo(IF cache.del THEN "delNotebook" ELSE "finalizer")
    /\ UNCHANGED <<rayVars, outcome, hasSCCs, objVars, envVars>>

(* Get returns NotFound: nothing to reconcile.                              *)
SkipPass ==
    /\ pc = "idle" /\ queued /\ cache.uid = 0
    /\ queued' = FALSE
    /\ UNCHANGED <<rayVars, passVars, hasSCCs, objVars, envVars>>

(* The framework adds the finalizer before anything else.                   *)
AddFinalizer ==
    /\ pc = "finalizer"
    /\ \/ /\ rr.fin
          /\ GoTo("preApply")
          /\ UNCHANGED <<rayVars, rr, snapCurrent, outcome>>
       \/ /\ ~rr.fin /\ snapCurrent
          /\ UpdateRay([rr EXCEPT !.fin = TRUE])
          /\ GoTo("preApply")
          /\ UNCHANGED <<lastUID, cache, outcome>>
       \/ /\ ~rr.fin /\ ~snapCurrent
          /\ EndWith("error")
          /\ UNCHANGED <<rayVars, rr, snapCurrent>>
    /\ UNCHANGED <<queued, observed, hasSCCs, objVars, envVars>>

(* PreApply. A conflict or NotFound on the Update is ignored, and so is any *)
(* other error: the pass is held either way.                                *)
waitForNamespace ==
    /\ pc = "preApply"
    /\ \/ /\ rr.projected
          /\ GoTo("prepare")
          /\ UNCHANGED <<rayVars, rr, snapCurrent, outcome>>
       \/ /\ ~rr.projected /\ snapCurrent
          /\ UpdateRay([rr EXCEPT !.fin = FALSE])
          /\ EndWith("held")
          /\ UNCHANGED <<lastUID, cache>>
       \/ /\ ~rr.projected /\ ~snapCurrent
          /\ EndWith("held")
          /\ UNCHANGED <<rayVars, rr, snapCurrent>>
    /\ UNCHANGED <<queued, observed, hasSCCs, objVars, envVars>>

waitForNamespaceFails ==
    /\ pc = "preApply" /\ ~rr.projected
    /\ Fault
    /\ EndWith("held")
    /\ UNCHANGED <<rayVars, queued, rr, snapCurrent, observed, hasSCCs,
                   objVars, certReady, tampers>>

(* The actions that touch nothing in the cluster, up to                     *)
(* filterPlatformResources, whose lookup runs once per process.             *)
Prepare ==
    /\ pc = "prepare"
    /\ \/ /\ ~Removed /\ ~certReady
          /\ EndWith("error")
          /\ UNCHANGED hasSCCs
       \/ /\ Removed \/ certReady
          /\ hasSCCs' = IF hasSCCs # "unset" THEN hasSCCs
                        ELSE IF ClusterHasSCC THEN "yes" ELSE "no"
          /\ GoTo("notebook")
          /\ UNCHANGED outcome
    /\ UNCHANGED <<rayVars, queued, rr, snapCurrent, observed, objVars, envVars>>

(* RESTMapping fails for a transient reason and once.Do keeps the answer.   *)
RESTMappingFails ==
    /\ pc = "prepare" /\ (Removed \/ certReady)
    /\ hasSCCs = "unset" /\ hasSCCs' = "no"
    /\ Fault
    /\ GoTo("notebook")
    /\ UNCHANGED <<rayVars, queued, rr, snapCurrent, observed, outcome,
                   objVars, certReady, tampers>>

(* CreateOrUpdate on a stale read is answered AlreadyExists, NotFound or    *)
(* Conflict; one that shows the role as desired is not followed by a write. *)
notebookClusterRole ==
    /\ pc = "notebook"
    /\ \/ /\ Removed
          /\ deleteNotebookClusterRole
          /\ GoTo("deploy") /\ UNCHANGED outcome
       \/ /\ ~Removed
          /\ objs' = [objs EXCEPT ![NotebookRole] = NotebookForm]
          /\ unseen' = IF objs[NotebookRole] = NotebookForm THEN unseen
                       ELSE unseen \cup {NotebookRole}
          /\ lost' = lost \ {NotebookRole} /\ missed' = missed \ {NotebookRole}
          /\ GoTo("deploy") /\ UNCHANGED outcome
       \/ /\ ~Removed /\ NotebookRole \in unseen
          /\ objs[NotebookRole] # NotebookForm
          /\ lost' = lost \cup {NotebookRole}
          /\ GoTo("deploy") /\ UNCHANGED <<objs, unseen, missed, outcome>>
       \/ /\ ~Removed /\ NotebookRole \in unseen
          /\ EndWith("error") /\ UNCHANGED objVars
    /\ UNCHANGED <<rayVars, queued, rr, snapCurrent, observed, hasSCCs, envVars>>

(* deploy, then the status actions up to observedGeneration.                *)
Deploy ==
    /\ pc = "deploy"
    /\ ApplyObjects(Desired(rr.mgmt, hasSCCs))
    /\ observed' = rr.gen
    /\ GoTo(IF Removed THEN "gcOwned" ELSE "gc")
    /\ UNCHANGED <<rayVars, queued, rr, snapCurrent, outcome, hasSCCs, envVars>>

reconcileGC ==
    \/ /\ pc = "gcOwned"
       /\ deleteOwnedOperands
       /\ GoTo("gc")
       /\ UNCHANGED <<rayVars, queued, rr, snapCurrent, observed, outcome,
                      hasSCCs, envVars>>
    \/ /\ pc = "gc"
       /\ IF Removed THEN removedGC ELSE managedGC
       /\ EndWith("ok")
       /\ UNCHANGED <<rayVars, queued, rr, snapCurrent, observed, hasSCCs, envVars>>

(* An API error part-way through an action: some of its writes happened,    *)
(* the rest of the pipeline does not run.                                   *)
ActionFails ==
    /\ \/ pc \in {"finalizer", "prepare", "notebook"} /\ UNCHANGED objVars
       \/ /\ pc = "deploy"
          /\ \E S \in SUBSET Desired(rr.mgmt, hasSCCs) : ApplyObjects(S)
       \/ pc = "gcOwned" /\ \E S \in SUBSET OwnedTargets : DeleteObjects(S)
       \/ pc = "gc" /\ \E S \in SUBSET GCTargets : DeleteObjects(S)
    /\ Fault /\ EndWith("error")
    /\ UNCHANGED <<rayVars, queued, rr, snapCurrent, observed, hasSCCs,
                   certReady, tampers>>

(* Mutants: observedGeneration one ahead; errors reported as success.        *)
ReportNextGeneration(r) ==
    [r EXCEPT !.obs = observed + 1, !.prov = (outcome = "ok")]
ReportWithoutError(r) ==
    [r EXCEPT !.obs = observed, !.prov = (outcome # "held")]

(* ProvisioningSucceeded and the observedGeneration the pass ends with. An  *)
(* error is retried; a pass held by waitForNamespace is not.                *)
Report(r) == [r EXCEPT !.obs = observed, !.prov = (outcome = "ok")]

StatusUpdate ==
    /\ pc = "status"
    /\ \/ /\ ray.uid = rr.uid
          /\ ray' = Report(ray)
          /\ cacheCurrent' = (cacheCurrent /\ ray' = ray)
          /\ Finish(outcome = "error")
       \/ /\ ~snapCurrent
          /\ Finish(TRUE)
          /\ UNCHANGED <<ray, cacheCurrent>>
    /\ UNCHANGED <<lastUID, cache, hasSCCs, objVars, envVars>>

-----------------------------------------------------------------------------
(* The delete path: deletionCleanupAction, then the finalizer goes.         *)

DeletionCleanup ==
    /\ \/ /\ pc = "delNotebook" /\ ~rr.projected
          /\ GoTo("delFinalizer") /\ UNCHANGED objVars
       \/ /\ pc = "delNotebook" /\ rr.projected
          /\ deleteNotebookClusterRole
          /\ GoTo("delGC")
       \/ /\ pc = "delGC"
          /\ removedGC
          /\ GoTo("delOwned")
       \/ /\ pc = "delOwned"
          /\ deleteOwnedOperands
          /\ GoTo("delFinalizer")
    /\ UNCHANGED <<rayVars, queued, rr, snapCurrent, observed, outcome,
                   hasSCCs, envVars>>

(* The Update that drops the last finalizer of a terminating CR deletes it. *)
RemoveFinalizer ==
    /\ pc = "delFinalizer"
    /\ \/ /\ snapCurrent
          /\ ray' = NoRay /\ cacheCurrent' = FALSE
          /\ Finish(FALSE)
       \/ /\ ~snapCurrent
          /\ Finish(TRUE)
          /\ UNCHANGED <<ray, cacheCurrent>>
    /\ UNCHANGED <<lastUID, cache, hasSCCs, objVars, envVars>>

(* An error of the delete path, or of the status write itself, only requeues *)
(* the CR.                                                                  *)
PassFails ==
    /\ \/ pc \in {"status", "delNotebook", "delFinalizer"} /\ UNCHANGED objVars
       \/ pc = "delGC" /\ \E S \in SUBSET RemovedGCTargets : DeleteObjects(S)
       \/ pc = "delOwned" /\ \E S \in SUBSET OwnedTargets : DeleteObjects(S)
    /\ Fault
    /\ Finish(TRUE)
    /\ UNCHANGED <<rayVars, hasSCCs, certReady, tampers>>

-----------------------------------------------------------------------------
(* The cluster around the controller.                                       *)

(* The process dies between two steps; its successor lists everything.      *)
Crash ==
    /\ Fault
    /\ cache' = ray /\ cacheCurrent' = TRUE
    /\ queued' = (ray.uid # 0)
    /\ GoTo("idle") /\ rr' = NoRay /\ snapCurrent' = FALSE
    /\ observed' = 0 /\ outcome' = "ok"
    /\ hasSCCs' = "unset"
    /\ unseen' = {}
    /\ UNCHANGED <<ray, lastUID, objs, lost, missed, certReady, tampers>>

InstallCertManager ==
    /\ ~certReady /\ certReady' = TRUE
    /\ UNCHANGED <<rayVars, queued, passVars, hasSCCs, objVars, faults, tampers>>

(* Kubernetes' own garbage collector deletes what a vanished CR owned.      *)
KubeGC(o) ==
    /\ objs[o].owner \notin {0, ray.uid}
    /\ DeleteObjects({o})
    /\ UNCHANGED <<rayVars, queued, passVars, hasSCCs, envVars>>

ThirdPartyDelete(o) ==
    /\ Tamper /\ o \notin CRDs /\ objs[o].live
    /\ objs' = [objs EXCEPT ![o] = NoObj]
    /\ unseen' = unseen \cup {o}
    /\ lost' = IF o \in Owning THEN lost ELSE lost \cup {o}
    /\ UNCHANGED <<rayVars, queued, passVars, hasSCCs, missed, certReady, faults>>

StripLabel(o) ==
    /\ Tamper /\ objs[o].labelled
    /\ objs' = [objs EXCEPT ![o].labelled = FALSE]
    /\ unseen' = unseen \cup {o}
    /\ UNCHANGED <<rayVars, queued, passVars, hasSCCs, lost, missed,
                   certReady, faults>>

Controller ==
    \/ StartPass \/ SkipPass \/ AddFinalizer \/ waitForNamespace \/ Prepare
    \/ notebookClusterRole \/ Deploy \/ reconcileGC \/ StatusUpdate
    \/ DeletionCleanup \/ RemoveFinalizer

Failure ==
    \/ waitForNamespaceFails \/ RESTMappingFails \/ ActionFails
    \/ PassFails \/ Crash

Environment ==
    \/ \E m \in States, p \in BOOLEAN : UserCreate(m, p) \/ UserEdit(m, p)
    \/ UserDelete
    \/ PlatformConfigEvent
    \/ InstallCertManager
    \/ \E o \in Objects : ThirdPartyDelete(o) \/ StripLabel(o)

Next ==
    \/ Controller
    \/ CacheSync
    \/ \E o \in Objects : Observe(o) \/ KubeGC(o)
    \/ Failure
    \/ Environment

(* The worker, the watches and the cluster's garbage collector keep going;  *)
(* nothing obliges a user, a third party or a failure to happen.            *)
Fairness ==
    /\ WF_vars(Controller)
    /\ WF_vars(CacheSync)
    /\ \A o \in Objects : WF_vars(Observe(o)) /\ WF_vars(KubeGC(o))

Spec == Init /\ [][Next]_vars
FairSpec == Spec /\ Fairness

-----------------------------------------------------------------------------
(* Properties.                                                              *)

(* Every variable stays in its domain; in particular no pass reports an     *)
(* observedGeneration or stamps a generation beyond the CR's.               *)
TypeOK ==
    /\ ray \in Rays /\ cache \in Rays /\ rr \in Rays
    /\ lastUID \in 0..MaxUID
    /\ cacheCurrent \in BOOLEAN /\ snapCurrent \in BOOLEAN
    /\ queued \in BOOLEAN /\ certReady \in BOOLEAN
    /\ pc \in PCs
    /\ observed \in 0..MaxGeneration
    /\ outcome \in {"ok", "error", "held"}
    /\ hasSCCs \in {"unset", "yes", "no"}
    /\ objs \in [Objects -> Operands]
    /\ unseen \subseteq Objects /\ lost \subseteq Objects
    /\ missed \subseteq Objects
    /\ faults \in 0..MaxFaults /\ tampers \in 0..MaxTampers

(* An operand the module has applied (deploy stamps the generation; the     *)
(* notebook role exists only through the module) and finds by its label: a  *)
(* collection whose listing lagged behind it is done with it.               *)
Deployed(o) ==
    /\ o \notin CRDs
    /\ objs[o].labelled /\ o \notin missed
    /\ o = NotebookRole \/ objs[o].gen # 0

(* The CR's deletion will run the cleanup, which will not skip it.          *)
Guards(r) == r.uid # 0 /\ r.fin /\ r.projected

(* The contract of FinalizerName: as long as an operand of the module is    *)
(* out there, the CR exists, carries the finalizer and names its namespace, *)
(* so that deletionCleanupAction will run and will not skip the cleanup.    *)
(* Stale snapshots, recreation, crashes and failed cleanups included; only  *)
(* what the cleanup's own lagging listing left out may stay without it.     *)
FinalizerGuardsOperands ==
    (\E o \in Objects : Deployed(o)) => Guards(ray)

(* A CR that reports, for its current generation, a successful Removed pass *)
(* has no labelled operand left but CRDs and what the lagging listing of    *)
(* its collection left out, although observedGenerationAction runs before   *)
(* reconcileGCAction and stale passes may write the status.                 *)
RemovedReportIsTrue ==
    ray.uid # 0 /\ ray.mgmt = "Removed" /\ ray.prov /\ ray.obs = ray.gen
        => \A o \in Objects \ CRDs : objs[o].labelled => o \in missed

(* Nothing is under way and no event is on its way to the controller.       *)
Quiescent == pc = "idle" /\ ~queued /\ cacheCurrent /\ unseen = {}

Settled(mgmt) ==
    Quiescent /\ ray.uid # 0 /\ ~ray.del /\ ray.projected /\ ray.mgmt = mgmt

(* No event is lost on the way to Managed: when the controller rests, every *)
(* object it wants exists, and those it owns carry the label, the ownerRef  *)
(* and the generation of the CR as it now is. The exceptions are unowned:   *)
(* one that a third party deleted, since nothing tells the controller, and  *)
(* the notebook role when an outdated read showed it in place.              *)
QuiescentManaged ==
    Settled("Managed") =>
        \A o \in Desired("Managed", hasSCCs) \cup {NotebookRole} :
            /\ objs[o].live \/ o \in lost
            /\ o \in Owning => objs[o] = [live |-> TRUE, labelled |-> TRUE,
                                          owner |-> ray.uid, gen |-> ray.gen]

(* No event is lost on the way to Removed: when the controller rests, no    *)
(* labelled operand of the kinds deploy owns is left, although any listing  *)
(* may have lagged behind it, since its late event wakes the controller;    *)
(* of the others only what a collection did not list. Of the kinds          *)
(* deleteOwnedOperands lists the CR owns none, label or not.                *)
QuiescentRemoved ==
    Settled("Removed") =>
        \A o \in Objects \ CRDs :
            /\ objs[o].labelled => o \in missed \ Owning
            /\ o \in Listed => objs[o].owner # ray.uid

(* What the comment on deleteOwnedOperands promises ("deletes objects whose *)
(* ownerRef is the Ray CR"), for every kind the overlay renders.            *)
RemovedDeletesOwned ==
    Settled("Removed") => \A o \in Objects \ CRDs : objs[o].owner # ray.uid

(* What the comment on filterPlatformResources promises: an SCC is left out *)
(* only when the cluster has no security.openshift.io.                      *)
SCCsFollowCluster ==
    Settled("Managed") /\ ClusterHasSCC =>
        \A o \in SCCs : objs[o].live \/ o \in lost

(* A delete is never forgotten: the controller does not rest while the CR   *)
(* is terminating, whatever pass the delete raced with.                     *)
DeletionNeverForgotten == Quiescent => ~ray.del

(* The controller never deletes a CRD, labelled or not, in any path.        *)
CRDsSurvive == [][\A o \in CRDs : objs[o].live => objs'[o].live]_vars

(* While the controller works on a Managed snapshot, nobody but a third     *)
(* party deletes a labelled object the CR does not own (EndpointSlices, the *)
(* notebook role, operands not adopted yet).                                *)
ManagedPassSparesUnowned ==
    [][(pc \in ApplyPCs) /\ rr.mgmt = "Managed" /\ tampers' = tampers =>
         \A o \in Objects :
            objs[o].live /\ objs[o].owner = 0 => objs'[o].live]_vars

(* A terminating CR goes away, with cert-manager missing too, once the      *)
(* faults end.                                                              *)
DeletionCompletes ==
    \A u \in 1..MaxUID : (ray.uid = u /\ ray.del) ~> ray.uid # u

(* The controller comes to rest: adding and dropping the finalizer, its own *)
(* status writes and the events of its own operands do not keep it busy.    *)
(* Only a missing cert-manager keeps the retries going.                     *)
ComesToRest == <>certReady => <>[]Quiescent
=============================================================================
