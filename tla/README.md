# A TLA+ model of the Ray module operator

The operator reconciles one cluster-scoped custom resource, the `Ray` CR
`default-ray`, and keeps the KubeRay operands of the platform deployed, removed
or cleaned up accordingly. This directory holds TLA+ modules that model its
control flow, TLC configurations that check them on small instances, and proofs
that TLAPS checks for every value of the constants. `PROJECT.json` lists the
components, runs, findings, hazards and theorems, and maps each definition to
the source lines it models.

## 1. The system

| Part | Source | State | Operations | Interacts with |
|---|---|---|---|---|
| Reconcile pipeline | `internal/controller/ray_controller.go` | none of its own but the workqueue, the informer caches and the snapshot `rr.Instance` of the running pass | the actions of `SetupWithManager` in order; `waitForNamespace` before them; `deletionCleanupAction` on deletion | API server through a cached client; every part below |
| Ray API | `api/v1alpha1/ray_types.go` | spec, finalizer, deletion mark, status of the CR | create, edit, delete; the CEL rules (one name, `applicationsNamespace` immutable once set) | users, the platform operator |
| Operand collection | `owned_gc.go`, `reconcileGCAction` | none | collect by label, by ownerRef, in the lists of kinds | API server, caches |
| Notebook ClusterRole | `notebook_rbac.go` | the ClusterRole `ray` | create or update, delete | caches |
| Platform filter | `platform_filter.go` | the `sync.Once` answer to "does the cluster have SCCs?" | look up once, drop SCCs | RESTMapper |
| cert-manager requirement | `dependencies.go` | none | fail a Managed pass while the CRDs are missing | API server |
| Manifest tree, rendering | `params.go`, `render.go` | the directory `ray-module-manifests` in `/tmp` (an emptyDir) | copy, rewrite `params.env`, rewrite `kustomization.yaml`, render | kustomize |
| Status, platform ConfigMap | `status.go`, `configmap.go`, `releases.go` | the CR's status | distribution, releases, DeploymentsAvailable, Degraded, observedGeneration; ConfigMap watch | platform operator |
| Image version | `releases.go` | none | parse the KubeRay version from an image reference | – |
| Manager bootstrap | `cmd/main.go` | the TLS profile served | load, fall back, watch, restart | OpenShift API |
| Packaging, generated code, operand YAML | `charts/`, `config/`, `opt/`, `zz_generated*` | – | – | – |

What is hard about it:

* **Lag.** A pass works on an informer copy of the CR, and reads operands through
  caches. The CR may be edited, deleted or recreated under it.
* **Two writers of one finalizer.** The framework adds it; `waitForNamespace`
  drops it again, on a snapshot, while no namespace is projected; the framework
  removes it after the cleanup.
* **Events that change nothing visible.** A delete bumps no generation, the
  module's own writes must not wake it up, an unowned operand wakes nobody.
* **Failure part-way.** Every action is several API calls; `observedGeneration`
  is set before the collection; the status is written even after an error; the
  manifest tree survives a crash of the container.

What makes each part correct:

* pipeline and API: operands never outlive the finalizer; no delete is forgotten;
  when the controller rests the cluster is as the spec wants it; it does rest;
* collection: Removed is complete, CRDs are never deleted, a Managed pass spares
  what the CR does not own;
* filter: SCCs follow the cluster; requirement: a missing cert-manager blocks
  neither deletion nor later success;
* manifest tree: a render uses the values of its own pass and loses nothing;
* tree and collection together: what a pass could not render is not deleted;
* status: it is right when nothing is pending, the platform version is not
  claimed before the Deployments are available, and observedGeneration vouches
  for the conditions next to it;
* image version: the version is the tag of the image deployed;
* bootstrap: no change of the TLS settings is missed, and none causes more than
  one restart.

## 2. Modules

| Module | Models | Extends |
|---|---|---|
| `RayLifecycle` | CR, users, informer, workqueue, apply and delete path, collections, notebook role, filter, requirement, faults, third parties | – |
| `MCRayLifecycle` | the instances for TLC | `RayLifecycle` |
| `RayLifecycleProofs` | types, finalizer, collections, deletions: theorems about `RayLifecycle` | `RayLifecycle`, `TLAPS` |
| `RayReportProofs` | theorem about the report of Removed | `RayLifecycleProofs` |
| `RayRestProofs` | theorems about the controller at rest | `RayReportProofs` |
| `ModuleContract` | abstract: what the platform may rely on | – |
| `RayContract`, `MCRayContract` | the refinement mapping from `RayLifecycle` to `ModuleContract` | `RayLifecycle` |
| `RayContractProofs` | the proof of the refinement's safety part | `RayContract`, `RayReportProofs` |
| `ManifestTree`, `MCManifestTree` | the writable copy of the manifests and its rendering | – |
| `OperandSync`, `MCOperandSync` | composition: the tree, deploy and the Managed collection | `ManifestTree` |
| `PlatformStatus`, `MCPlatformStatus` | status actions and the ConfigMap watch | – |
| `ImageVersion`, `MCImageVersion` | image resolution and the version parser | – |
| `TLSBootstrap`, `MCTLSBootstrap` | one manager process after another and the TLS settings they serve | – |
| `PlatformStatusProofs`, `TLSBootstrapProofs`, `ImageVersionProofs` | theorems about the module of that name | that module, `TLAPS` |
| `OperandSyncProofs` | theorems about `ManifestTree` and `OperandSync` | `OperandSync`, `TLAPS` |

Definitions keep the name of the function they model where there is one
(`waitForNamespace`, `deleteOwnedOperands`, `setOverlayNamespace`, ...).
Definitions whose comment starts with "Mutant:" are faulty variants of the one
that follows; no specification uses them.

### RayLifecycle

State. `ray` is the CR in the API server: `uid`, `gen` (metadata.generation),
`projected` (applicationsNamespace is set), `mgmt`, `fin`, `del`, and of the
status `obs` (observedGeneration) and `prov` (ProvisioningSucceeded). `cache` is
the informer's copy, `rr` the running pass's. `objs` gives each operand its
existence, part-of label, controller ownerRef and generation annotation. `queued`
is the workqueue (one key), `pc` the step of the pass, `hasSCCs` the `sync.Once`.

* *Optimistic concurrency.* A write to the CR succeeds if the writer's copy has
  the stored resourceVersion. Versions are not counted: `cacheCurrent` and
  `snapCurrent` say whether the copy has the stored version, and any write by
  somebody else makes them false. This is exact, since a conflict depends on
  nothing else.
* *Informer.* `CacheSync` delivers the stored version, skipping intermediate
  ones. Delivering those first would only enqueue the same key more often.
* *Operand caches.* `unseen` holds the operands whose last change has not reached
  the cached client. A `Get` or `List` may answer for such an operand either way.
* *Lagging listings.* The comment in `reconcileGCAction` (`ray_controller.go:202`)
  says that the framework's discovery and label-selector listing "can lag ... and
  leave an operand behind". `Listings` models it for all three collections: one may
  leave out any operand whose last change is `unseen`, and only those; an operand
  whose change has been delivered has a kind that is discovered and is in the
  listing. `missed` keeps what the last collection of everything (Removed,
  deletion) left out. What deploy owns is not lost for good, for its late event
  wakes the controller; a missed operand without ownerRef stays.
* *The silent no-op.* `CreateOrUpdate` of the notebook role compares with a cached
  read. One that is outdated but shows the role as desired is followed by no write
  and no error (`notebook_rbac.go:56`). The role then joins `lost`, the unowned
  operands that are gone with nothing to tell the controller, next to those a third
  party deleted.
* *Steps.* One action per pipeline step that touches the cluster; those that do
  not (management state, releases, manifests, requirement, filter) are `Prepare`.
  `Deploy` covers deploy and the status actions behind it.
* *Failures.* `ActionFails` and `PassFails` let an action stop after any subset of
  its writes; `Crash` loses all volatile state between any two steps.

Assumed of the reconciler framework, which is not in the repository (these
definitions are marked external): the finalizer is added before PreApply; a false
PreApply ends the pass without retry; an action's error ends the pipeline, the
status is still written, and the key is retried; on deletion the finalizer action
runs and then the finalizer is removed; the collections list by label, with the lag described above, and never
touch CRDs, and the owned-only one keeps what carries the current generation;
dynamic ownership enqueues the CR for a change of an operand it owns; one worker,
one process; events and reads of the CR come from one informer.

Abstracted: object contents, namespaces of the listings, which of the two
cert-manager CRDs is missing, the notebook role's leftover ownerRefs of older
deployments (the role never has one here).

### ManifestTree

`tree` is the directory: whether it exists, which manifests are in it whole and
which torn, and the content of `kustomization.yaml` (complete or cut, and its namespace) and
`params.env` (two keys). A file is a set of at most one element. One action per
step of a pass, one per way it can be cut short. `Crash` keeps the tree,
`PodReplaced` removes it. A cut `kustomization.yaml` may render (fewer resources)
or not (malformed); both are allowed, and so they are for a torn manifest. `harm`
is a history variable: which of the two writes that are not atomic, the copy and
the overlay's rewrite, has been cut short in this tree; `damaged` is any of them.

### OperandSync

The steps of `ManifestTree`, followed by `filterPlatformResources`, deploy and the
owned-only collection of a Managed pass. The filter keeps its one answer
(`hasSCCs`) for the life of the process, also the wrong one of a failed lookup. Each manifest stands for the operand it holds; `applied` gives the
generation it was last applied with (0: it is not there). The collection deletes
what does not carry the pass's generation, so a manifest missing from the tree is
an operand missing from the cluster after the next spec edit, and so is an SCC that
the filter drops although an earlier process applied it. The listing of the
collection may lag and leave out any of its targets. `queued` makes
passes start only for a reason; failures and restarts are such reasons. Actions
between render and deploy that may fail are part of `DeployFails`, the status
actions behind it of `ManagedGCFails`.

### ModuleContract and RayContract

`ModuleContract` has three variables: the phase of the CR (absent, open, guarded,
closing), whether any operand is deployed, and whether the CR reports the
component removed. Deploying needs a guarding CR without such a report, reporting
needs that nothing is deployed, a guarded CR goes only through `closing` with
nothing deployed, and (fairness) it does go. `RayContract` computes the three from
the state of `RayLifecycle`: "guarded" is projected with the finalizer, "reported"
is Removed with ProvisioningSucceeded at the current generation, "deployed" leaves
out what a collection `missed`. `Release` needs
strong fairness in the contract: a pass that began before the deletion may deploy
again in between.

### PlatformStatus

`spec` and `status` are the CR in the API server, `specCache` and `statusCache` the
copy a pass starts from, `rr` and `work` the pass's own. Each namespace has a
ConfigMap; its informer first updates the store (`ConfigMapSync`) and later calls
`platformConfigMapper`, which drops the event or enqueues the CR by the cached CR
of that moment. A pass reads the ConfigMap twice, through `cmCache`. `ActionFails`
ends it with what has been built so far and ProvisioningSucceeded False. A write
for an outdated snapshot may be applied or meet a conflict: the repository does
not show which way the framework writes. Deployments and their event are one
step. A version is valid or not; which strings are valid is not modelled. The
distribution's version is validated, the handshake's is copied as it is
(`configmap.go:133`), so an invalid one does reach the releases. The CR
is not deleted here (`RayLifecycle` does that). The KubeRay entry of the releases
is `ImageVersion`'s.

### ImageVersion

A reference is a record of its parts (host, port, path, tag, digest, surrounding
blanks); `ImageText` spells it as tokens, and the parser works on the tokens as
the code does on characters. Paths are sequences of words and slashes of any
length; the set of them is a constant, since TLC needs a finite one. The
environment and the vendored `params.env` are chosen initially, since neither
changes while a pod runs. `params` is the same key in the writable copy, the one
kustomize reads: `applyParams` overrides it only if the file has it
(`params.go:146`), while `releasesAction` decides from the environment and the
vendored file. Passes repeat, and may end at any step. That the copy itself may
be cut short is `ManifestTree`'s.

### TLSBootstrap

`cluster` is the OpenShift `APIServer` object, which an administrator creates,
edits and removes. A process goes through load, options, setup and running;
`served` is the profile of its servers, `watched` what its watcher compares with.
Assumed of the TLS library, from how `main.go` uses it: loader and watcher read
the object the same way; the fallback is Intermediate with no policy; the load is
watchable if it succeeded or failed for a passing reason; a missing object is the
fallback without a watcher; a profile that cannot be read is an error only under a
policy that honours it. Left out: HTTP/2, flags and certificate files.

## 3. Runs

Safety runs use `Spec` (no fairness). `CHECK_DEADLOCK FALSE` where the system may
rest for good once the bounded budgets of users and faults are used up; the
manifest tree, its composition and the image version always have a next pass and
are checked for deadlock.

| Run | Shows | Bounds |
|---|---|---|
| `recreate` | `TypeOK`, `FinalizerGuardsOperands`, `DeletionNeverForgotten`, `CRDsSurvive` | two CRs in a row, two generations each, one fault |
| `interference` | `RemovedReportIsTrue`, `QuiescentRemoved`, `QuiescentManaged`, `ManagedPassSparesUnowned` | one CR, three generations, one fault, one third-party edit; in-tree operands |
| `scc_lookup` | `SCCsFollowCluster` violated | one CR, one fault |
| `unlisted_kind` | `RemovedDeletesOwned` violated | one CR, two generations, one label dropped |
| `manifest_tree` | `TypeOK`, `RenderUsesPassParams`, `InterruptionsHeal` | two namespaces, two manifests, three faults |
| `tree_copy` | `TreeIsCopy` violated | one fault |
| `tree_overlay` | `RenderIsComplete` (of a tree copied whole) violated | one fault |
| `operand_sync` | `OperandsSurvive`, `SyncCompletes` | a manifest and an SCC's, three generations, three faults, one pod replacement |
| `contract` | `ImplementsContract`, `DeletionCompletes`, `ComesToRest` | two CRs in a row, two generations each, one fault |
| `platform_status` | `TypeOK`, `QuiescentStatus`, `HandshakeNeedsDeployments`, `ObservedMatchesSpec` | two namespaces, two generations, three other changes, one fault |
| `image_version` | `VersionIsTag`, `ReleaseNamesDeployed` | every shape of two references or none, two tags, repeated passes |
| `tls_bootstrap` | `TypeOK`, `ServesClusterProfile`, `RestartsAreEarned`, `Converges` | four profiles, three policies, four changes, two faults |

Why the bounds are enough for the questions. The operands are one per behaviour
the code tells apart: listed and owned, owned and not listed, SCC, CRD, foreign,
notebook role. Two CRs let a pass of the first meet the second; two generations
let a pass work on an old spec; three let the spec go Managed, Removed and back,
or be projected and then toggled. One worker holds one snapshot and there is one
cache, so at most three versions of the CR are distinguishable at a time. A fault
can strike at every step of every pass; `recreate` also passes
with two, in almost four minutes. In `platform_status` three changes are enough to change the ConfigMap
between and after the two reads of a pass with the Deployments becoming
available first; the ConfigMaps are one for each case
`readPlatformDistribution` tells apart, and the two namespaces are symmetric. The
instance with three generations and two other changes also passes. In
`tls_bootstrap` the profiles are one default, one other, one unreadable and one
unusable; four changes let the settings go away from and back to what a process
read, twice. In `image_version` the instance has every shape of reference with a
path of one or two components and no or one blank around it; the theorem has
them for any length. `contract` leaves out CRDs, SCCs and third parties; its properties also
hold with two faults (`ImplementsContract`) and for one CR with a third-party edit.

Fairness (`FairSpec`): weak fairness of the worker (`Controller`: controller-runtime
takes keys as long as there are any, and each step returns), of the watches
(`CacheSync`, `Observe`) and of Kubernetes' garbage collector. None of users,
third parties, faults or the installation of cert-manager; `ComesToRest` therefore
says "if cert-manager is ever there". `operand_sync` has weak fairness of the
worker. `tls_bootstrap` has weak fairness of the process: the kubelet restarts the
container whatever ended it, its steps return (the bootstrap read has a deadline),
and the watch delivers. None of edits and faults.

What the properties say, beyond their comments in the modules:

* `FinalizerGuardsOperands` rests on the CEL rule on `applicationsNamespace`. If a
  namespace could be taken back, `waitForNamespace` would drop the finalizer of a
  CR with operands: the mutant without the rule shows it.
* `DeletionNeverForgotten` and `DeletionCompletes` rest on
  `deletionTimestampSetPredicate` and on the retry of failed passes.
* `RemovedReportIsTrue` holds although observedGeneration is recorded before the
  collection, only because ProvisioningSucceeded is False after a failure. It does
  not hold of an operand that the collection's lagging listing left out (`missed`):
  such a pass succeeds and reports.
* `FinalizerGuardsOperands` and the contract have the same exception: a deletion
  drops the finalizer once its collection ran, whatever that had listed.
* `QuiescentRemoved` allows `missed` operands only without an ownerRef. Of the
  others none is left, because the change the listing had not seen is an event that
  starts another pass.
* `QuiescentManaged` has an exception (`lost`): an operand without ownerRef that a
  third party deletes, or a notebook role that an outdated read showed in place
  after a Removed pass had deleted it, comes back only with the next pass for
  another reason.
* `InterruptionsHeal`: `params.env`, rewritten through a rename, never does lasting
  harm; the copy and the overlay do (below). `OperandsSurvive` says what that
  means for the cluster, and holds only because a failed render ends the pass
  before the collection. It and `SyncCompletes` except an SCC in a process whose
  lookup failed: finding 1 reaches as far as deleting it.
* `ReleaseNamesDeployed` excepts a `params.env` without the image's key: then
  `applyParams` overrides nothing, and the release names an image that is not
  deployed. The vendored files have the key.
* `ObservedMatchesSpec` holds because observedGeneration comes from the snapshot
  and is set behind DeploymentsAvailable.
* `QuiescentStatus`: the mapper may drop an event on an outdated CR, because the
  event that brings the CR up to date starts a pass that reads the ConfigMap.
* `ServesClusterProfile` holds because the watcher is seeded with what the
  bootstrap read and its informer lists the object first; seeding it with the
  settings of the moment would miss a change in between.
* `RestartsAreEarned` holds because it is seeded with what was read, not with what
  is served; under a policy that does not honour the profile these differ.
* `Converges` excepts a process that started when there was nothing to watch: an
  object created later is not noticed until the process restarts.

### Findings

1. `scc_lookup`: a transient RESTMapper error on the first pass counts as "no SCC
   API" for the life of the process (`platform_filter.go:51`); an SCC that an
   earlier process applied is deleted after the next spec edit.
2. `unlisted_kind`: owned operands of kinds that `deleteOwnedOperands` does not
   list stay after Removed if their label was dropped (`owned_gc.go:50`).
3. `tree_copy`: a copy cut short is taken for the complete tree by all later
   passes until the pod is replaced (`params.go:113`).
4. `tree_overlay`: a rewrite of `kustomization.yaml` cut short, in a tree that was
   copied whole, leaves a file that can render, with operands missing
   (`params.go:105`).

## 4. Proofs

What TLC shows for the instances of section 3, the theorems below show for every
value of the constants: any finite sets of operands and manifests, any namespaces
and profiles, image paths of any length, and any bounds. Every invariant and every
action property of a passing run has its theorem; of the four promises that a run
refutes, a theorem says what alone breaks them.

| Theorem | States | Inductive invariant |
|---|---|---|
| `RayLifecycleProofs!TypeCorrect` | `TypeOK` | itself |
| `RayLifecycleProofs!FinalizerGuards` | `FinalizerGuardsOperands` | `GuardInv` |
| `RayLifecycleProofs!CRDsNeverDeleted` | `CRDsSurvive` | `CollectInv` |
| `RayLifecycleProofs!ManagedSparesUnowned` | `ManagedPassSparesUnowned` | `CollectInv`, `GuardInv` |
| `RayLifecycleProofs!DeletionRemembered` | `DeletionNeverForgotten` | `DeleteInv`, `GuardInv` |
| `RayReportProofs!RemovedReportTrue` | `RemovedReportIsTrue` | `ReportInv`, `GuardInv` |
| `RayRestProofs!ManagedAtRest` | `QuiescentManaged` | `RestInv` and all of the above |
| `RayRestProofs!RemovedAtRest` | `QuiescentRemoved` | the same |
| `RayRestProofs!SCCsMissOnlyByError` | `SCCsFollowCluster`, or an API error made the lookup answer no | `LookupInv`, `RestInv` |
| `RayRestProofs!OwnedLeftAreUnlisted` | `RemovedDeletesOwned`, but for unlabelled operands of owned kinds that the lists leave out | `CollectInv`, `RestInv` |
| `RayContractProofs!ContractHolds` | `ContractSafety` | `ContractInv`, `ReportInv`, `GuardInv` |
| `OperandSyncProofs!TreeTypeCorrect` | `TypeOK` | `TreeInv` |
| `OperandSyncProofs!RenderUsesParams` | `RenderUsesPassParams` | `TreeInv` |
| `OperandSyncProofs!TreeHeals` | `InterruptionsHeal` | `TreeInv` |
| `OperandSyncProofs!DamageIsTheOnlyHarm` | `TreeIsCopy` or the copy was cut short; `RenderIsComplete` or the overlay was | `TreeInv` |
| `OperandSyncProofs!SyncRendersPassParams` | `RenderUsesPassParams` in the composition | `TreeInv` |
| `OperandSyncProofs!OperandsAlwaysSurvive` | `OperandsSurvive` | `SyncInv`, `TreeInv` |
| `PlatformStatusProofs!StatusTypeCorrect` | `TypeOK` | itself |
| `PlatformStatusProofs!HandshakeHolds` | `HandshakeNeedsDeployments` | `StatusInv` |
| `PlatformStatusProofs!ObservedMatches` | `ObservedMatchesSpec` | `StatusInv` |
| `PlatformStatusProofs!RestingStatusIsTrue` | `QuiescentStatus` | `RestInv`, `StatusInv` |
| `TLSBootstrapProofs!TLSTypeCorrect` | `TypeOK` | itself |
| `TLSBootstrapProofs!ServesProfile` | `ServesClusterProfile` | `WatchInv` |
| `TLSBootstrapProofs!RestartsEarned` | `RestartsAreEarned` | `RestartsPaid`, `WatchInv` |
| `ImageVersionProofs!VersionOfReference` | the parser finds the tag of every reference | – |
| `ImageVersionProofs!VersionsAreTags` | `VersionIsTag` | `ImageInv` |
| `ImageVersionProofs!ReleasesNameDeployed` | `ReleaseNamesDeployed` | `ImageInv` |

The inductive invariants open the proof modules. TLC found no violation of any of
them on the instances of the runs that check the properties, before they were
proved.

Assumptions. `RayLifecycle`: `ObjectsAssumption` (which sets of operands are part
of which; CRDs are neither owned, listed nor SCCs), `FlagsAssumption`,
`BoundsAssumption`. The other modules: `TreeAssumption`, `SyncAssumption`,
`StatusAssumption`, `TLSAssumption` on their constants. `ImageVersion`:
`TokensAssumption` (a host, port, word or tag holds no separator and no blank, which
the grammar of references grants), `PathsAssumption` (a path is not empty and made
of words and slashes), `BlanksAssumption`. TLC evaluates them in each run.

### The arguments

**`GuardInv`.** `FinalizerGuardsOperands` is not inductive: whether a write drops
the guard depends on the copies. `GuardInv` adds

* `CopiesAgree`: a copy with the stored version is the stored CR, so a successful
  Update starts from the truth;
* `StillGuards`: a copy that shows a guarded CR, not terminating, is not outlived;
  its CR still guards. This is what lets a pass deploy on a stale snapshot: by the
  CEL rule the namespace stays, and only a pass that started after the deletion
  mark removes the finalizer;
* `StillTerminating`: deletion is permanent, so a delete pass is never on a CR that
  an apply pass may use;
* `UIDsKnown`: copies never have a UID still to be given out, so a recreated CR is
  told apart from an old copy;
* `ApplyPassShape`, `DeletePassShape`: what is known at each step of a pass: behind
  PreApply the snapshot guards; behind the label collection of a delete pass
  nothing is left that it has not missed, so the finalizer may go.

**`CollectInv`.** An ownerRef is only on operands deploy gives one, hence never on
a CRD or on the notebook role; and the listing of owned operands runs in Removed
passes only. With this the cluster's own collector cannot reach a CRD either.

**`DeleteInv`.** A deletion the informer has delivered is in the queue or being
worked on. It holds because the predicate lets the delete pass, although it bumps
no generation, and because every way out of a delete pass but the last puts the
key back.

**`ReportInv`.** Generations are ordered: no copy is ahead of the CR, and equal
generations mean equal specs (`SameSpec`). The informer does not go back, so a
generation that a pass works on, or that has been reported, has been delivered. A
pass that deploys on a Managed snapshot therefore never follows a report of
Removed for the current generation (`ApplyingPassIsCurrent`), and only a pass on
the current spec, with everything collected but what its listing missed, can make
one.

**`RestInv`** (`RayLifecycle`). While the key is not in the queue, the running pass
works on the spec the informer last delivered, and has achieved what its step says
(`Progress`); between passes everything is done (`Done`), up to operands whose
change is still `unseen`. An event that is dropped changes neither spec nor
deletion mark; interference with an operand leaves it unseen, and what is observed
without waking the controller is not owned (`InterferenceIsUnseen`,
`RestObserve`). At rest nothing is unseen.

**`LookupInv`.** Behind `Prepare`, and so behind every pass that ended well, the
lookup of the SCC API has been made; a process that has not made it has a pass to
run. It answers no on a cluster that has the API only after an error. With `RestInv`
the SCCs are there at rest in every other case: finding 1 is the only way to lose
them. In the same way `CollectInv` reduces finding 2 to the kinds deploy owns and
the lists leave out: `OwnedLeftAreUnlisted` says of everything still owned at rest
on Removed that it is of such a kind and has lost its label.

**The refinement.** The initial states map to the contract's, and `StepRefines`
maps each step: operands appear only under the guard and without a report
(`AppliesOnly`), deletions are `CleanUp` or nothing, and the seven steps that write
the CR map to `Create`, `Guard`, `Delete`, `Report`, `Retract`, `Release` or
nothing. `ContractInv` is what one step cannot show: a pass ends well only with a
guarding snapshot, and no report outlives the guard. Without it an edit could
retract a report and change the phase at once, which is no step of the contract.

**`TreeInv`.** What each step of a pass has put into the tree, that a file is there
once or not at all, that a tree whose copy was not cut short is whole but for the
overlay, and the overlay is whole unless its rewrite was cut short. Hence
`DamageIsTheOnlyHarm`: findings 3 and 4 have one cause each. **`SyncInv`** adds that
an undamaged tree renders everything, so at the collection every operand that the
filter let through carries the pass's generation. The steps of the tree are proved
once and reused in the composition.

**`StatusInv`.** A generation names one spec; a status, a cached one or a pass's
work that observed the generation of its spec fits it; and the platform version is
only next to available Deployments, also in the copies a later pass starts from.
**`RestInv`** (`PlatformStatus`): whatever is neither queued nor on its way through
the mapper has not changed since the pass began or ended.

**`WatchInv`.** The watcher compares with what this process loaded, and with no
event pending it has seen the object as it is. **`RestartsPaid`**: a process whose
settings differ from the cluster's (`Drifted`) owes one restart, which an edit or
a failed read since its load has paid for.

**The image parser.** The parser searches with first and last positions, so no
induction over the tokens is needed: the last position of a token in `a \o b` is in
`b` if `b` has it and else in `a` (`LastIndexInSuffix`, `LastIndexBeforeSuffix`), and
it exists because the naturals are well founded (`MaximumExists`). The grammar says
of each part which separators it is free of (`HostTextShape`, `PathShape`, ...). So
trimming gives back what the blanks surround (`TrimSpaceOfBlanks`), the last at sign
starts the digest, and of a name with a tag the last colon is behind all slashes,
while a name without one has a colon only before the slash that ends the registry
(`TagOfTagged`, `TagOfUntagged`). The theorems about the specification follow with
`ImageInv`: behind `applyParams` the copy holds what the vendored file and the
environment give, also when an earlier pass has rewritten it, and the release is
what the same two give to `releasesAction`.

Each preservation proof has one step per action. Frame lemmas (`QuietStep`,
`ReportInvQuiet`, `RestQuiet`, `RestWithinPass`, ...) cover the actions that leave
alone what an invariant is about.

### Only model-checked

* Liveness: `ImplementsContract` beyond its safety part, `DeletionCompletes`,
  `ComesToRest`, `SyncCompletes`, `Converges`. The prover has no rules for fairness.
* The four violations of section 3, which are counterexamples.

## 5. Not modelled, and the plan

Not modelled: packaging, generated deep copies, operand YAML beyond its kinds,
kustomize, metrics and probes, flags and certificate files. The overlap of two
leaders: how long an old leader may go on is decided by controller-runtime's lease
timing, not by this code. A read cache of the CR apart from the informer that
delivers its events: `ray_controller_test.go:511` hints at one in the framework,
which is not in the repository.

Done: all modules above with their runs, and the proofs of every safety property.
Left: the liveness properties stay with TLC, on the instances of section 3.
