---------------------------- MODULE OperandSync -----------------------------
(***************************************************************************)
(* The manifest tree and the operands together: a Managed pass renders the *)
(* tree, filters the SecurityContextConstraints, applies what is left and  *)
(* then deletes the owned operands that this generation did not apply.     *)
(* What the tree or the filter loses, the collection deletes from the      *)
(* cluster; so it matters that a pass with a failed render never gets that *)
(* far, and that an interrupted one is repeated.                           *)
(* Each manifest stands for the operand it holds.                          *)
(***************************************************************************)
EXTENDS ManifestTree

CONSTANTS
    SCCFiles,        \* the manifests of SecurityContextConstraints
    ClusterHasSCC,   \* is security.openshift.io registered?
    MaxGeneration,   \* bound: spec edits of the CR
    MaxReplacements  \* bound: how often the pod is replaced

ASSUME SyncAssumption ==
    /\ SCCFiles \subseteq Files
    /\ ClusterHasSCC \in BOOLEAN
    /\ MaxGeneration \in Nat \ {0} /\ MaxReplacements \in Nat

VARIABLES
    generation,   \* metadata.generation of the CR
    queued,       \* is default-ray in the workqueue?
    stage,        \* "tree": the steps of ManifestTree; then "filter",
                  \* "deploy", "gc"
    rrGen,        \* the generation the pass reconciles
    hasSCCs,      \* filterPlatformResources' sync.Once result
    applied,      \* per operand the generation it carries, 0: it is not there
    replacements

syncVars == <<generation, queued, stage, rrGen, hasSCCs, applied, replacements>>
allVars  == <<vars, syncVars>>

SyncInit ==
    /\ Init
    /\ generation = 1 /\ queued = TRUE
    /\ stage = "tree" /\ rrGen = 0 /\ hasSCCs = "unset"
    /\ applied = [f \in Files |-> 0]
    /\ replacements = 0

-----------------------------------------------------------------------------
(* A spec edit, and any other event that enqueues the CR.                   *)
SpecEdit ==
    /\ generation < MaxGeneration
    /\ generation' = generation + 1 /\ queued' = TRUE
    /\ UNCHANGED <<vars, stage, rrGen, hasSCCs, applied, replacements>>

Wake ==
    /\ ~queued /\ queued' = TRUE
    /\ UNCHANGED <<vars, generation, stage, rrGen, hasSCCs, applied, replacements>>

BeginPass ==
    /\ stage = "tree" /\ queued
    /\ \E n \in Namespaces : StartPass(n)
    /\ queued' = FALSE /\ rrGen' = generation
    /\ UNCHANGED <<generation, stage, hasSCCs, applied, replacements>>

TreeStep ==
    /\ writableManifestsBase \/ applyParams \/ setOverlayNamespace
    /\ UNCHANGED syncVars

(* An action's error ends the pass, and the CR is retried; a crash ends the *)
(* process, and with it what sync.Once remembers.                           *)
TreeFails ==
    /\ \/ CopyCutShort /\ hasSCCs' \in {hasSCCs, "unset"}
       \/ OverlayCutShort /\ hasSCCs' \in {hasSCCs, "unset"}
       \/ applyParamsFails /\ UNCHANGED hasSCCs
       \/ Crash /\ hasSCCs' = "unset"
    /\ queued' = TRUE
    /\ UNCHANGED <<generation, stage, rrGen, applied, replacements>>

(* Reading the tree or running kustomize fails for a passing reason.        *)
RenderFails ==
    /\ pc = "render"
    /\ Fault /\ EndPass
    /\ UNCHANGED <<tree, result, harm>>

(* Mutant: a failed render counts as a render of nothing.                   *)
AfterRenderSwallowsError(done) == stage' = "filter" /\ UNCHANGED queued

AfterRender(done) ==
    \/ done /\ stage' = "filter" /\ UNCHANGED queued
    \/ ~done /\ queued' = TRUE /\ UNCHANGED stage

Render ==
    /\ RenderKustomize \/ RenderFails
    /\ AfterRender(result'.done)
    /\ UNCHANGED <<generation, rrGen, hasSCCs, applied, replacements>>

(* The lookup runs once per process.                                        *)
filterPlatformResources ==
    /\ stage = "filter" /\ stage' = "deploy"
    /\ hasSCCs' = IF hasSCCs # "unset" THEN hasSCCs
                  ELSE IF ClusterHasSCC THEN "yes" ELSE "no"
    /\ UNCHANGED <<vars, generation, queued, rrGen, applied, replacements>>

(* RESTMapping fails for a transient reason and once.Do keeps the answer.   *)
RESTMappingFails ==
    /\ stage = "filter" /\ stage' = "deploy"
    /\ Fault
    /\ hasSCCs = "unset" /\ hasSCCs' = "no"
    /\ UNCHANGED <<tree, pc, ns, result, harm, generation, queued, rrGen, applied,
                   replacements>>

(* The operands rendered: those of a cut overlay, or of a torn manifest,    *)
(* are any of the files left.                                               *)
RenderedSets == IF result.complete THEN {Files}
                ELSE IF result.done THEN SUBSET (tree.files \cup tree.torn)
                ELSE {{}}

(* Without the API the SecurityContextConstraints are skipped.              *)
Filtered(F) == IF hasSCCs = "no" THEN F \ SCCFiles ELSE F

Apply(F) == applied' = [f \in Files |-> IF f \in F THEN rrGen ELSE applied[f]]

Deploy ==
    /\ stage = "deploy" /\ stage' = "gc"
    /\ \E F \in RenderedSets : Apply(Filtered(F))
    /\ UNCHANGED <<vars, generation, queued, rrGen, hasSCCs, replacements>>

(* An action before deploy fails, or the API refuses one of the objects:    *)
(* those before it are applied.                                             *)
DeployFails ==
    /\ \/ stage = "filter" /\ UNCHANGED applied
       \/ /\ stage = "deploy"
          /\ \E F \in RenderedSets : \E G \in SUBSET Filtered(F) : Apply(G)
    /\ stage' = "tree"
    /\ Fault
    /\ queued' = TRUE
    /\ UNCHANGED <<tree, pc, ns, result, harm, generation, rrGen, hasSCCs,
                   replacements>>

Delete(F) == applied' = [f \in Files |-> IF f \in F THEN 0 ELSE applied[f]]

(* reconcileGCAction of a Managed pass: owned operands that do not carry    *)
(* the pass's generation go, those that its listing has caught up with.     *)
GCTargets == {f \in Files : applied[f] # rrGen}

ManagedGC ==
    /\ stage = "gc" /\ stage' = "tree"
    /\ \E F \in SUBSET GCTargets : Delete(F)
    /\ UNCHANGED <<vars, generation, queued, rrGen, hasSCCs, replacements>>

(* A status action behind deploy or one of the deletions fails.             *)
ManagedGCFails ==
    /\ stage = "gc" /\ stage' = "tree"
    /\ Fault
    /\ \E F \in SUBSET GCTargets : Delete(F)
    /\ queued' = TRUE
    /\ UNCHANGED <<tree, pc, ns, result, harm, generation, rrGen, hasSCCs,
                   replacements>>

(* The container dies between render, deploy and collection.                *)
CrashInCluster ==
    /\ stage # "tree" /\ stage' = "tree"
    /\ Fault
    /\ queued' = TRUE /\ hasSCCs' = "unset"
    /\ UNCHANGED <<tree, pc, ns, result, harm, generation, rrGen, applied,
                   replacements>>

ReplacePod ==
    /\ replacements < MaxReplacements /\ replacements' = replacements + 1
    /\ PodReplaced
    /\ stage' = "tree" /\ queued' = TRUE /\ hasSCCs' = "unset"
    /\ UNCHANGED <<generation, rrGen, applied>>

Pass ==
    \/ BeginPass \/ TreeStep \/ Render \/ filterPlatformResources
    \/ Deploy \/ ManagedGC

SyncNext ==
    \/ Pass
    \/ SpecEdit \/ Wake
    \/ TreeFails \/ RESTMappingFails \/ DeployFails \/ ManagedGCFails
    \/ CrashInCluster
    \/ ReplacePod

SyncSpec == SyncInit /\ [][SyncNext]_allVars

(* The worker takes a key as long as there is one, and every step returns.  *)
FairSyncSpec == SyncSpec /\ WF_allVars(Pass)

-----------------------------------------------------------------------------
(* An SCC this process no longer applies: its one lookup answered no.       *)
FilteredOut(f) == f \in SCCFiles /\ hasSCCs = "no"

(* While the tree has not been damaged no step of any pass deletes an       *)
(* operand of the overlay: interrupted rewrites, failed deploys, crashes,   *)
(* new generations and new pods only delay it. The one exception is an SCC  *)
(* that an earlier process applied: a failed lookup in this one filters it  *)
(* out of a complete render, and the next generation's collection takes it. *)
OperandsSurvive ==
    [][~damaged => \A f \in Files :
          applied[f] # 0 => applied'[f] # 0 \/ FilteredOut(f)]_allVars

Synced == \A f \in Files : applied[f] = generation \/ FilteredOut(f)

(* After any failure that leaves the tree whole, and after the replacement  *)
(* of a pod with a damaged one, all operands reach the CR's generation, but *)
(* for the SCCs while the process remembers a lookup that answered no.      *)
SyncCompletes == ~damaged ~> (Synced \/ damaged)
=============================================================================
