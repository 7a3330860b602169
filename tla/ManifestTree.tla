---------------------------- MODULE ManifestTree ----------------------------
(***************************************************************************)
(* The writable copy of the vendored manifests in os.TempDir: each Managed *)
(* pass makes sure it exists, rewrites params.env and the overlay's        *)
(* kustomization.yaml in it, and renders it. /tmp is an emptyDir: the copy *)
(* outlives a crash of the container and goes away with the pod.           *)
(***************************************************************************)
EXTENDS Naturals, FiniteSets

CONSTANTS
    Namespaces,    \* values of applicationsNamespace, one per Ray CR
    Files,         \* vendored manifests other than the two rewritten files
    VendoredNS,    \* the namespace the vendored overlay names
    VendoredImage, \* the image the vendored params.env names
    RelatedImage,  \* RELATED_IMAGE_* of this deployment
    None,          \* an absent value
    MaxFaults      \* bound: I/O errors and crashes

ASSUME TreeAssumption ==
    /\ IsFiniteSet(Files)
    /\ None \notin Namespaces \cup {VendoredNS, VendoredImage}
    /\ VendoredNS \notin Namespaces
    /\ MaxFaults \in Nat

VARIABLES
    tree,    \* the directory ray-module-manifests
    pc,      \* the step of the pass
    ns,      \* the pass's applicationsNamespace
    result,  \* what the last completed render produced
    harm,    \* history: the writes to this tree that were cut short
    faults

vars == <<tree, pc, ns, result, harm, faults>>

(* Has the copy of the tree, or a write of its overlay, been cut short?     *)
damaged == harm # {}

(* kustomization.yaml: does it still list everything, and which namespace   *)
(* does it set? params.env: its two values, None for a missing key.         *)
Kustomizations == [whole: BOOLEAN, ns: Namespaces \cup {VendoredNS, None}]
Params == [ns: Namespaces \cup {VendoredNS, None},
           image: {VendoredImage, RelatedImage, None}]

SourceKustomization == [whole |-> TRUE, ns |-> VendoredNS]
SourceParams == [ns |-> VendoredNS, image |-> VendoredImage]
CutParams    == [ns |-> None, image |-> None]

NoTree == [present |-> FALSE, files |-> {}, torn |-> {}, kust |-> {},
           params |-> {}]

(* files are there whole, torn ones end early. Each of the two rewritten    *)
(* files is a set with at most one element: its content, if it is there.    *)
SourceTree == [present |-> TRUE, files |-> Files, torn |-> {},
               kust |-> {SourceKustomization}, params |-> {SourceParams}]

NoRender == [done |-> FALSE, complete |-> FALSE, ns |-> None, params |-> CutParams]

Init ==
    /\ tree = NoTree /\ pc = "idle" /\ ns = None
    /\ result = NoRender /\ harm = {} /\ faults = 0

Fault == faults < MaxFaults /\ faults' = faults + 1

EndPass == pc' = "idle" /\ ns' = None

-----------------------------------------------------------------------------
StartPass(n) ==
    /\ pc = "idle"
    /\ ns' = n /\ pc' = "copy"
    /\ result' = NoRender
    /\ UNCHANGED <<tree, harm, faults>>

(* Whatever Stat finds at the destination is taken for the copy.            *)
writableManifestsBase ==
    /\ pc = "copy"
    /\ tree' = IF tree.present THEN tree ELSE SourceTree
    /\ pc' = "params"
    /\ UNCHANGED <<ns, result, harm, faults>>

(* copyDir stops after MkdirAll: some files are there, one may be torn.     *)
CopyCutShort ==
    /\ pc = "copy" /\ ~tree.present
    /\ Fault
    /\ \E F \in SUBSET Files, T \in SUBSET Files,
          k \in {{}, {[whole |-> FALSE, ns |-> None]}, {SourceKustomization}},
          p \in {{}, {CutParams}, {SourceParams}} :
            /\ T \cap F = {} /\ Cardinality(T) <= 1
            /\ tree' = [present |-> TRUE, files |-> F, torn |-> T, kust |-> k,
                        params |-> p]
    /\ harm' = harm \cup {"copy"}
    /\ EndPass
    /\ UNCHANGED result

(* Mutant: an override replaces only values that are missing.               *)
UpdatedParamsIfMissing(p, n) ==
    [ns |-> IF p.ns = None THEN n ELSE p.ns,
     image |-> IF p.image # None /\ RelatedImage # None THEN RelatedImage
               ELSE p.image]

(* Mutant: the key of the image override is written to the namespace.       *)
UpdatedParamsWrongKey(p, n) == [ns |-> RelatedImage, image |-> p.image]

(* The image override applies to keys the file has; namespace is always set.*)
UpdatedParams(p, n) ==
    [ns |-> n,
     image |-> IF p.image # None /\ RelatedImage # None THEN RelatedImage
               ELSE p.image]

(* A missing params.env is no error. The rename makes the rewrite atomic.   *)
applyParams ==
    /\ pc = "params"
    /\ tree' = [tree EXCEPT !.params = {UpdatedParams(p, ns) : p \in @}]
    /\ pc' = "overlay"
    /\ UNCHANGED <<ns, result, harm, faults>>

(* Mutant: params.env is rewritten in place.                                *)
ParamsAfterFailureInPlace(before) == {before, {CutParams}}

(* What a failed rewrite leaves: the temporary file is discarded.           *)
ParamsAfterFailure(before) == {before}

applyParamsFails ==
    /\ pc = "params" /\ tree.params # {}
    /\ Fault
    /\ \E p \in ParamsAfterFailure(tree.params) :
            tree' = [tree EXCEPT !.params = p]
    /\ EndPass
    /\ UNCHANGED <<result, harm>>

(* The namespace line is replaced, or appended when the regexp finds none.  *)
setOverlayNamespace ==
    /\ pc = "overlay"
    /\ tree' = [tree EXCEPT !.kust = {[k EXCEPT !.ns = ns] : k \in @}]
    /\ pc' = "render"
    /\ UNCHANGED <<ns, result, harm, faults>>

(* os.WriteFile truncates first: an error or a crash leaves a prefix, which *)
(* ends before or after the namespace line.                                 *)
OverlayCutShort ==
    /\ pc = "overlay" /\ tree.kust # {}
    /\ Fault
    /\ \E n \in {None, ns} :
            tree' = [tree EXCEPT !.kust = {[whole |-> FALSE, ns |-> n]}]
    /\ harm' = harm \cup {"overlay"}
    /\ EndPass
    /\ UNCHANGED result

(* Kustomize fails when kustomization.yaml or a file it names is missing,   *)
(* or a var has no value. A prefix of kustomization.yaml names fewer files: *)
(* it renders what they hold, unless the cut makes it malformed; so does a  *)
(* prefix of a manifest.                                                    *)
Renders(k) ==
    /\ k.whole
    /\ tree.files \cup tree.torn = Files
    /\ \E p \in tree.params : p.image # None /\ p.ns # None

RenderKustomize ==
    /\ pc = "render"
    /\ \/ \E k \in tree.kust :
            /\ Renders(k) \/ ~k.whole
            /\ result' = [done |-> TRUE,
                          complete |-> k.whole /\ tree.torn = {}, ns |-> ns,
                          params |-> IF tree.params = {} THEN CutParams
                                     ELSE CHOOSE p \in tree.params : TRUE]
       \/ /\ ~(tree.torn = {} /\ \E k \in tree.kust : Renders(k))
          /\ UNCHANGED result
    /\ EndPass
    /\ UNCHANGED <<tree, harm, faults>>

(* The container dies between two steps; the emptyDir stays.                *)
Crash ==
    /\ pc # "idle"
    /\ Fault /\ EndPass
    /\ UNCHANGED <<tree, result, harm>>

(* The pod is replaced, and with it /tmp.                                   *)
PodReplaced ==
    /\ tree.present
    /\ tree' = NoTree /\ harm' = {}
    /\ EndPass /\ result' = NoRender
    /\ UNCHANGED faults

Next ==
    \/ \E n \in Namespaces : StartPass(n)
    \/ writableManifestsBase \/ applyParams \/ setOverlayNamespace
    \/ RenderKustomize
    \/ CopyCutShort \/ applyParamsFails \/ OverlayCutShort \/ Crash
    \/ PodReplaced

Spec == Init /\ [][Next]_vars

-----------------------------------------------------------------------------
(* The tree holds each file at most once, and params.env only namespaces    *)
(* and images in their own keys.                                            *)
TypeOK ==
    /\ tree.present \in BOOLEAN
    /\ tree.files \subseteq Files /\ tree.torn \subseteq Files \ tree.files
    /\ tree.kust \subseteq Kustomizations /\ Cardinality(tree.kust) <= 1
    /\ tree.params \subseteq Params /\ Cardinality(tree.params) <= 1
    /\ pc \in {"idle", "copy", "params", "overlay", "render"}
    /\ ns \in Namespaces \cup {None}
    /\ harm \subseteq {"copy", "overlay"} /\ faults \in 0..MaxFaults

(* A render of the whole overlay never mixes passes: the params.env it read *)
(* names the namespace of the CR being reconciled, not the vendored one or  *)
(* an earlier CR's, and the image the platform injected, after any failures.*)
RenderUsesPassParams ==
    result.done /\ result.complete =>
        /\ result.params.ns = result.ns
        /\ result.params.image = IF RelatedImage = None THEN VendoredImage
                                 ELSE RelatedImage

(* Only a copy or an overlay write cut short does lasting harm: after a     *)
(* failed rewrite of params.env or a crash between two steps the next pass  *)
(* always finds a tree that renders everything.                             *)
InterruptionsHeal ==
    pc = "render" /\ ~damaged => \E k \in tree.kust : Renders(k) /\ k.ns = ns

(* What the comment on writableManifestsBase promises: later writes and     *)
(* kustomize reads share a copy of basePath.                                *)
TreeIsCopy ==
    pc = "params" => /\ tree.files = Files
                     /\ tree.kust # {} /\ tree.params # {}

(* What the comment on RenderKustomize promises, of a tree that was copied  *)
(* whole: a pass that renders has read the vendored manifests, all that the *)
(* overlay names.                                                           *)
RenderIsComplete == "copy" \notin harm /\ result.done => result.complete
=============================================================================
