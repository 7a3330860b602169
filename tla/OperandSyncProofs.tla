------------------------- MODULE OperandSyncProofs --------------------------
(***************************************************************************)
(* Proofs about ManifestTree and OperandSync, for every set of files and   *)
(* namespaces and every number of interruptions. What is shown of the tree *)
(* is carried over to the pass that deploys and collects what it renders.  *)
(***************************************************************************)
EXTENDS OperandSync, FiniteSetTheorems, TLAPS

(* What the steps of a pass rely on, and every interruption leaves.         *)

Trees == [present: BOOLEAN, files: SUBSET Files, torn: SUBSET Files,
          kust: SUBSET Kustomizations, params: SUBSET Params]

(* A file is there once or not at all.                                      *)
AtMostOne(content) == content = {} \/ \E c \in content : content = {c}

(* params.env as the running pass has rewritten it: None where the file has *)
(* lost the key.                                                            *)
PassParams(p) ==
    /\ p.ns = ns
    /\ p.image \in {None, IF RelatedImage = None THEN VendoredImage
                          ELSE RelatedImage}

(* As much of the tree as no interruption but a cut copy harms.             *)
CopyWhole ==
    /\ tree.files = Files /\ tree.torn = {} /\ tree.kust # {}
    /\ \E p \in tree.params : p.image # None /\ p.ns # None

TreeInv ==
    /\ tree \in Trees /\ AtMostOne(tree.kust) /\ AtMostOne(tree.params)
    /\ tree.torn \cap tree.files = {}
    /\ pc # "idle" => ns # None /\ ~result.done
    /\ pc \in {"params", "overlay", "render"} => tree.present
    /\ pc \in {"overlay", "render"} => \A p \in tree.params : PassParams(p)
    /\ pc = "render" => \A k \in tree.kust : k.ns = ns
    /\ tree.present /\ "copy" \notin harm => CopyWhole
    /\ tree.present /\ harm = {} => \A k \in tree.kust : k.whole
    /\ RenderUsesPassParams

-----------------------------------------------------------------------------
(* The tree the copy makes, and no tree, are trees.                         *)
LEMMA TreeFacts ==
    /\ NoTree \in Trees /\ SourceTree \in Trees
    /\ SourceKustomization \in Kustomizations /\ SourceParams \in Params
    /\ CutParams \in Params
    /\ [whole |-> FALSE, ns |-> None] \in Kustomizations
    /\ NoTree.present = FALSE /\ SourceTree.present = TRUE
    /\ SourceTree.files = Files /\ SourceTree.torn = {}
    /\ NoTree.files = {} /\ NoTree.torn = {}
    /\ SourceTree.kust = {SourceKustomization}
    /\ SourceTree.params = {SourceParams}
    /\ SourceKustomization.whole
    /\ SourceParams.image # None /\ SourceParams.ns # None
BY TreeAssumption DEF NoTree, SourceTree, Trees, SourceKustomization,
   Kustomizations, SourceParams, Params, CutParams

(* A file that is there at most once counts for at most one.                *)
LEMMA AtMostOneCounts ==
    ASSUME NEW S, AtMostOne(S) PROVE IsFiniteSet(S) /\ Cardinality(S) <= 1
<1>1. CASE S = {}
  BY <1>1, FS_EmptySet
<1>2. ASSUME NEW c \in S, S = {c} PROVE IsFiniteSet(S) /\ Cardinality(S) <= 1
  <2>1. IsFiniteSet({c}) /\ Cardinality({c}) = 1
    BY FS_Singleton
  <2>2. QED
    BY <1>2, <2>1
<1>3. QED
  BY <1>1, <1>2 DEF AtMostOne

(* The rewrite of params.env sets the namespace and keeps the keys.         *)
LEMMA UpdatedParamsFacts ==
    ASSUME NEW p \in Params, NEW n \in Namespaces
    PROVE  /\ UpdatedParams(p, n) \in Params
           /\ UpdatedParams(p, n).ns = n
           /\ UpdatedParams(p, n).image \in
                {None, IF RelatedImage = None THEN VendoredImage ELSE RelatedImage}
           /\ p.image # None => UpdatedParams(p, n).image # None
BY TreeAssumption DEF Params, UpdatedParams

(* What a render that includes the whole overlay has read.                  *)
LEMMA RenderedParams ==
    ASSUME AtMostOne(tree.params), \A p \in tree.params : PassParams(p),
           NEW k, Renders(k)
    PROVE  /\ tree.params # {}
           /\ LET p == CHOOSE p \in tree.params : TRUE
              IN  /\ p.ns = ns
                  /\ p.image = IF RelatedImage = None THEN VendoredImage
                               ELSE RelatedImage
<1>1. PICK p \in tree.params : p.image # None /\ p.ns # None
  BY DEF Renders
<1>2. tree.params = {p}
  BY <1>1 DEF AtMostOne
<1>3. (CHOOSE q \in tree.params : TRUE) = p
  BY <1>2
<1>4. QED
  BY <1>1, <1>3 DEF PassParams

-----------------------------------------------------------------------------
(* The steps of a pass and all that cuts them off keep the tree in shape;   *)
(* so does whatever leaves the tree and the pass alone.                     *)

treeVars == <<tree, pc, ns, result, harm>>

(* Leaving the tree alone keeps it as it is, also in a pass that ends.      *)
LEMMA TreeInvEnd ==
    ASSUME TreeInv, EndPass, UNCHANGED <<tree, harm>>,
           RenderUsesPassParams'
    PROVE  TreeInv'
BY DEF TreeInv, EndPass, CopyWhole, AtMostOne

(* TreeInv is inductive, given the types.                                   *)
LEMMA TreeInvStep ==
    ASSUME TypeOK, TreeInv, Next \/ UNCHANGED treeVars PROVE TreeInv'
<1> USE TreeFacts
<1>0. ASSUME UNCHANGED result PROVE RenderUsesPassParams'
  BY <1>0 DEF TreeInv, RenderUsesPassParams
<1>n. RenderUsesPassParams' \/ result' # NoRender
  BY DEF RenderUsesPassParams, NoRender
<1>1. ASSUME NEW n \in Namespaces, StartPass(n) PROVE TreeInv'
  BY <1>1, <1>n, TreeAssumption DEF StartPass, TreeInv, CopyWhole, AtMostOne,
     NoRender
<1>2. CASE writableManifestsBase
  <2>1. /\ pc = "copy" /\ pc' = "params" /\ UNCHANGED <<ns, result, harm>>
        /\ tree' = IF tree.present THEN tree ELSE SourceTree
    BY <1>2 DEF writableManifestsBase
  <2>2. tree' \in Trees /\ AtMostOne(tree'.kust) /\ AtMostOne(tree'.params)
        /\ tree'.present /\ tree'.torn \cap tree'.files = {}
    BY <2>1 DEF TreeInv, AtMostOne, Trees
  <2>3. /\ "copy" \notin harm => CopyWhole'
        /\ harm = {} => \A k \in tree'.kust : k.whole
    BY <2>1 DEF TreeInv, CopyWhole
  <2>4. QED
    BY <1>0, <2>1, <2>2, <2>3 DEF TreeInv
<1>3. CASE CopyCutShort
  <2>1. /\ "copy" \in harm' /\ UNCHANGED result /\ EndPass
    BY <1>3 DEF CopyCutShort
  <2>2. /\ tree' \in Trees /\ AtMostOne(tree'.kust) /\ AtMostOne(tree'.params)
        /\ tree'.torn \cap tree'.files = {}
    <3>1. PICK F \in SUBSET Files, T \in SUBSET Files,
               k \in {{}, {[whole |-> FALSE, ns |-> None]}, {SourceKustomization}},
               p \in {{}, {CutParams}, {SourceParams}} :
                  /\ T \cap F = {} /\ Cardinality(T) <= 1
                  /\ tree' = [present |-> TRUE, files |-> F, torn |-> T, kust |-> k,
                              params |-> p]
      BY <1>3, Zenon DEF CopyCutShort
    <3>2. k \in SUBSET Kustomizations /\ p \in SUBSET Params
      BY <3>1
    <3>3. QED
      BY <3>1, <3>2 DEF Trees, AtMostOne
  <2>3. QED
    BY <1>0, <2>1, <2>2 DEF TreeInv, EndPass
<1>4. CASE applyParams
  <2> DEFINE new == {UpdatedParams(p, ns) : p \in tree.params}
  <2>1. /\ pc = "params" /\ pc' = "overlay" /\ UNCHANGED <<ns, result, harm>>
        /\ tree' = [tree EXCEPT !.params = new]
    BY <1>4 DEF applyParams
  <2>2. ns \in Namespaces /\ tree.params \subseteq Params
    BY <2>1 DEF TypeOK, TreeInv, Trees
  <2>3. new \in SUBSET Params /\ AtMostOne(new) /\ \A p \in new : PassParams(p)
    BY <2>2, UpdatedParamsFacts DEF TreeInv, AtMostOne, PassParams
  <2>4. /\ tree' \in Trees /\ tree'.params = new
        /\ tree'.kust = tree.kust /\ tree'.files = tree.files
        /\ tree'.torn = tree.torn
        /\ tree'.present = tree.present
    BY <2>1, <2>3 DEF TreeInv, Trees
  <2>5. CopyWhole => CopyWhole'
    <3> SUFFICES ASSUME CopyWhole PROVE CopyWhole'
      OBVIOUS
    <3>1. PICK p \in tree.params : p.image # None /\ p.ns # None
      BY DEF CopyWhole
    <3>2. UpdatedParams(p, ns) \in new /\ UpdatedParams(p, ns).image # None
          /\ UpdatedParams(p, ns).ns # None
      BY <2>2, <3>1, UpdatedParamsFacts, TreeAssumption
    <3>3. QED
      BY <2>4, <3>2 DEF CopyWhole
  <2>6. \A p \in tree'.params : PassParams(p)'
    BY <2>1, <2>3, <2>4 DEF PassParams
  <2>7. QED
    BY <1>0, <2>1, <2>3, <2>4, <2>5, <2>6 DEF TreeInv
<1>5. CASE applyParamsFails
  <2>1. tree' = tree
    BY <1>5 DEF applyParamsFails, ParamsAfterFailure, TreeInv, Trees
  <2>2. QED
    BY <1>0, <1>5, <2>1, TreeInvEnd DEF applyParamsFails
<1>6. CASE setOverlayNamespace
  <2> DEFINE new == {[k EXCEPT !.ns = ns] : k \in tree.kust}
  <2>1. /\ pc = "overlay" /\ pc' = "render" /\ UNCHANGED <<ns, result, harm>>
        /\ tree' = [tree EXCEPT !.kust = new]
    BY <1>6 DEF setOverlayNamespace
  <2>2. ns \in Namespaces \cup {None} /\ tree.kust \subseteq Kustomizations
    BY <2>1 DEF TypeOK, TreeInv, Trees
  <2>3. ASSUME NEW k \in tree.kust
        PROVE  /\ [k EXCEPT !.ns = ns] \in Kustomizations
               /\ [k EXCEPT !.ns = ns].ns = ns /\ [k EXCEPT !.ns = ns].whole = k.whole
    BY <2>2 DEF Kustomizations
  <2>4. new \in SUBSET Kustomizations /\ AtMostOne(new) /\ \A k \in new : k.ns = ns
    <3>1. new \in SUBSET Kustomizations /\ \A k \in new : k.ns = ns
      BY <2>3
    <3>2. CASE tree.kust = {}
      BY <3>2 DEF AtMostOne
    <3>3. ASSUME NEW c \in tree.kust, tree.kust = {c} PROVE AtMostOne(new)
      <4>1. new = {[c EXCEPT !.ns = ns]}
        BY <3>3
      <4>2. QED
        BY <4>1 DEF AtMostOne
    <3>4. QED
      BY <3>1, <3>2, <3>3 DEF TreeInv, AtMostOne
  <2>5. /\ tree' \in Trees /\ tree'.kust = new
        /\ tree'.params = tree.params /\ tree'.files = tree.files
        /\ tree'.torn = tree.torn
        /\ tree'.present = tree.present
    BY <2>1, <2>4 DEF TreeInv, Trees
  <2>6. /\ CopyWhole => CopyWhole'
        /\ (\A k \in tree.kust : k.whole) => \A k \in tree'.kust : k.whole
    <3>1. CopyWhole => CopyWhole'
      BY <2>5 DEF CopyWhole
    <3>2. QED
      BY <2>3, <2>5, <3>1
  <2>7. \A p \in tree'.params : PassParams(p)'
    BY <2>1, <2>5 DEF TreeInv, PassParams
  <2>8. QED
    BY <1>0, <2>1, <2>4, <2>5, <2>6, <2>7 DEF TreeInv
<1>7. CASE OverlayCutShort
  <2>1. /\ harm' = harm \cup {"overlay"} /\ UNCHANGED result /\ EndPass
    BY <1>7 DEF OverlayCutShort
  <2>2. /\ tree' \in Trees /\ AtMostOne(tree'.kust) /\ AtMostOne(tree'.params)
        /\ tree'.torn \cap tree'.files = {}
        /\ CopyWhole => CopyWhole'
        /\ tree'.present = tree.present
    <3>1. PICK n \in {None, ns} :
                tree' = [tree EXCEPT !.kust = {[whole |-> FALSE, ns |-> n]}]
      BY <1>7 DEF OverlayCutShort
    <3>2. [whole |-> FALSE, ns |-> n] \in Kustomizations
      BY <3>1 DEF TypeOK, Kustomizations
    <3>3. tree' \in Trees /\ tree'.kust = {[whole |-> FALSE, ns |-> n]}
          /\ tree'.params = tree.params /\ tree'.files = tree.files
          /\ tree'.torn = tree.torn /\ tree'.present = tree.present
      BY <3>1, <3>2 DEF TreeInv, Trees
    <3>4. QED
      BY <3>3 DEF TreeInv, AtMostOne, CopyWhole
  <2>3. QED
    BY <1>0, <2>1, <2>2 DEF TreeInv, EndPass
<1>8. CASE RenderKustomize
  <2>1. EndPass /\ UNCHANGED <<tree, harm>> /\ pc = "render"
    BY <1>8 DEF RenderKustomize
  <2>2. RenderUsesPassParams'
    <3>1. CASE UNCHANGED result
      BY <1>0, <3>1
    <3>2. ASSUME NEW k \in tree.kust, Renders(k) \/ ~k.whole,
                 result' = [done |-> TRUE,
                            complete |-> k.whole /\ tree.torn = {}, ns |-> ns,
                            params |-> IF tree.params = {} THEN CutParams
                                       ELSE CHOOSE p \in tree.params : TRUE]
          PROVE  RenderUsesPassParams'
      <4>1. CASE ~k.whole
        BY <3>2, <4>1 DEF RenderUsesPassParams
      <4>2. CASE Renders(k)
        <5>1. AtMostOne(tree.params) /\ \A p \in tree.params : PassParams(p)
          BY <2>1 DEF TreeInv
        <5>2. /\ tree.params # {}
              /\ (CHOOSE p \in tree.params : TRUE).ns = ns
              /\ (CHOOSE p \in tree.params : TRUE).image =
                    IF RelatedImage = None THEN VendoredImage ELSE RelatedImage
          BY <4>2, <5>1, RenderedParams
        <5>3. QED
          BY <3>2, <5>2 DEF RenderUsesPassParams
      <4>3. QED
        BY <3>2, <4>1, <4>2
    <3>3. QED
      BY <1>8, <3>1, <3>2 DEF RenderKustomize
  <2>3. QED
    BY <2>1, <2>2, TreeInvEnd
<1>9. CASE Crash
  BY <1>0, <1>9, TreeInvEnd DEF Crash
<1>10. CASE PodReplaced
  BY <1>n, <1>10 DEF PodReplaced, EndPass, TreeInv, AtMostOne, NoTree
<1>11. CASE UNCHANGED treeVars
  BY <1>0, <1>11 DEF treeVars, TreeInv, CopyWhole, PassParams
<1>12. QED
  BY <1>1, <1>2, <1>3, <1>4, <1>5, <1>6, <1>7, <1>8, <1>9, <1>10, <1>11 DEF Next

(* The types hold of every tree in shape; the counters are bounded.         *)
LEMMA TypeOKStep ==
    ASSUME TypeOK, TreeInv, TreeInv', Next \/ UNCHANGED treeVars,
           faults' \in 0..MaxFaults
    PROVE  TypeOK'
<1>1. /\ tree'.present \in BOOLEAN /\ tree'.files \subseteq Files
      /\ tree'.torn \subseteq Files \ tree'.files
      /\ tree'.kust \subseteq Kustomizations /\ Cardinality(tree'.kust) <= 1
      /\ tree'.params \subseteq Params /\ Cardinality(tree'.params) <= 1
  BY AtMostOneCounts DEF TreeInv, Trees
<1>2. /\ pc' \in {"idle", "copy", "params", "overlay", "render"}
      /\ ns' \in Namespaces \cup {None} /\ harm' \subseteq {"copy", "overlay"}
  BY DEF TypeOK, Next, StartPass, writableManifestsBase, applyParams,
     setOverlayNamespace, RenderKustomize, CopyCutShort, applyParamsFails,
     OverlayCutShort, Crash, PodReplaced, EndPass, treeVars
<1>3. QED
  BY <1>1, <1>2 DEF TypeOK

(* No interruption is counted beyond its bound.                             *)
LEMMA FaultsBounded ==
    ASSUME TypeOK, [Next]_vars PROVE faults' \in 0..MaxFaults
<1>1. Fault => faults' \in 0..MaxFaults
  BY TreeAssumption DEF TypeOK, Fault
<1>2. QED
  BY <1>1 DEF TypeOK, Next, StartPass, writableManifestsBase, applyParams,
     setOverlayNamespace, RenderKustomize, CopyCutShort, applyParamsFails,
     OverlayCutShort, Crash, PodReplaced, vars

(* Before the first pass there is no tree.                                  *)
LEMMA TreeInit == Init => TypeOK /\ TreeInv
<1> SUFFICES ASSUME Init PROVE TypeOK /\ TreeInv
  OBVIOUS
<1>1. TypeOK
  <2>1. Cardinality({}) <= 1
    BY FS_EmptySet
  <2>2. 0 \in 0..MaxFaults
    BY TreeAssumption
  <2>3. QED
    BY <2>1, <2>2 DEF Init, TypeOK, NoTree
<1>2. TreeInv
  BY TreeFacts DEF Init, TreeInv, AtMostOne, RenderUsesPassParams, NoRender, NoTree
<1>3. QED
  BY <1>1, <1>2

(* Types and shape hold together in every behaviour.                        *)
LEMMA TreeInvAlways == Spec => [](TypeOK /\ TreeInv)
<1>1. TypeOK /\ TreeInv /\ [Next]_vars => (TypeOK /\ TreeInv)'
  <2> SUFFICES ASSUME TypeOK, TreeInv, [Next]_vars PROVE (TypeOK /\ TreeInv)'
    OBVIOUS
  <2>1. Next \/ UNCHANGED treeVars
    BY DEF vars, treeVars
  <2>2. TreeInv'
    BY <2>1, TreeInvStep
  <2>3. QED
    BY <2>1, <2>2, TypeOKStep, FaultsBounded
<1>2. QED
  BY <1>1, TreeInit, PTL DEF Spec

(* Every behaviour is well-typed: each file is in the tree at most once.    *)
THEOREM TreeTypeCorrect == Spec => []TypeOK
BY TreeInvAlways, PTL

(* A complete render never mixes passes: it has read the namespace of the   *)
(* CR reconciled and the image the platform injected, after any number of   *)
(* interruptions, crashes and new pods.                                     *)
THEOREM RenderUsesParams == Spec => []RenderUsesPassParams
<1>1. TreeInv => RenderUsesPassParams
  BY DEF TreeInv
<1>2. QED
  BY <1>1, TreeInvAlways, PTL

(* An undamaged tree renders.                                               *)
LEMMA WholeTreeRenders ==
    ASSUME TreeInv, pc = "render", ~damaged
    PROVE  /\ \E k \in tree.kust : k.whole /\ Renders(k) /\ k.ns = ns
           /\ tree.torn = {}
<1>1. CopyWhole /\ \A k \in tree.kust : k.whole
  BY DEF TreeInv, damaged
<1>2. PICK k \in tree.kust : k.whole
  BY <1>1 DEF CopyWhole
<1>3. QED
  BY <1>1, <1>2 DEF TreeInv, CopyWhole, Renders

(* Only a copy or an overlay write cut short does lasting harm.             *)
THEOREM TreeHeals == Spec => []InterruptionsHeal
<1>1. TreeInv => InterruptionsHeal
  BY WholeTreeRenders DEF InterruptionsHeal
<1>2. QED
  BY <1>1, TreeInvAlways, PTL

(* Which write breaks which promise: a tree is the copy that                *)
(* writableManifestsBase promises unless the copy was cut short, and a      *)
(* render of a whole copy holds all that the overlay names unless a rewrite *)
(* of the overlay was.                                                      *)
THEOREM DamageIsTheOnlyHarm ==
    Spec => [](/\ TreeIsCopy \/ "copy" \in harm
               /\ RenderIsComplete \/ "overlay" \in harm)
<1>. DEFINE Complete == result.done /\ ~damaged => result.complete
<1>1. Init => Complete
  BY DEF Init, NoRender
<1>2. TreeInv /\ Complete /\ [Next]_vars => Complete'
  <2> SUFFICES ASSUME TreeInv, Complete, [Next]_vars PROVE Complete'
    OBVIOUS
  <2>1. CASE RenderKustomize
    <3>1. CASE damaged
      BY <2>1, <3>1 DEF RenderKustomize, damaged
    <3>2. CASE ~damaged
      <4>0. tree.torn = {}
        BY <2>1, <3>2, WholeTreeRenders DEF RenderKustomize
      <4>1. PICK k \in tree.kust : k.whole /\ Renders(k)
        BY <2>1, <3>2, WholeTreeRenders DEF RenderKustomize
      <4>2. tree.kust = {k}
        BY <4>1 DEF TreeInv, AtMostOne
      <4>3. PICK c \in tree.kust : result'.complete = (c.whole /\ tree.torn = {})
        BY <2>1, <4>0, <4>1 DEF RenderKustomize
      <4>4. QED
        BY <4>0, <4>1, <4>2, <4>3
    <3>3. QED
      BY <3>1, <3>2
  <2>2. CASE CopyCutShort \/ OverlayCutShort
    BY <2>2 DEF CopyCutShort, OverlayCutShort, damaged
  <2>3. CASE PodReplaced \/ \E n \in Namespaces : StartPass(n)
    BY <2>3 DEF PodReplaced, StartPass, NoRender
  <2>4. CASE \/ writableManifestsBase \/ applyParams \/ setOverlayNamespace
             \/ applyParamsFails \/ Crash \/ UNCHANGED vars
    BY <2>4 DEF writableManifestsBase, applyParams, setOverlayNamespace,
       applyParamsFails, Crash, vars, damaged
  <2>5. QED
    BY <2>1, <2>2, <2>3, <2>4 DEF Next
<1>3. TypeOK /\ TreeInv /\ Complete
        => /\ TreeIsCopy \/ "copy" \in harm
           /\ RenderIsComplete \/ "overlay" \in harm
  BY DEF TypeOK, TreeInv, CopyWhole, TreeIsCopy, RenderIsComplete, damaged
<1>4. QED
  BY <1>1, <1>2, <1>3, TreeInvAlways, PTL DEF Spec

-----------------------------------------------------------------------------
(* The composition. What makes OperandsSurvive inductive: an undamaged tree *)
(* that renders renders everything, so before the collection every operand  *)
(* that was not filtered out carries the generation of the pass.            *)
SyncInv ==
    /\ generation \in Nat \ {0} /\ rrGen \in Nat
    /\ applied \in [Files -> Nat]
    /\ stage \in {"tree", "filter", "deploy", "gc"}
    /\ pc # "idle" \/ stage # "tree" => rrGen # 0
    /\ stage # "tree" => pc = "idle"
    /\ stage \in {"filter", "deploy"}
         => result.done /\ (~damaged => result.complete)
    /\ stage = "gc" /\ ~damaged
         => \A f \in Files : applied[f] = rrGen \/ FilteredOut(f)

-----------------------------------------------------------------------------
(* Every step of the composed system is one of the tree or leaves it alone, *)
(* but for the count of failures, which the two share.                      *)
LEMMA SyncStepIsTreeStep ==
    ASSUME [SyncNext]_allVars PROVE Next \/ UNCHANGED treeVars
<1>1. BeginPass => \E n \in Namespaces : StartPass(n)
  BY DEF BeginPass
<1>2. RenderFails => Crash
  BY DEF RenderFails, Crash
<1>3. QED
  BY <1>1, <1>2 DEF SyncNext, Pass, TreeStep, TreeFails, Render,
     filterPlatformResources, RESTMappingFails, Deploy, ManagedGC,
     SpecEdit, Wake, DeployFails, ManagedGCFails, CrashInCluster, ReplacePod,
     Next, vars, treeVars, allVars

(* The shared count stays within its bound.                                 *)
LEMMA SyncFaultsBounded ==
    ASSUME TypeOK, [SyncNext]_allVars PROVE faults' \in 0..MaxFaults
<1>1. Fault => faults' \in 0..MaxFaults
  BY TreeAssumption DEF TypeOK, Fault
<1>2. [Next]_vars => faults' \in 0..MaxFaults
  BY FaultsBounded
<1>3. QED
  BY <1>1, <1>2 DEF TypeOK, SyncNext, Pass, BeginPass, TreeStep, TreeFails, Render,
     filterPlatformResources, RESTMappingFails, Deploy, ManagedGC, SpecEdit, Wake, DeployFails, ManagedGCFails,
     CrashInCluster, ReplacePod, RenderFails, Next, vars, allVars

(* The tree keeps its types and its shape in the composed system.           *)
LEMMA SyncTreeAlways == SyncSpec => [](TypeOK /\ TreeInv)
<1>1. TypeOK /\ TreeInv /\ [SyncNext]_allVars => (TypeOK /\ TreeInv)'
  <2> SUFFICES ASSUME TypeOK, TreeInv, [SyncNext]_allVars
               PROVE  (TypeOK /\ TreeInv)'
    OBVIOUS
  <2>1. Next \/ UNCHANGED treeVars
    BY SyncStepIsTreeStep
  <2>2. TreeInv'
    BY <2>1, TreeInvStep
  <2>3. QED
    BY <2>1, <2>2, TypeOKStep, SyncFaultsBounded
<1>2. SyncInit => TypeOK /\ TreeInv
  BY TreeInit DEF SyncInit
<1>3. QED
  BY <1>1, <1>2, PTL DEF SyncSpec

(* A render of an undamaged tree is complete.                               *)
LEMMA UndamagedRenderIsComplete ==
    ASSUME TypeOK, TreeInv, ~damaged, RenderKustomize, result'.done
    PROVE  result'.complete
<1>0. tree.torn = {}
  BY WholeTreeRenders DEF RenderKustomize
<1>1. PICK k \in tree.kust : k.whole /\ Renders(k)
  BY WholeTreeRenders DEF RenderKustomize
<1>2. tree.kust = {k}
  BY <1>1 DEF TreeInv, AtMostOne
<1>3. PICK c \in tree.kust : result'.complete = (c.whole /\ tree.torn = {})
  BY <1>0, <1>1 DEF RenderKustomize
<1>4. QED
  BY <1>0, <1>1, <1>2, <1>3

(* What a pass may deploy: all files if the render was complete.            *)
LEMMA ApplyKeepsTypes ==
    ASSUME SyncInv, NEW F, Apply(F)
    PROVE  applied' \in [Files -> Nat]
BY DEF SyncInv, Apply

(* SyncInv is inductive, given the shape of the tree.                       *)
LEMMA SyncInvStep ==
    TypeOK /\ TreeInv /\ SyncInv /\ [SyncNext]_allVars => SyncInv'
<1> SUFFICES ASSUME TypeOK, TreeInv, SyncInv, [SyncNext]_allVars PROVE SyncInv'
  OBVIOUS
<1>1. CASE BeginPass
  BY <1>1 DEF BeginPass, StartPass, SyncInv
<1>2. CASE TreeStep
  BY <1>2 DEF TreeStep, syncVars, writableManifestsBase, applyParams,
     setOverlayNamespace, SyncInv
<1>3. CASE TreeFails
  <2>1. /\ UNCHANGED <<generation, stage, rrGen, applied>>
        /\ pc # "idle" /\ pc' = "idle"
    BY <1>3 DEF TreeFails, CopyCutShort, applyParamsFails, OverlayCutShort, Crash,
       EndPass
  <2>2. QED
    BY <2>1 DEF SyncInv
<1>4. CASE Render
  <2>1. /\ UNCHANGED <<generation, rrGen, applied, harm>> /\ pc = "render"
        /\ pc' = "idle"
        /\ (stage' = "filter" /\ result'.done) \/ stage' = stage
    BY <1>4 DEF Render, RenderKustomize, RenderFails, EndPass, AfterRender
  <2>2. stage' = "filter" /\ ~damaged => result'.complete
    <3>1. RenderFails => ~result'.done
      BY DEF RenderFails, TreeInv
    <3>2. QED
      BY <1>4, <2>1, <3>1, UndamagedRenderIsComplete DEF Render, SyncInv
  <2>3. QED
    BY <2>1, <2>2 DEF SyncInv, damaged
<1>f. CASE filterPlatformResources \/ RESTMappingFails
  BY <1>f DEF filterPlatformResources, RESTMappingFails, SyncInv, vars, damaged
<1>5. CASE Deploy
  <2>1. /\ stage = "deploy" /\ stage' = "gc"
        /\ UNCHANGED <<vars, generation, queued, rrGen, hasSCCs>>
    BY <1>5 DEF Deploy
  <2>2. PICK F \in RenderedSets : Apply(Filtered(F))
    BY <1>5 DEF Deploy
  <2>3. ~damaged => F = Files
    BY <2>1, <2>2 DEF SyncInv, RenderedSets
  <2>4. ~damaged => \A f \in Files : applied'[f] = rrGen \/ FilteredOut(f)
    BY <2>2, <2>3 DEF Apply, Filtered, FilteredOut
  <2>5. QED
    BY <2>1, <2>2, <2>4, ApplyKeepsTypes DEF SyncInv, vars, damaged, FilteredOut
<1>6. CASE DeployFails
  <2>1. UNCHANGED applied \/ \E G : Apply(G)
    BY <1>6 DEF DeployFails
  <2>2. applied' \in [Files -> Nat]
    BY <2>1, ApplyKeepsTypes DEF SyncInv
  <2>3. QED
    BY <1>6, <2>2 DEF DeployFails, SyncInv
<1>7. CASE ManagedGC \/ ManagedGCFails
  <2>1. applied' \in [Files -> Nat]
    BY <1>7 DEF ManagedGC, ManagedGCFails, Delete, SyncInv
  <2>2. QED
    BY <1>7, <2>1 DEF ManagedGC, ManagedGCFails, SyncInv, vars
<1>8. CASE SpecEdit \/ Wake
  BY <1>8 DEF SpecEdit, Wake, SyncInv, vars, damaged, FilteredOut
<1>9. CASE CrashInCluster
  BY <1>9 DEF CrashInCluster, SyncInv
<1>10. CASE ReplacePod
  BY <1>10 DEF ReplacePod, PodReplaced, EndPass, SyncInv
<1>11. CASE UNCHANGED allVars
  BY <1>11 DEF allVars, vars, syncVars, SyncInv, damaged, FilteredOut
<1>12. QED
  BY <1>1, <1>2, <1>3, <1>4, <1>5, <1>6, <1>7, <1>8, <1>9, <1>10, <1>11, <1>f
     DEF SyncNext, Pass

(* The composed system keeps all three.                                     *)
LEMMA SyncInvAlways == SyncSpec => [](TypeOK /\ TreeInv /\ SyncInv)
<1>1. SyncInit => SyncInv
  BY DEF SyncInit, Init, SyncInv
<1>2. QED
  BY <1>1, SyncInvStep, SyncTreeAlways, PTL DEF SyncSpec

(* What a pass renders and applies names the namespace and the image of     *)
(* that pass in the composed system too.                                    *)
THEOREM SyncRendersPassParams == SyncSpec => []RenderUsesPassParams
<1>1. TreeInv => RenderUsesPassParams
  BY DEF TreeInv
<1>2. QED
  BY <1>1, SyncTreeAlways, PTL

(* As long as the tree has not been damaged no step deletes an operand: not *)
(* the collection after any sequence of failed renders and deploys, crashes *)
(* and new pods, and for no number of generations. Only an SCC may go, in a *)
(* process whose one lookup of the API answered no.                         *)
THEOREM OperandsAlwaysSurvive == SyncSpec => OperandsSurvive
<1>1. ASSUME TypeOK, TreeInv, SyncInv, [SyncNext]_allVars, ~damaged,
             NEW f \in Files, applied[f] # 0
      PROVE  applied'[f] # 0 \/ FilteredOut(f)
  <2>1. CASE UNCHANGED applied
    BY <1>1, <2>1
  <2>2. CASE (Deploy \/ DeployFails) /\ ~UNCHANGED applied
    <3>1. PICK F : Apply(F)
      BY <2>2 DEF Deploy, DeployFails
    <3>2. rrGen # 0
      BY <1>1, <2>2 DEF Deploy, DeployFails, SyncInv
    <3>3. QED
      BY <1>1, <3>1, <3>2 DEF Apply
  <2>3. CASE ManagedGC \/ ManagedGCFails
    <3>1. f \notin GCTargets \/ FilteredOut(f)
      BY <1>1, <2>3 DEF ManagedGC, ManagedGCFails, SyncInv, GCTargets
    <3>2. PICK F \in SUBSET GCTargets : Delete(F)
      BY <2>3 DEF ManagedGC, ManagedGCFails
    <3>3. QED
      BY <1>1, <3>1, <3>2 DEF Delete
  <2>4. QED
    BY <1>1, <2>1, <2>2, <2>3 DEF SyncNext, Pass, BeginPass, TreeStep, TreeFails,
       Render, filterPlatformResources, RESTMappingFails, SpecEdit, Wake,
       CrashInCluster, ReplacePod, syncVars, allVars
<1>2. TypeOK /\ TreeInv /\ SyncInv /\ [SyncNext]_allVars
        => [~damaged => \A f \in Files :
               applied[f] # 0 => applied'[f] # 0 \/ FilteredOut(f)]_allVars
  BY <1>1
<1>3. QED
  BY <1>2, SyncInvAlways, PTL DEF SyncSpec, OperandsSurvive
=============================================================================
