-------------------------- MODULE RayReportProofs ---------------------------
(***************************************************************************)
(* What the status of the CR may say: a report of Removed is true, for     *)
(* every set of operands and every bound.                                  *)
(***************************************************************************)
EXTENDS RayLifecycleProofs

(* RemovedReportIsTrue rests on the order of generations: in the CR, in the *)
(* informer's copy and in the snapshot of a pass.                           *)

(* A copy of the CR is not ahead of it, and a generation names one spec.    *)
SameSpec(r) ==
    r.uid # 0 /\ r.uid = ray.uid =>
        /\ r.gen <= ray.gen
        /\ r.gen = ray.gen => r.mgmt = ray.mgmt /\ r.projected = ray.projected

CacheCaughtUp == cache.uid = ray.uid /\ cache.gen = ray.gen

(* No labelled operand is left but what the last collection did not list.   *)
OnlyMissedLeft == \A o \in Objects \ CRDs : objs[o].labelled => o \in missed

(* The informer never goes back: what a pass works on, or has reported, it  *)
(* has delivered. So no pass on an older spec follows a report.             *)
ReportInv ==
    /\ SameSpec(cache) /\ SameSpec(rr)
    /\ ray.obs <= ray.gen /\ cache.obs <= cache.gen /\ observed <= rr.gen
    /\ pc # "idle" /\ rr.uid = ray.uid /\ rr.gen = ray.gen => CacheCaughtUp
    /\ ray.uid # 0 /\ ray.obs = ray.gen =>
          CacheCaughtUp /\ (rr.uid = ray.uid => rr.gen = ray.gen)
    /\ pc = "status" /\ outcome = "ok" /\ Removed => OnlyMissedLeft
    /\ RemovedReportIsTrue

-----------------------------------------------------------------------------
(* The generations in play are numbers.                                     *)
LEMMA Generations ==
    ASSUME TypeOK
    PROVE  /\ ray.gen \in Nat /\ cache.gen \in Nat /\ rr.gen \in Nat
           /\ ray.obs \in Nat /\ cache.obs \in Nat /\ observed \in Nat
BY BoundsAssumption DEF TypeOK, Rays

(* A deletion labels nothing.                                               *)
LEMMA DeleteLabelsNothing ==
    ASSUME NEW S, DeleteObjects(S) PROVE OnlyMissedLeft => OnlyMissedLeft'
BY DEF DeleteObjects, EraseObjects, OnlyMissedLeft, NoObj

(* Neither does a collection.                                               *)
LEMMA CollectionsLabelNothing ==
    ASSUME TypeOK, deleteOwnedOperands \/ managedGC \/ removedGC
    PROVE  OnlyMissedLeft => OnlyMissedLeft'
BY DeleteLabelsNothing, RemovedGCLeavesMissed
   DEF deleteOwnedOperands, managedGC, OnlyMissedLeft

(* A third party labels nothing either.                                     *)
LEMMA TamperLabelsNothing ==
    ASSUME TypeOK, NEW o \in Objects, ThirdPartyDelete(o) \/ StripLabel(o)
    PROVE  OnlyMissedLeft => OnlyMissedLeft'
<1>1. ASSUME NEW q \in Objects, objs'[q].labelled PROVE objs[q].labelled
  BY <1>1 DEF ThirdPartyDelete, StripLabel, TypeOK, Operands, NoObj
<1>2. QED
  BY <1>1 DEF OnlyMissedLeft, ThirdPartyDelete, StripLabel

(* A pass that still applies works on the CR that is there, and once that   *)
(* has reported its generation, on its spec.                                *)
LEMMA ApplyingPassIsCurrent ==
    ASSUME TypeOK, GuardInv, ReportInv, pc \in {"notebook", "deploy"}, ~Removed
    PROVE  ~(ray.uid # 0 /\ ray.mgmt = "Removed" /\ ray.prov /\ ray.obs = ray.gen)
<1>1. rr.uid # 0 /\ ray.uid = rr.uid
  BY DEF GuardInv, ApplyPassShape, ApplyPCs, StillGuards
<1>2. QED
  BY <1>1 DEF ReportInv, SameSpec, Removed

(* Steps that leave CR, copies and observedGeneration alone.                *)
LEMMA ReportInvQuiet ==
    ASSUME ReportInv, UNCHANGED <<ray, cache, rr, observed>>,
           pc' # "idle" => pc # "idle",
           pc' = "status" /\ outcome' = "ok" /\ Removed => OnlyMissedLeft',
           RemovedReportIsTrue'
    PROVE  ReportInv'
BY DEF ReportInv, SameSpec, CacheCaughtUp, Removed

(* Leaving the CR alone and labelling nothing, a report stays true.         *)
LEMMA ReportStaysTrue ==
    ASSUME RemovedReportIsTrue, ray' = ray, OnlyMissedLeft => OnlyMissedLeft'
    PROVE  RemovedReportIsTrue'
BY DEF RemovedReportIsTrue, OnlyMissedLeft

(* A pass that ends takes its snapshot with it.                             *)
LEMMA ReportInvFinish ==
    ASSUME TypeOK, ReportInv, NEW q, Finish(q), UNCHANGED <<ray, cache>>,
           OnlyMissedLeft => OnlyMissedLeft'
    PROVE  ReportInv'
<1>1. RemovedReportIsTrue'
  BY ReportStaysTrue DEF ReportInv
<1>2. QED
  BY <1>1 DEF ReportInv, Finish, GoTo, NoRay, SameSpec, CacheCaughtUp

(* The status update: only a Removed pass on the current spec that has      *)
(* collected everything may report success for it.                          *)
LEMMA ReportInvStatusUpdate ==
    ASSUME TypeOK, GuardInv, ReportInv, StatusUpdate PROVE ReportInv'
<1>1. CASE ray' = ray
  <2>1. OnlyMissedLeft => OnlyMissedLeft'
    BY DEF StatusUpdate, objVars, OnlyMissedLeft
  <2>2. QED
    BY <1>1, <2>1, ReportInvFinish DEF StatusUpdate
<1>2. CASE ray.uid = rr.uid /\ ray' = Report(ray)
  <2>1. /\ ray'.uid = ray.uid /\ ray'.gen = ray.gen /\ ray'.mgmt = ray.mgmt
        /\ ray'.projected = ray.projected
        /\ ray'.obs = observed /\ ray'.prov = (outcome = "ok")
    BY <1>2 DEF Report, TypeOK, Rays
  <2>2. rr.uid # 0 /\ pc = "status"
    BY DEF StatusUpdate, GuardInv, ApplyPassShape, ApplyPCs
  <2>3. observed <= rr.gen /\ rr.gen <= ray.gen
    BY <1>2, <2>2 DEF ReportInv, SameSpec
  <2>4. /\ pc' = "idle" /\ rr' = NoRay /\ observed' = 0
        /\ UNCHANGED <<cache, objs, missed>>
    BY DEF StatusUpdate, Finish, GoTo, objVars
  <2>5. observed = ray.gen => rr.gen = ray.gen /\ CacheCaughtUp
    BY <1>2, <2>2, <2>3, Generations DEF ReportInv
  <2>6. RemovedReportIsTrue'
    <3> SUFFICES ASSUME outcome = "ok", ray.mgmt = "Removed", observed = ray.gen
                 PROVE  OnlyMissedLeft'
      BY <2>1 DEF RemovedReportIsTrue, OnlyMissedLeft
    <3>1. Removed
      BY <1>2, <2>2, <2>5 DEF ReportInv, SameSpec, Removed
    <3>2. QED
      BY <2>2, <2>4, <3>1 DEF ReportInv, OnlyMissedLeft
  <2>7. ray'.obs <= ray'.gen
    BY <2>1, <2>3, Generations
  <2>8. SameSpec(cache)' /\ SameSpec(rr)'
    BY <2>1, <2>4 DEF ReportInv, SameSpec, NoRay
  <2>9. QED
    BY <2>1, <2>4, <2>5, <2>6, <2>7, <2>8 DEF ReportInv, CacheCaughtUp, NoRay
<1>3. QED
  BY <1>1, <1>2 DEF StatusUpdate

(* The other steps of a pass.                                               *)
LEMMA ReportInvController ==
    TypeOK /\ GuardInv /\ ReportInv /\ Controller => ReportInv'
<1> SUFFICES ASSUME TypeOK, GuardInv, ReportInv, Controller PROVE ReportInv'
  OBVIOUS
<1>0. ASSUME UNCHANGED <<objs, missed>> PROVE OnlyMissedLeft => OnlyMissedLeft'
  BY <1>0 DEF OnlyMissedLeft
<1>q. ASSUME UNCHANGED <<ray, cache, rr, observed>>, pc # "idle",
             OnlyMissedLeft => OnlyMissedLeft',
             pc' = "status" => outcome' # "ok"
      PROVE  ReportInv'
  <2>1. RemovedReportIsTrue'
    BY <1>q, ReportStaysTrue DEF ReportInv
  <2>2. QED
    BY <1>q, <2>1, ReportInvQuiet
<1>1. CASE StartPass
  <2>1. RemovedReportIsTrue'
    BY <1>0, <1>1, ReportStaysTrue DEF StartPass, rayVars, objVars, ReportInv
  <2>2. pc' # "status"
    BY <1>1 DEF StartPass, GoTo
  <2>3. QED
    BY <1>1, <2>1, <2>2 DEF StartPass, rayVars, ReportInv, SameSpec, CacheCaughtUp
<1>2. CASE SkipPass
  <2>1. RemovedReportIsTrue'
    BY <1>0, <1>2, ReportStaysTrue DEF SkipPass, rayVars, objVars, ReportInv
  <2>2. QED
    BY <1>2, <2>1, ReportInvQuiet DEF SkipPass, rayVars, passVars
<1>3. CASE AddFinalizer \/ waitForNamespace
  <2>0. /\ UNCHANGED <<cache, observed, objs, missed>>
        /\ pc # "idle" /\ (pc' = "status" => outcome' # "ok")
    BY <1>3 DEF AddFinalizer, waitForNamespace, rayVars, objVars, GoTo, EndWith
  <2>1. CASE UNCHANGED <<ray, rr>>
    BY <1>0, <1>q, <2>0, <2>1
  <2>2. CASE snapCurrent /\ ray' = rr'
             /\ (\E b \in BOOLEAN : ray' = [rr EXCEPT !.fin = b])
    <3>1. /\ ray'.uid = ray.uid /\ ray'.gen = ray.gen /\ ray'.mgmt = ray.mgmt
          /\ ray'.projected = ray.projected /\ ray'.obs = ray.obs
          /\ ray'.prov = ray.prov /\ rr' = ray' /\ rr = ray
      BY <2>2 DEF GuardInv, CopiesAgree, TypeOK, Rays
    <3>2. RemovedReportIsTrue'
      BY <1>0, <2>0, <3>1 DEF RemovedReportIsTrue, ReportInv, OnlyMissedLeft
    <3>3. ray'.gen <= ray'.gen
      BY <3>1, Generations
    <3>4. QED
      BY <2>0, <3>1, <3>2, <3>3 DEF ReportInv, SameSpec, CacheCaughtUp
  <2>3. QED
    BY <1>3, <2>1, <2>2 DEF AddFinalizer, waitForNamespace, UpdateRay, rayVars
<1>4. CASE Prepare
  BY <1>0, <1>4, <1>q DEF Prepare, rayVars, objVars, GoTo, EndWith
<1>5. CASE notebookClusterRole
  <2>1. /\ UNCHANGED <<ray, cache, rr, observed>> /\ pc = "notebook"
        /\ (pc' = "status" => outcome' # "ok")
    BY <1>5 DEF notebookClusterRole, rayVars, GoTo, EndWith
  <2>2. CASE Removed
    <3>1. OnlyMissedLeft => OnlyMissedLeft'
      BY <1>0, <1>5, <2>2, DeleteLabelsNothing DEF notebookClusterRole,
         deleteNotebookClusterRole, objVars
    <3>2. QED
      BY <1>q, <2>1, <3>1
  <2>3. CASE ~Removed
    <3>1. RemovedReportIsTrue'
      BY <2>1, <2>3, ApplyingPassIsCurrent DEF RemovedReportIsTrue
    <3>2. QED
      BY <2>1, <3>1, ReportInvQuiet
  <2>4. QED
    BY <2>2, <2>3
<1>6. CASE Deploy
  <2>1. /\ UNCHANGED <<ray, cache, rr>> /\ pc = "deploy" /\ observed' = rr.gen
        /\ pc' \notin {"idle", "status"}
    BY <1>6 DEF Deploy, rayVars, GoTo
  <2>2. CASE Removed
    <3>1. ApplyObjects({})
      BY <1>6, <2>2 DEF Deploy, Desired, Removed
    <3>2. OnlyMissedLeft => OnlyMissedLeft'
      BY <3>1 DEF ApplyObjects, OnlyMissedLeft
    <3>3. RemovedReportIsTrue'
      BY <2>1, <3>2, ReportStaysTrue DEF ReportInv
    <3>4. rr.gen <= rr.gen
      BY Generations
    <3>5. QED
      BY <2>1, <3>3, <3>4 DEF ReportInv, SameSpec, CacheCaughtUp
  <2>3. CASE ~Removed
    <3>1. RemovedReportIsTrue'
      BY <2>1, <2>3, ApplyingPassIsCurrent DEF RemovedReportIsTrue
    <3>2. rr.gen <= rr.gen
      BY Generations
    <3>3. QED
      BY <2>1, <3>1, <3>2 DEF ReportInv, SameSpec, CacheCaughtUp
  <2>4. QED
    BY <2>2, <2>3
<1>7. CASE reconcileGC
  <2>1. /\ UNCHANGED <<ray, cache, rr, observed>> /\ pc \in {"gcOwned", "gc"}
        /\ (pc' = "status" => pc = "gc")
    BY <1>7 DEF reconcileGC, rayVars, GoTo, EndWith
  <2>2. OnlyMissedLeft => OnlyMissedLeft'
    BY <1>7, CollectionsLabelNothing DEF reconcileGC
  <2>3. pc = "gc" /\ Removed => OnlyMissedLeft'
    BY <1>7, RemovedGCLeavesMissed DEF reconcileGC, OnlyMissedLeft
  <2>4. RemovedReportIsTrue'
    BY <2>1, <2>2, ReportStaysTrue DEF ReportInv
  <2>5. QED
    BY <2>1, <2>3, <2>4, ReportInvQuiet
<1>8. CASE StatusUpdate
  BY <1>8, ReportInvStatusUpdate
<1>9. CASE DeletionCleanup
  <2>1. OnlyMissedLeft => OnlyMissedLeft'
    BY <1>0, <1>9, DeleteLabelsNothing, CollectionsLabelNothing
       DEF DeletionCleanup, deleteNotebookClusterRole, objVars
  <2>2. QED
    BY <1>9, <1>q, <2>1 DEF DeletionCleanup, rayVars, GoTo
<1>10. CASE RemoveFinalizer
  <2>1. OnlyMissedLeft => OnlyMissedLeft'
    BY <1>0, <1>10 DEF RemoveFinalizer, objVars
  <2>2. CASE ~snapCurrent
    BY <1>10, <2>1, <2>2, ReportInvFinish DEF RemoveFinalizer
  <2>3. CASE snapCurrent
    BY <1>10, <2>3 DEF RemoveFinalizer, Finish, GoTo, NoRay, ReportInv, SameSpec,
       RemovedReportIsTrue
  <2>4. QED
    BY <2>2, <2>3
<1>11. QED
  BY <1>1, <1>2, <1>3, <1>4, <1>5, <1>6, <1>7, <1>8, <1>9, <1>10 DEF Controller

(* A pass that is under way has a CR to work on.                            *)
LEMMA PassHasCR ==
    ASSUME TypeOK, GuardInv, pc # "idle" PROVE rr.uid # 0
BY DEF TypeOK, PCs, GuardInv, ApplyPassShape, DeletePassShape

(* API errors and crashes spoil no report.                                  *)
LEMMA ReportInvFailure ==
    TypeOK /\ GuardInv /\ ReportInv /\ Failure => ReportInv'
<1> SUFFICES ASSUME TypeOK, GuardInv, ReportInv, Failure PROVE ReportInv'
  OBVIOUS
<1>0. ASSUME UNCHANGED <<objs, missed>> PROVE OnlyMissedLeft => OnlyMissedLeft'
  BY <1>0 DEF OnlyMissedLeft
<1>q. ASSUME UNCHANGED <<ray, cache, rr, observed>>, pc # "idle",
             OnlyMissedLeft => OnlyMissedLeft',
             pc' = "status" => outcome' # "ok"
      PROVE  ReportInv'
  <2>1. RemovedReportIsTrue'
    BY <1>q, ReportStaysTrue DEF ReportInv
  <2>2. QED
    BY <1>q, <2>1, ReportInvQuiet
<1>1. CASE waitForNamespaceFails \/ RESTMappingFails
  <2>1. /\ UNCHANGED <<ray, cache, rr, observed, objs, missed>> /\ pc # "idle"
        /\ (pc' = "status" => outcome' # "ok")
    BY <1>1 DEF waitForNamespaceFails, RESTMappingFails, rayVars, objVars, GoTo,
       EndWith
  <2>2. QED
    BY <1>0, <1>q, <2>1
<1>2. CASE ActionFails
  <2>1. /\ UNCHANGED <<ray, cache, rr, observed>> /\ pc # "idle"
        /\ pc' = "status" /\ outcome' = "error"
    BY <1>2 DEF ActionFails, rayVars, GoTo, EndWith
  <2>2. CASE pc = "deploy" /\ ~Removed
    <3>1. RemovedReportIsTrue'
      BY <2>1, <2>2, ApplyingPassIsCurrent DEF RemovedReportIsTrue
    <3>2. QED
      BY <2>1, <3>1, ReportInvQuiet
  <2>3. CASE pc = "deploy" /\ Removed
    <3>1. ApplyObjects({})
      BY <1>2, <2>3 DEF ActionFails, Desired, Removed
    <3>2. OnlyMissedLeft => OnlyMissedLeft'
      BY <3>1 DEF ApplyObjects, OnlyMissedLeft
    <3>3. QED
      BY <1>q, <2>1, <3>2
  <2>4. CASE pc # "deploy"
    <3>1. OnlyMissedLeft => OnlyMissedLeft'
      BY <1>0, <1>2, <2>4, DeleteLabelsNothing DEF ActionFails, objVars
    <3>2. QED
      BY <1>q, <2>1, <3>1
  <2>5. QED
    BY <2>2, <2>3, <2>4
<1>3. CASE PassFails
  <2>1. OnlyMissedLeft => OnlyMissedLeft'
    BY <1>0, <1>3, DeleteLabelsNothing DEF PassFails, objVars
  <2>2. QED
    BY <1>3, <2>1, ReportInvFinish DEF PassFails, rayVars
<1>4. CASE Crash
  <2>1. /\ ray' = ray /\ cache' = ray /\ rr' = NoRay /\ observed' = 0
        /\ pc' = "idle" /\ UNCHANGED <<objs, missed>>
    BY <1>4 DEF Crash, GoTo
  <2>2. RemovedReportIsTrue'
    BY <1>0, <2>1, ReportStaysTrue DEF ReportInv
  <2>3. QED
    BY <2>1, <2>2, Generations DEF ReportInv, SameSpec, CacheCaughtUp, NoRay
<1>5. QED
  BY <1>1, <1>2, <1>3, <1>4 DEF Failure

(* Neither do users, who may edit, delete and recreate the CR at any time.  *)
LEMMA ReportInvUser ==
    ASSUME TypeOK, GuardInv, ReportInv, NEW m, NEW p,
           UserCreate(m, p) \/ UserEdit(m, p) \/ UserDelete
    PROVE  ReportInv'
<1>0. /\ UNCHANGED <<cache, rr, observed, pc, outcome, objs, missed>>
      /\ OnlyMissedLeft => OnlyMissedLeft'
  BY DEF UserCreate, UserEdit, UserDelete, StoreRay, objVars, OnlyMissedLeft
<1>1. CASE UserCreate(m, p)
  <2>1. /\ ray'.uid = lastUID + 1 /\ ray'.gen = 1 /\ ray'.obs = 0
    BY <1>1 DEF UserCreate, StoreRay, NoRay
  <2>2. cache.uid # ray'.uid /\ rr.uid # ray'.uid
    BY <2>1 DEF GuardInv, UIDsKnown, TypeOK, Rays
  <2>3. QED
    BY <1>0, <2>1, <2>2 DEF ReportInv, SameSpec, CacheCaughtUp, Removed,
       RemovedReportIsTrue
<1>2. CASE UserEdit(m, p)
  <2>1. /\ ray.uid # 0 /\ ray'.uid = ray.uid /\ ray'.gen = ray.gen + 1
        /\ ray'.obs = ray.obs
    BY <1>2 DEF UserEdit, StoreRay, TypeOK, Rays
  <2>2. /\ ray'.obs <= ray'.gen /\ ray'.obs # ray'.gen
        /\ cache.uid = ray.uid => cache.gen <= ray'.gen /\ cache.gen # ray'.gen
        /\ rr.uid = ray.uid => rr.gen <= ray'.gen /\ rr.gen # ray'.gen
    BY <2>1, Generations DEF ReportInv, SameSpec
  <2>3. QED
    BY <1>0, <2>1, <2>2 DEF ReportInv, SameSpec, CacheCaughtUp, Removed,
       RemovedReportIsTrue
<1>3. CASE UserDelete /\ ray' # NoRay
  <2>1. /\ ray'.uid = ray.uid /\ ray'.gen = ray.gen /\ ray'.obs = ray.obs
        /\ ray'.mgmt = ray.mgmt /\ ray'.projected = ray.projected
        /\ ray'.prov = ray.prov
    BY <1>3 DEF UserDelete, StoreRay, TypeOK, Rays
  <2>2. RemovedReportIsTrue'
    BY <1>0, <2>1 DEF ReportInv, RemovedReportIsTrue
  <2>3. QED
    BY <1>0, <2>1, <2>2 DEF ReportInv, SameSpec, CacheCaughtUp, Removed
<1>4. CASE ray' = NoRay
  <2>1. ray'.uid = 0 /\ ray'.obs = 0 /\ ray'.gen = 0
    BY <1>4 DEF NoRay
  <2>2. pc # "idle" => rr.uid # 0
    BY PassHasCR
  <2>3. SameSpec(cache)' /\ SameSpec(rr)' /\ ray'.obs <= ray'.gen
    BY <2>1 DEF SameSpec
  <2>4. QED
    BY <1>0, <2>1, <2>2, <2>3 DEF ReportInv, Removed, RemovedReportIsTrue
<1>5. QED
  BY <1>1, <1>2, <1>3, <1>4

(* No step of anybody makes a report of Removed untrue.                     *)
LEMMA ReportInvStep ==
    TypeOK /\ GuardInv /\ ReportInv /\ [Next]_vars => ReportInv'
<1> SUFFICES ASSUME TypeOK, GuardInv, ReportInv, [Next]_vars PROVE ReportInv'
  OBVIOUS
<1>q. ASSUME UNCHANGED <<ray, cache, rr, observed, pc, outcome>>,
             OnlyMissedLeft => OnlyMissedLeft'
      PROVE  ReportInv'
  <2>1. RemovedReportIsTrue'
    BY <1>q, ReportStaysTrue DEF ReportInv
  <2>2. QED
    BY <1>q, <2>1, ReportInvQuiet DEF ReportInv
<1>1. CASE CacheSync
  <2>1. /\ cache' = ray /\ UNCHANGED <<ray, rr, observed, pc, outcome, objs, missed>>
    BY <1>1 DEF CacheSync, passVars, objVars
  <2>2. RemovedReportIsTrue'
    BY <2>1 DEF ReportInv, RemovedReportIsTrue
  <2>3. QED
    BY <2>1, <2>2, Generations DEF ReportInv, SameSpec, CacheCaughtUp, Removed,
       OnlyMissedLeft
<1>2. CASE PlatformConfigEvent \/ InstallCertManager \/ UNCHANGED vars
  <2>1. UNCHANGED <<ray, cache, rr, observed, pc, outcome, objs, missed>>
    BY <1>2 DEF PlatformConfigEvent, InstallCertManager, vars, rayVars, passVars,
       objVars
  <2>2. QED
    BY <1>q, <2>1 DEF OnlyMissedLeft
<1>3. ASSUME NEW o \in Objects,
             Observe(o) \/ KubeGC(o) \/ ThirdPartyDelete(o) \/ StripLabel(o)
      PROVE  ReportInv'
  <2>1. UNCHANGED <<ray, cache, rr, observed, pc, outcome>>
    BY <1>3 DEF Observe, KubeGC, ThirdPartyDelete, StripLabel, rayVars, passVars
  <2>2. OnlyMissedLeft => OnlyMissedLeft'
    BY <1>3, DeleteLabelsNothing, TamperLabelsNothing DEF Observe, KubeGC,
       OnlyMissedLeft
  <2>3. QED
    BY <1>q, <2>1, <2>2
<1>4. QED
  BY <1>1, <1>2, <1>3, ReportInvController, ReportInvFailure, ReportInvUser
     DEF Next, Environment

(* What the report relies on holds in every behaviour.                      *)
LEMMA ReportInvAlways == Spec => [](TypeOK /\ GuardInv /\ ReportInv)
<1>1. Init => ReportInv
  BY DEF Init, ReportInv, SameSpec, CacheCaughtUp, RemovedReportIsTrue, NoRay
<1>2. QED
  BY <1>1, ReportInvStep, GuardInvAlways, PTL DEF Spec

(* A CR that reports, for its current generation, that the component is     *)
(* Removed has no labelled operand left but what its own collection did not *)
(* list, although observedGenerationAction runs before the collection,      *)
(* passes work on stale snapshots and any of them may fail on the way: for  *)
(* every set of operands and every bound.                                   *)
THEOREM RemovedReportTrue == Spec => []RemovedReportIsTrue
<1>1. ReportInv => RemovedReportIsTrue
  BY DEF ReportInv
<1>2. QED
  BY <1>1, ReportInvAlways, PTL
=============================================================================
