------------------------- MODULE RayLifecycleProofs -------------------------
(***************************************************************************)
(* Proofs about RayLifecycle, for every set of operands and every bound.   *)
(***************************************************************************)
EXTENDS RayLifecycle, TLAPS

(* FinalizerGuardsOperands is not inductive: whether a write to the CR      *)
(* drops the guard depends on what the lagging copies say. The parts that   *)
(* make it so.                                                              *)

(* A copy that carries the stored version is the stored CR.                 *)
CopiesAgree == (cacheCurrent => cache = ray) /\ (snapCurrent => rr = ray)

(* A copy that shows a guarded CR not yet terminating cannot be outlived:   *)
(* the CR with that UID is still there and still guards.                    *)
StillGuards(r) == Guards(r) /\ ~r.del => ray.uid = r.uid /\ Guards(ray)

(* Deletion is permanent, from the CR to every copy of it.                  *)
StillTerminating(r) == r.uid # 0 /\ r.del /\ ray.uid = r.uid => ray.del

UIDsKnown == ray.uid <= lastUID /\ cache.uid <= lastUID /\ rr.uid <= lastUID

ApplyPassShape ==
    pc \in ApplyPCs =>
        /\ rr.uid # 0 /\ ~rr.del
        /\ pc = "preApply" => rr.fin
        /\ pc \in ApplyPCs \ {"finalizer", "preApply", "status"} => Guards(rr)

DeletePassShape ==
    pc \in DeletePCs =>
        /\ rr.uid # 0 /\ rr.del
        /\ cache.uid = rr.uid => cache.del
        /\ pc \in {"delOwned", "delFinalizer"} /\ rr.projected
              => \A o \in Objects : ~Deployed(o)

GuardInv ==
    /\ FinalizerGuardsOperands
    /\ CopiesAgree
    /\ StillGuards(cache) /\ (pc # "idle" => StillGuards(rr))
    /\ StillTerminating(cache) /\ (pc # "idle" => StillTerminating(rr))
    /\ UIDsKnown
    /\ ApplyPassShape
    /\ DeletePassShape

(* What the collections rely on: an ownerRef is only ever on an operand     *)
(* deploy gives one, and the owned operands are listed by Removed passes.   *)
CollectInv ==
    /\ \A o \in Objects : objs[o].owner # 0 => o \in Owning
    /\ pc = "gcOwned" => Removed

(* DeletionNeverForgotten rests on the workqueue: a deletion the informer   *)
(* has delivered is queued or worked on, until the CR is gone.              *)
DeleteInv ==
    /\ ray.del => ray.uid # 0
    /\ cache.del /\ cache.uid # 0 /\ cache.uid = ray.uid
          => queued \/ pc \in DeletePCs

-----------------------------------------------------------------------------
(* The model's records and sets of operands as the provers need them.       *)
LEMMA ObjectFacts ==
    /\ NotebookRole \in Objects /\ NotebookRole \notin CRDs
    /\ Owning \subseteq Objects /\ Listed \subseteq Objects
    /\ SCCs \subseteq Objects /\ Rendered \subseteq Objects
    /\ NoRay \in Rays /\ NoObj \in Operands /\ NotebookForm \in Operands
    /\ InTreeObj \in Operands
    /\ 0 \in 0..MaxGeneration /\ 0 \in 0..MaxUID
    /\ 0 \in 0..MaxFaults /\ 0 \in 0..MaxTampers
BY ObjectsAssumption, BoundsAssumption
   DEF Objects, NoRay, Rays, NoObj, NotebookForm, InTreeObj, Operands, States

(* deploy's server-side apply yields a well-formed operand.                 *)
LEMMA AppliedFormType ==
    ASSUME TypeOK, NEW o \in Objects
    PROVE  AppliedForm(o) \in Operands
<1>1. /\ objs[o].labelled \in BOOLEAN /\ objs[o].owner \in 0..MaxUID
      /\ rr.uid \in 0..MaxUID /\ rr.gen \in 0..MaxGeneration
  BY DEF TypeOK, Operands, Rays
<1>2. (objs[o].labelled \/ o \notin CRDs \/ DeployLabelsCRDs) \in BOOLEAN
  OBVIOUS
<1>3. (IF o \in Owning THEN rr.uid ELSE objs[o].owner) \in 0..MaxUID
  BY <1>1
<1>4. QED
  BY <1>1, <1>2, <1>3 DEF AppliedForm, Operands

(* Applying and deleting sets of operands keep the operands well-formed.    *)
LEMMA ApplyObjectsType ==
    ASSUME TypeOK, NEW S \in SUBSET Objects, ApplyObjects(S)
    PROVE  objs' \in [Objects -> Operands] /\ unseen' \subseteq Objects
           /\ lost' \subseteq Objects /\ missed' \subseteq Objects
BY AppliedFormType DEF TypeOK, ApplyObjects

(* Deletion leaves NoObj, which is a well-formed operand.                   *)
LEMMA EraseObjectsType ==
    ASSUME TypeOK, NEW S \in SUBSET Objects, EraseObjects(S)
    PROVE  objs' \in [Objects -> Operands] /\ unseen' \subseteq Objects
           /\ lost' \subseteq Objects
BY ObjectFacts DEF TypeOK, EraseObjects

(* The same for a deletion that settles what was missed.                    *)
LEMMA DeleteObjectsType ==
    ASSUME TypeOK, NEW S \in SUBSET Objects, DeleteObjects(S)
    PROVE  objs' \in [Objects -> Operands] /\ unseen' \subseteq Objects
           /\ lost' \subseteq Objects /\ missed' \subseteq Objects
<1>1. EraseObjects(S) /\ missed' \subseteq Objects
  BY DEF TypeOK, DeleteObjects
<1>2. QED
  BY <1>1, EraseObjectsType

(* Whatever its listing leaves out, a collection only erases operands that  *)
(* are no CRDs.                                                             *)
LEMMA CollectionsErase ==
    ASSUME TypeOK, deleteOwnedOperands \/ managedGC \/ removedGC
    PROVE  /\ \E S \in SUBSET (Objects \ CRDs) : EraseObjects(S)
           /\ missed' \subseteq Objects
<1>1. /\ OwnedTargets \subseteq Objects \ CRDs
      /\ RemovedGCTargets \subseteq Objects \ CRDs
      /\ ManagedGCTargets \subseteq Objects \ CRDs
  BY ObjectsAssumption DEF OwnedTargets, ListedKinds, RemovedGCTargets,
     ManagedGCTargets
<1>2. CASE deleteOwnedOperands
  BY <1>1, <1>2 DEF deleteOwnedOperands, Listings, DeleteObjects, TypeOK
<1>3. CASE managedGC
  BY <1>1, <1>3 DEF managedGC, Listings, DeleteObjects, TypeOK
<1>4. CASE removedGC
  BY <1>1, <1>4 DEF removedGC, Listings
<1>5. QED
  BY <1>2, <1>3, <1>4

(* It keeps the operands well-formed.                                       *)
LEMMA CollectionsType ==
    ASSUME TypeOK, deleteOwnedOperands \/ managedGC \/ removedGC
    PROVE  objs' \in [Objects -> Operands] /\ unseen' \subseteq Objects
           /\ lost' \subseteq Objects /\ missed' \subseteq Objects
<1>1. PICK S \in SUBSET (Objects \ CRDs) : EraseObjects(S)
  BY CollectionsErase
<1>2. QED
  BY <1>1, CollectionsErase, EraseObjectsType

-----------------------------------------------------------------------------
(* Type correctness.                                                        *)

(* Every step of a pass keeps the types.                                    *)
LEMMA TypeOKController == TypeOK /\ Controller => TypeOK'
<1> SUFFICES ASSUME TypeOK, Controller PROVE TypeOK'
  OBVIOUS
<1> USE ObjectFacts
<1>1. CASE StartPass
  <2>1. cache.obs \in 0..MaxGeneration
    BY DEF TypeOK, Rays
  <2>2. pc' \in PCs
    BY <1>1 DEF StartPass, GoTo, PCs, ApplyPCs, DeletePCs
  <2>3. QED
    BY <1>1, <2>1, <2>2 DEF TypeOK, StartPass, rayVars, objVars, envVars
<1>2. CASE SkipPass
  BY <1>2 DEF TypeOK, SkipPass, rayVars, passVars, objVars, envVars
<1>3. CASE AddFinalizer
  <2>1. [rr EXCEPT !.fin = TRUE] \in Rays
    BY DEF TypeOK, Rays
  <2>2. QED
    BY <1>3, <2>1 DEF TypeOK, AddFinalizer, GoTo, EndWith, UpdateRay, rayVars,
              objVars, envVars, PCs, ApplyPCs
<1>4. CASE waitForNamespace
  <2>1. [rr EXCEPT !.fin = FALSE] \in Rays
    BY DEF TypeOK, Rays
  <2>2. QED
    BY <1>4, <2>1 DEF TypeOK, waitForNamespace, GoTo, EndWith, UpdateRay,
              rayVars, objVars, envVars, PCs, ApplyPCs
<1>5. CASE Prepare
  BY <1>5 DEF TypeOK, Prepare, GoTo, EndWith, rayVars, objVars, envVars, PCs,
              ApplyPCs
<1>6. CASE notebookClusterRole
  <2>1. CASE Removed /\ DeleteObjects({NotebookRole})
    BY <1>6, <2>1, DeleteObjectsType DEF TypeOK, notebookClusterRole, GoTo,
       EndWith, rayVars, envVars, PCs, ApplyPCs
  <2>2. CASE ~Removed \/ UNCHANGED objVars
    BY <1>6, <2>2 DEF TypeOK, notebookClusterRole, GoTo, EndWith, rayVars,
       objVars, envVars, PCs, ApplyPCs
  <2>3. QED
    BY <1>6, <2>1, <2>2 DEF notebookClusterRole, deleteNotebookClusterRole
<1>7. CASE Deploy
  <2>1. Desired(rr.mgmt, hasSCCs) \in SUBSET Objects
    BY DEF Desired
  <2>2. /\ objs' \in [Objects -> Operands] /\ unseen' \subseteq Objects
        /\ lost' \subseteq Objects /\ missed' \subseteq Objects
    BY <1>7, <2>1, ApplyObjectsType DEF Deploy
  <2>3. rr.gen \in 0..MaxGeneration
    BY DEF TypeOK, Rays
  <2>4. QED
    BY <1>7, <2>2, <2>3 DEF TypeOK, Deploy, GoTo, rayVars, envVars, PCs, ApplyPCs
<1>8. CASE reconcileGC
  <2>1. deleteOwnedOperands \/ managedGC \/ removedGC
    BY <1>8 DEF reconcileGC
  <2>2. /\ objs' \in [Objects -> Operands] /\ unseen' \subseteq Objects
        /\ lost' \subseteq Objects /\ missed' \subseteq Objects
    BY <2>1, CollectionsType
  <2>3. QED
    BY <1>8, <2>2 DEF TypeOK, reconcileGC, GoTo, EndWith, rayVars, envVars, PCs,
       ApplyPCs
<1>9. CASE StatusUpdate
  <2>1. Report(ray) \in Rays
    BY DEF TypeOK, Rays, Report
  <2>2. QED
    BY <1>9, <2>1 DEF TypeOK, StatusUpdate, Finish, GoTo, objVars, envVars, PCs,
       rayVars
<1>10. CASE DeletionCleanup
  <2>1. DeleteObjects({NotebookRole}) => \E S \in SUBSET Objects : DeleteObjects(S)
    OBVIOUS
  <2>2. \/ UNCHANGED objVars \/ DeleteObjects({NotebookRole})
        \/ deleteOwnedOperands \/ removedGC
    BY <1>10 DEF DeletionCleanup, deleteNotebookClusterRole
  <2>3. /\ objs' \in [Objects -> Operands] /\ unseen' \subseteq Objects
        /\ lost' \subseteq Objects /\ missed' \subseteq Objects
    BY <2>1, <2>2, DeleteObjectsType, CollectionsType DEF TypeOK, objVars
  <2>4. QED
    BY <1>10, <2>3 DEF TypeOK, DeletionCleanup, GoTo, rayVars, envVars, PCs,
       DeletePCs
<1>11. CASE RemoveFinalizer
  BY <1>11 DEF TypeOK, RemoveFinalizer, Finish, GoTo, objVars, envVars, PCs,
     rayVars
<1>12. QED
  BY <1>1, <1>2, <1>3, <1>4, <1>5, <1>6, <1>7, <1>8, <1>9, <1>10, <1>11
     DEF Controller

(* So do API errors and crashes, whatever part of an action they cut off.   *)
LEMMA TypeOKFailure == TypeOK /\ Failure => TypeOK'
<1> SUFFICES ASSUME TypeOK, Failure PROVE TypeOK'
  OBVIOUS
<1> USE ObjectFacts
<1>0. Fault => faults' \in 0..MaxFaults
  BY BoundsAssumption DEF TypeOK, Fault
<1>1. CASE waitForNamespaceFails
  BY <1>0, <1>1 DEF TypeOK, waitForNamespaceFails, GoTo, EndWith, rayVars,
     objVars, PCs, ApplyPCs
<1>2. CASE RESTMappingFails
  BY <1>0, <1>2 DEF TypeOK, RESTMappingFails, GoTo, rayVars, objVars, PCs,
     ApplyPCs
<1>3. CASE ActionFails
  <2>1. /\ OwnedTargets \subseteq Objects /\ GCTargets \subseteq Objects
        /\ Desired(rr.mgmt, hasSCCs) \subseteq Objects
    BY DEF OwnedTargets, ListedKinds, GCTargets, RemovedGCTargets,
           ManagedGCTargets, Desired
  <2>2. \/ UNCHANGED objVars
        \/ \E S \in SUBSET Objects : DeleteObjects(S) \/ ApplyObjects(S)
    BY <1>3, <2>1 DEF ActionFails
  <2>3. /\ objs' \in [Objects -> Operands] /\ unseen' \subseteq Objects
        /\ lost' \subseteq Objects /\ missed' \subseteq Objects
    BY <2>2, DeleteObjectsType, ApplyObjectsType DEF TypeOK, objVars
  <2>4. QED
    BY <1>0, <1>3, <2>3 DEF TypeOK, ActionFails, GoTo, EndWith, rayVars, PCs,
       ApplyPCs
<1>4. CASE PassFails
  <2>1. OwnedTargets \subseteq Objects /\ RemovedGCTargets \subseteq Objects
    BY DEF OwnedTargets, ListedKinds, RemovedGCTargets
  <2>2. UNCHANGED objVars \/ \E S \in SUBSET Objects : DeleteObjects(S)
    BY <1>4, <2>1 DEF PassFails
  <2>3. /\ objs' \in [Objects -> Operands] /\ unseen' \subseteq Objects
        /\ lost' \subseteq Objects /\ missed' \subseteq Objects
    BY <2>2, DeleteObjectsType DEF TypeOK, objVars
  <2>4. QED
    BY <1>0, <1>4, <2>3 DEF TypeOK, PassFails, Finish, GoTo, rayVars, PCs
<1>5. CASE Crash
  BY <1>0, <1>5 DEF TypeOK, Crash, GoTo, PCs
<1>6. QED
  BY <1>1, <1>2, <1>3, <1>4, <1>5 DEF Failure

(* So do users, third parties, the watches and the cluster's collector.     *)
LEMMA TypeOKEnvironment ==
    TypeOK /\ (Environment \/ CacheSync \/ \E o \in Objects : Observe(o) \/ KubeGC(o))
        => TypeOK'
<1> SUFFICES ASSUME TypeOK PROVE
        (Environment \/ CacheSync \/ \E o \in Objects : Observe(o) \/ KubeGC(o))
            => TypeOK'
  OBVIOUS
<1> USE ObjectFacts
<1>0. Tamper => tampers' \in 0..MaxTampers
  BY BoundsAssumption DEF TypeOK, Tamper
<1>1. ASSUME NEW m \in States, NEW p \in BOOLEAN, UserCreate(m, p) PROVE TypeOK'
  <2>1. /\ lastUID + 1 \in 0..MaxUID /\ 1 \in 0..MaxGeneration
    BY <1>1, BoundsAssumption DEF TypeOK, UserCreate
  <2>2. [NoRay EXCEPT !.uid = lastUID + 1, !.gen = 1, !.mgmt = m,
                      !.projected = p] \in Rays
    BY <2>1 DEF Rays, NoRay
  <2>3. QED
    BY <1>1, <2>1, <2>2 DEF TypeOK, UserCreate, StoreRay, objVars, envVars
<1>2. ASSUME NEW m \in States, NEW p \in BOOLEAN, UserEdit(m, p) PROVE TypeOK'
  <2>1. ray.gen + 1 \in 0..MaxGeneration
    BY <1>2, BoundsAssumption DEF TypeOK, UserEdit, Rays
  <2>2. [ray EXCEPT !.gen = @ + 1, !.mgmt = m, !.projected = p] \in Rays
    BY <2>1 DEF TypeOK, Rays
  <2>3. QED
    BY <1>2, <2>2 DEF TypeOK, UserEdit, StoreRay, objVars, envVars
<1>3. CASE UserDelete
  <2>1. [ray EXCEPT !.del = TRUE] \in Rays
    BY DEF TypeOK, Rays
  <2>2. QED
    BY <1>3, <2>1 DEF TypeOK, UserDelete, StoreRay, objVars, envVars
<1>4. CASE PlatformConfigEvent
  BY <1>0, <1>4 DEF TypeOK, PlatformConfigEvent, rayVars, passVars, objVars
<1>5. CASE InstallCertManager
  BY <1>5 DEF TypeOK, InstallCertManager, rayVars, passVars, objVars
<1>6. ASSUME NEW o \in Objects, ThirdPartyDelete(o) PROVE TypeOK'
  BY <1>0, <1>6 DEF TypeOK, ThirdPartyDelete, rayVars, passVars
<1>7. ASSUME NEW o \in Objects, StripLabel(o) PROVE TypeOK'
  <2>1. [objs[o] EXCEPT !.labelled = FALSE] \in Operands
    BY DEF TypeOK, Operands
  <2>2. objs' \in [Objects -> Operands]
    BY <1>7, <2>1 DEF TypeOK, StripLabel
  <2>3. QED
    BY <1>0, <1>7, <2>2 DEF TypeOK, StripLabel, rayVars, passVars
<1>8. CASE CacheSync
  BY <1>8 DEF TypeOK, CacheSync, passVars, objVars, envVars
<1>9. ASSUME NEW o \in Objects, Observe(o) PROVE TypeOK'
  BY <1>9 DEF TypeOK, Observe, rayVars, passVars, envVars
<1>10. ASSUME NEW o \in Objects, KubeGC(o) PROVE TypeOK'
  BY <1>10, DeleteObjectsType DEF TypeOK, KubeGC, rayVars, passVars, envVars
<1>11. QED
  BY <1>1, <1>2, <1>3, <1>4, <1>5, <1>6, <1>7, <1>8, <1>9, <1>10
     DEF Environment

(* TypeOK is inductive as it stands.                                        *)
LEMMA TypeOKStep == TypeOK /\ [Next]_vars => TypeOK'
<1>1. TypeOK /\ UNCHANGED vars => TypeOK'
  BY DEF TypeOK, vars, rayVars, passVars, objVars, envVars
<1>2. QED
  BY <1>1, TypeOKController, TypeOKFailure, TypeOKEnvironment DEF Next

(* Every behaviour of the controller and its surroundings is well-typed:    *)
(* in particular no status write reports a generation beyond the bound and  *)
(* no apply stamps one.                                                     *)
THEOREM TypeCorrect == Spec => []TypeOK
<1>1. Init => TypeOK
  BY ObjectFacts DEF Init, TypeOK, PCs
<1>2. QED
  BY <1>1, TypeOKStep, PTL DEF Spec

-----------------------------------------------------------------------------
(* The finalizer guards the operands.                                       *)

(* No deletion makes an operand of the module appear.                       *)
LEMMA DeleteDeploysNothing ==
    ASSUME TypeOK, NEW S, DeleteObjects(S)
    PROVE  \A o \in Objects : Deployed(o)' => Deployed(o)
BY DEF DeleteObjects, EraseObjects, Deployed, NoObj

(* A collection of all labelled operands leaves none it has not missed.     *)
LEMMA RemovedGCLeavesMissed ==
    ASSUME TypeOK, removedGC
    PROVE  \A o \in Objects \ CRDs : objs'[o].labelled => o \in missed'
<1>1. PICK S \in Listings(RemovedGCTargets) :
         EraseObjects(S) /\ missed' = RemovedGCTargets \ S
  BY DEF removedGC
<1>2. QED
  BY <1>1 DEF EraseObjects, RemovedGCTargets, NoObj

(* No collection makes an operand of the module appear.                     *)
LEMMA CollectionsDeployNothing ==
    ASSUME TypeOK, deleteOwnedOperands \/ managedGC \/ removedGC
    PROVE  \A o \in Objects : Deployed(o)' => Deployed(o)
<1>1. CASE removedGC
  BY <1>1, RemovedGCLeavesMissed DEF Deployed
<1>2. CASE deleteOwnedOperands \/ managedGC
  BY <1>2, DeleteDeploysNothing DEF deleteOwnedOperands, managedGC
<1>3. QED
  BY <1>1, <1>2

(* A step that leaves the operands alone deploys nothing.                   *)
LEMMA SameObjsDeployNothing ==
    ASSUME UNCHANGED <<objs, missed>>
    PROVE  \A o \in Objects : Deployed(o)' => Deployed(o)
BY DEF Deployed

(* A step that leaves the CR and its copies alone and deploys nothing keeps *)
(* all of GuardInv but the shape of the pass.                               *)
LEMMA QuietStep ==
    ASSUME GuardInv, UNCHANGED <<rayVars, rr, snapCurrent>>,
           pc # "idle" \/ pc' = "idle",
           \A o \in Objects : Deployed(o)' => Deployed(o),
           ApplyPassShape', DeletePassShape'
    PROVE  GuardInv'
BY DEF GuardInv, FinalizerGuardsOperands, CopiesAgree, StillGuards,
       StillTerminating, Guards, UIDsKnown, rayVars

(* A pass that ends, or a crash, forgets its snapshot.                      *)
LEMMA GuardInvFinish ==
    ASSUME TypeOK, GuardInv, Finish(TRUE), UNCHANGED rayVars,
           \A o \in Objects : Deployed(o)' => Deployed(o)
    PROVE  GuardInv'
BY DEF GuardInv, FinalizerGuardsOperands, CopiesAgree, StillGuards, TypeOK,
       StillTerminating, Guards, UIDsKnown, rayVars, Finish, GoTo, NoRay,
       ApplyPassShape, DeletePassShape, ApplyPCs, DeletePCs

(* The steps of a pass keep the guard: see ApplyPassShape, DeletePassShape. *)
LEMMA GuardInvController == TypeOK /\ GuardInv /\ Controller => GuardInv'
<1> SUFFICES ASSUME TypeOK, GuardInv, Controller PROVE GuardInv'
  OBVIOUS
<1> USE ObjectFacts
<1>1. CASE StartPass
  <2>1. \A o \in Objects : Deployed(o)' => Deployed(o)
    BY <1>1, SameObjsDeployNothing DEF StartPass, objVars
  <2>2. QED
    BY <1>1, <2>1 DEF StartPass, GoTo, rayVars, GuardInv,
       FinalizerGuardsOperands, CopiesAgree, StillGuards, StillTerminating,
       Guards, UIDsKnown, ApplyPassShape, DeletePassShape, ApplyPCs, DeletePCs
<1>2. CASE SkipPass
  <2>1. \A o \in Objects : Deployed(o)' => Deployed(o)
    BY <1>2, SameObjsDeployNothing DEF SkipPass, objVars
  <2>2. ApplyPassShape' /\ DeletePassShape'
    BY <1>2 DEF SkipPass, passVars, ApplyPassShape, DeletePassShape, ApplyPCs,
       DeletePCs
  <2>3. QED
    BY <1>2, <2>1, <2>2, QuietStep DEF SkipPass, passVars
<1>3. CASE AddFinalizer
  <2>1. \A o \in Objects : Deployed(o)' => Deployed(o)
    BY <1>3, SameObjsDeployNothing DEF AddFinalizer, objVars
  <2>2. CASE rr.fin \/ ~snapCurrent
    <3>1. ApplyPassShape' /\ DeletePassShape'
      BY <1>3, <2>2 DEF AddFinalizer, GoTo, EndWith, UpdateRay, GuardInv,
         ApplyPassShape, DeletePassShape, ApplyPCs, DeletePCs
    <3>2. QED
      BY <1>3, <2>1, <2>2, <3>1, QuietStep DEF AddFinalizer
  <2>3. CASE ~rr.fin /\ snapCurrent
    <3>1. /\ ray' = [rr EXCEPT !.fin = TRUE] /\ rr' = ray' /\ rr = ray
          /\ pc' = "preApply" /\ snapCurrent' = TRUE
          /\ cache' = cache /\ lastUID' = lastUID
          /\ cacheCurrent' => ray' = ray /\ cacheCurrent
      BY <1>3, <2>3 DEF AddFinalizer, UpdateRay, GoTo, GuardInv, CopiesAgree,
         TypeOK
    <3>2. /\ ray'.uid = ray.uid /\ ray'.fin /\ ray'.del = ray.del
          /\ ray'.projected = ray.projected
      BY <3>1 DEF TypeOK, Rays
    <3>3. QED
      BY <1>3, <2>1, <2>3, <3>1, <3>2 DEF AddFinalizer, GuardInv,
         FinalizerGuardsOperands, CopiesAgree, StillGuards, StillTerminating,
         Guards, UIDsKnown, ApplyPassShape, DeletePassShape, ApplyPCs, DeletePCs
  <2>4. QED
    BY <1>3, <2>2, <2>3 DEF AddFinalizer
<1>4. CASE waitForNamespace
  <2>1. \A o \in Objects : Deployed(o)' => Deployed(o)
    BY <1>4, SameObjsDeployNothing DEF waitForNamespace, objVars
  <2>2. CASE UNCHANGED <<rayVars, rr, snapCurrent>>
    <3>1. ApplyPassShape' /\ DeletePassShape'
      BY <1>4, <2>2 DEF waitForNamespace, GoTo, EndWith, UpdateRay, GuardInv,
         ApplyPassShape, DeletePassShape, ApplyPCs, DeletePCs, Guards
    <3>2. QED
      BY <1>4, <2>1, <2>2, <3>1, QuietStep DEF waitForNamespace
  <2>3. CASE ~rr.projected /\ snapCurrent
    <3>1. /\ ray' = [rr EXCEPT !.fin = FALSE] /\ rr' = ray' /\ rr = ray
          /\ pc' = "status" /\ snapCurrent' = TRUE
          /\ cache' = cache /\ lastUID' = lastUID
          /\ cacheCurrent' => ray' = ray /\ cacheCurrent
      BY <1>4, <2>3 DEF waitForNamespace, UpdateRay, GoTo, EndWith, GuardInv,
         CopiesAgree, TypeOK
    <3>2. /\ ray'.uid = ray.uid /\ ray'.del = ray.del
          /\ ray'.projected = ray.projected
      BY <3>1 DEF TypeOK, Rays
    <3>3. QED
      BY <1>4, <2>1, <2>3, <3>1, <3>2 DEF waitForNamespace, GuardInv,
         FinalizerGuardsOperands, CopiesAgree, StillGuards, StillTerminating,
         Guards, UIDsKnown, ApplyPassShape, DeletePassShape, ApplyPCs, DeletePCs
  <2>4. QED
    BY <1>4, <2>2, <2>3 DEF waitForNamespace
<1>5. CASE Prepare
  <2>1. \A o \in Objects : Deployed(o)' => Deployed(o)
    BY <1>5, SameObjsDeployNothing DEF Prepare, objVars
  <2>2. ApplyPassShape' /\ DeletePassShape'
    BY <1>5 DEF Prepare, GoTo, EndWith, GuardInv, ApplyPassShape,
       DeletePassShape, ApplyPCs, DeletePCs, Guards
  <2>3. QED
    BY <1>5, <2>1, <2>2, QuietStep DEF Prepare
<1>6. CASE notebookClusterRole \/ Deploy
  <2>1. Guards(rr) /\ ~rr.del /\ Guards(ray)
    BY <1>6 DEF notebookClusterRole, Deploy, GuardInv, ApplyPassShape, ApplyPCs,
       StillGuards
  <2>2. UNCHANGED <<rayVars, rr, snapCurrent>>
    BY <1>6 DEF notebookClusterRole, Deploy
  <2>3. pc \in {"notebook", "deploy"} /\ pc' \in {"deploy", "gcOwned", "gc", "status"}
    BY <1>6 DEF notebookClusterRole, Deploy, GoTo, EndWith
  <2>4. QED
    BY <2>1, <2>2, <2>3 DEF GuardInv, FinalizerGuardsOperands, CopiesAgree,
       StillGuards, StillTerminating, Guards, UIDsKnown, ApplyPassShape,
       DeletePassShape, ApplyPCs, DeletePCs, rayVars
<1>7. CASE reconcileGC
  <2>1. \A o \in Objects : Deployed(o)' => Deployed(o)
    BY <1>7, CollectionsDeployNothing DEF reconcileGC
  <2>2. ApplyPassShape' /\ DeletePassShape'
    BY <1>7 DEF reconcileGC, GoTo, EndWith, GuardInv, ApplyPassShape,
       DeletePassShape, ApplyPCs, DeletePCs, Guards
  <2>3. QED
    BY <1>7, <2>1, <2>2, QuietStep DEF reconcileGC
<1>8. CASE StatusUpdate
  <2>1. \A o \in Objects : Deployed(o)' => Deployed(o)
    BY <1>8, SameObjsDeployNothing DEF StatusUpdate, objVars
  <2>2. ray' \in Rays /\ ray'.uid = ray.uid /\ ray'.fin = ray.fin
        /\ ray'.projected = ray.projected /\ ray'.del = ray.del
    BY <1>8 DEF StatusUpdate, Report, TypeOK, Rays
  <2>3. /\ pc' = "idle" /\ rr' = NoRay /\ snapCurrent' = FALSE
        /\ cache' = cache /\ lastUID' = lastUID
    BY <1>8 DEF StatusUpdate, Finish, GoTo
  <2>4. cacheCurrent' => ray' = ray /\ cacheCurrent
    BY <1>8, Zenon DEF StatusUpdate
  <2>5. QED
    BY <2>1, <2>2, <2>3, <2>4 DEF GuardInv, FinalizerGuardsOperands, CopiesAgree,
       StillGuards, StillTerminating, Guards, UIDsKnown, ApplyPassShape,
       DeletePassShape, ApplyPCs, DeletePCs, NoRay, TypeOK
<1>9. CASE DeletionCleanup
  <2>1. \A o \in Objects : Deployed(o)' => Deployed(o)
    BY <1>9, DeleteDeploysNothing, CollectionsDeployNothing, SameObjsDeployNothing
       DEF DeletionCleanup, deleteNotebookClusterRole, objVars
  <2>2. pc = "delGC" => \A o \in Objects : ~Deployed(o)'
    BY <1>9, RemovedGCLeavesMissed DEF DeletionCleanup, Deployed
  <2>3. ApplyPassShape' /\ DeletePassShape'
    BY <1>9, <2>1, <2>2 DEF DeletionCleanup, GoTo, GuardInv, ApplyPassShape,
       DeletePassShape, ApplyPCs, DeletePCs, rayVars
  <2>4. QED
    BY <1>9, <2>1, <2>3, QuietStep DEF DeletionCleanup
<1>10. CASE RemoveFinalizer
  <2>1. \A o \in Objects : Deployed(o)' => Deployed(o)
    BY <1>10, SameObjsDeployNothing DEF RemoveFinalizer, objVars
  <2>2. CASE ~snapCurrent
    BY <1>10, <2>1, <2>2, GuardInvFinish DEF RemoveFinalizer, rayVars
  <2>3. CASE snapCurrent
    <3>1. rr = ray /\ ray.uid # 0 /\ (cache.uid = ray.uid => cache.del)
      BY <1>10, <2>3 DEF RemoveFinalizer, GuardInv, CopiesAgree,
         DeletePassShape, DeletePCs
    <3>2. \A o \in Objects : ~Deployed(o)
      BY <1>10, <3>1 DEF RemoveFinalizer, GuardInv, FinalizerGuardsOperands,
         DeletePassShape, DeletePCs, Guards
    <3>3. /\ ray' = NoRay /\ cacheCurrent' = FALSE /\ pc' = "idle"
          /\ rr' = NoRay /\ snapCurrent' = FALSE
          /\ cache' = cache /\ lastUID' = lastUID
      BY <1>10, <2>3 DEF RemoveFinalizer, Finish, GoTo
    <3>4. QED
      BY <2>1, <3>1, <3>2, <3>3 DEF GuardInv, FinalizerGuardsOperands,
         CopiesAgree, StillGuards, StillTerminating, Guards, UIDsKnown,
         ApplyPassShape, DeletePassShape, ApplyPCs, DeletePCs, NoRay, TypeOK
  <2>4. QED
    BY <2>2, <2>3 DEF TypeOK
<1>11. QED
  BY <1>1, <1>2, <1>3, <1>4, <1>5, <1>6, <1>7, <1>8, <1>9, <1>10 DEF Controller

(* A failed or crashed pass leaves no more than a part of its writes.       *)
LEMMA GuardInvFailure == TypeOK /\ GuardInv /\ Failure => GuardInv'
<1> SUFFICES ASSUME TypeOK, GuardInv, Failure PROVE GuardInv'
  OBVIOUS
<1> USE ObjectFacts
<1>1. CASE waitForNamespaceFails \/ RESTMappingFails
  <2>1. \A o \in Objects : Deployed(o)' => Deployed(o)
    BY <1>1, SameObjsDeployNothing DEF waitForNamespaceFails, RESTMappingFails,
       objVars
  <2>2. ApplyPassShape' /\ DeletePassShape'
    BY <1>1 DEF waitForNamespaceFails, RESTMappingFails, GoTo, EndWith, GuardInv,
       ApplyPassShape, DeletePassShape, ApplyPCs, DeletePCs, Guards
  <2>3. QED
    BY <1>1, <2>1, <2>2, QuietStep DEF waitForNamespaceFails, RESTMappingFails
<1>2. CASE ActionFails /\ pc = "deploy"
  <2>1. Guards(rr) /\ ~rr.del /\ Guards(ray)
    BY <1>2 DEF GuardInv, ApplyPassShape, ApplyPCs, StillGuards
  <2>2. UNCHANGED <<rayVars, rr, snapCurrent>> /\ pc' = "status"
    BY <1>2 DEF ActionFails, EndWith, GoTo
  <2>3. QED
    BY <1>2, <2>1, <2>2 DEF GuardInv, FinalizerGuardsOperands, CopiesAgree,
       StillGuards, StillTerminating, Guards, UIDsKnown, ApplyPassShape,
       DeletePassShape, ApplyPCs, DeletePCs, rayVars
<1>3. CASE ActionFails /\ pc # "deploy"
  <2>1. \A o \in Objects : Deployed(o)' => Deployed(o)
    BY <1>3, DeleteDeploysNothing, SameObjsDeployNothing DEF ActionFails, objVars
  <2>2. ApplyPassShape' /\ DeletePassShape'
    BY <1>3 DEF ActionFails, GoTo, EndWith, GuardInv, ApplyPassShape,
       DeletePassShape, ApplyPCs, DeletePCs
  <2>3. QED
    BY <1>3, <2>1, <2>2, QuietStep DEF ActionFails, EndWith, GoTo
<1>4. CASE PassFails
  <2>1. \A o \in Objects : Deployed(o)' => Deployed(o)
    BY <1>4, DeleteDeploysNothing, SameObjsDeployNothing DEF PassFails, objVars
  <2>2. QED
    BY <1>4, <2>1, GuardInvFinish DEF PassFails
<1>5. CASE Crash
  <2>1. \A o \in Objects : Deployed(o)' => Deployed(o)
    BY <1>5, SameObjsDeployNothing DEF Crash
  <2>2. QED
    BY <1>5, <2>1 DEF Crash, GoTo, NoRay, GuardInv, FinalizerGuardsOperands,
       CopiesAgree, StillGuards, StillTerminating, Guards, UIDsKnown,
       ApplyPassShape, DeletePassShape, ApplyPCs, DeletePCs, TypeOK
<1>6. QED
  BY <1>1, <1>2, <1>3, <1>4, <1>5 DEF Failure

(* What users do: create with a fresh UID, edit without clearing the        *)
(* namespace, and delete.                                                   *)
LEMMA GuardInvUser ==
    ASSUME TypeOK, GuardInv,
           NEW m \in States, NEW p \in BOOLEAN,
           UserCreate(m, p) \/ UserEdit(m, p) \/ UserDelete
    PROVE  GuardInv'
<1>1. \A o \in Objects : Deployed(o)' => Deployed(o)
  BY SameObjsDeployNothing DEF UserCreate, UserEdit, UserDelete, objVars
<1>2. /\ UNCHANGED <<cache, pc, rr>> /\ cacheCurrent' = FALSE /\ snapCurrent' = FALSE
  BY DEF UserCreate, UserEdit, UserDelete, StoreRay
<1>3. CASE UserCreate(m, p)
  <2>1. ray.uid = 0 /\ lastUID' = lastUID + 1 /\ ray'.uid = lastUID + 1
    BY <1>3 DEF UserCreate, StoreRay, NoRay
  <2>2. cache.uid # ray'.uid /\ rr.uid # ray'.uid
    BY <2>1 DEF GuardInv, UIDsKnown, TypeOK, Rays
  <2>3. ~Guards(ray) /\ (pc \notin {"idle"} => ~(Guards(rr) /\ ~rr.del))
        /\ ~(Guards(cache) /\ ~cache.del)
    BY <2>1 DEF GuardInv, StillGuards, Guards
  <2>4. UIDsKnown'
    BY <1>2, <2>1 DEF GuardInv, UIDsKnown, TypeOK, Rays
  <2>5. QED
    BY <1>1, <1>2, <2>1, <2>2, <2>3, <2>4 DEF GuardInv, FinalizerGuardsOperands,
       CopiesAgree, StillGuards, StillTerminating, Guards, ApplyPassShape,
       DeletePassShape
<1>4. CASE UserEdit(m, p)
  <2>1. /\ ray'.uid = ray.uid /\ ray'.fin = ray.fin /\ ray'.del = ray.del
        /\ ray.projected => ray'.projected
        /\ lastUID' = lastUID
    BY <1>4 DEF UserEdit, StoreRay, AdmitsNamespace, TypeOK, Rays
  <2>2. QED
    BY <1>1, <1>2, <2>1 DEF GuardInv, FinalizerGuardsOperands, CopiesAgree,
       StillGuards, StillTerminating, Guards, UIDsKnown, ApplyPassShape,
       DeletePassShape
<1>5. CASE UserDelete /\ ray.fin
  <2>1. /\ ray'.uid = ray.uid /\ ray'.fin = ray.fin /\ ray'.del
        /\ ray.projected => ray'.projected
        /\ lastUID' = lastUID
    BY <1>5 DEF UserDelete, StoreRay, TypeOK, Rays
  <2>2. QED
    BY <1>1, <1>2, <2>1 DEF GuardInv, FinalizerGuardsOperands, CopiesAgree,
       StillGuards, StillTerminating, Guards, UIDsKnown, ApplyPassShape,
       DeletePassShape
<1>6. CASE UserDelete /\ ~ray.fin
  <2>1. ray' = NoRay /\ ray'.uid = 0 /\ lastUID' = lastUID
    BY <1>6 DEF UserDelete, StoreRay, NoRay
  <2>2. UIDsKnown'
    BY <1>2, <2>1 DEF GuardInv, UIDsKnown, TypeOK, Rays
  <2>3. QED
    BY <1>1, <1>2, <1>6, <2>1, <2>2 DEF GuardInv, FinalizerGuardsOperands,
       CopiesAgree, StillGuards, StillTerminating, Guards, ApplyPassShape,
       DeletePassShape
<1>7. QED
  BY <1>3, <1>4, <1>5, <1>6

(* Watches, third parties and the collector never touch the CR.             *)
LEMMA GuardInvEnvironment ==
    TypeOK /\ GuardInv
    /\ (Environment \/ CacheSync \/ \E o \in Objects : Observe(o) \/ KubeGC(o))
        => GuardInv'
<1> SUFFICES ASSUME TypeOK, GuardInv PROVE
        (Environment \/ CacheSync \/ \E o \in Objects : Observe(o) \/ KubeGC(o))
            => GuardInv'
  OBVIOUS
<1>1. ASSUME NEW m \in States, NEW p \in BOOLEAN,
             UserCreate(m, p) \/ UserEdit(m, p)
      PROVE  GuardInv'
  BY <1>1, GuardInvUser
<1>2. CASE UserDelete
  BY <1>2, GuardInvUser DEF States
<1>3. CASE CacheSync
  <2>1. \A o \in Objects : Deployed(o)' => Deployed(o)
    BY <1>3, SameObjsDeployNothing DEF CacheSync, objVars
  <2>2. QED
    BY <1>3, <2>1 DEF CacheSync, passVars, GuardInv, FinalizerGuardsOperands,
       CopiesAgree, StillGuards, StillTerminating, Guards, UIDsKnown,
       ApplyPassShape, DeletePassShape, DeletePCs
<1>4. ASSUME UNCHANGED <<rayVars, passVars>>,
             \A o \in Objects : Deployed(o)' => Deployed(o)
      PROVE  GuardInv'
  <2>1. ApplyPassShape' /\ DeletePassShape'
    BY <1>4 DEF GuardInv, ApplyPassShape, DeletePassShape, Guards, rayVars,
       passVars
  <2>2. QED
    BY <1>4, <2>1 DEF GuardInv, FinalizerGuardsOperands, CopiesAgree,
       StillGuards, StillTerminating, Guards, UIDsKnown, rayVars, passVars
<1>5. CASE PlatformConfigEvent \/ InstallCertManager
  BY <1>4, <1>5, SameObjsDeployNothing DEF PlatformConfigEvent,
     InstallCertManager, objVars
<1>6. ASSUME NEW o \in Objects, Observe(o) PROVE GuardInv'
  BY <1>4, <1>6, SameObjsDeployNothing DEF Observe
<1>7. ASSUME NEW o \in Objects, KubeGC(o) PROVE GuardInv'
  BY <1>4, <1>7, DeleteDeploysNothing DEF KubeGC
<1>8. ASSUME NEW o \in Objects, ThirdPartyDelete(o) \/ StripLabel(o) PROVE GuardInv'
  <2>1. ASSUME NEW q \in Objects, Deployed(q)' PROVE Deployed(q)
    <3>1. q # o
      BY <1>8, <2>1 DEF ThirdPartyDelete, StripLabel, Deployed, NoObj, TypeOK,
         Operands
    <3>2. objs'[q] = objs[q]
      BY <1>8, <3>1 DEF ThirdPartyDelete, StripLabel, TypeOK
    <3>3. QED
      BY <1>8, <2>1, <3>2 DEF Deployed, ThirdPartyDelete, StripLabel
  <2>2. QED
    BY <1>4, <1>8, <2>1 DEF ThirdPartyDelete, StripLabel
<1>9. QED
  BY <1>1, <1>2, <1>3, <1>5, <1>6, <1>7, <1>8 DEF Environment

(* GuardInv is inductive, given the types.                                  *)
LEMMA GuardInvStep == TypeOK /\ GuardInv /\ [Next]_vars => GuardInv'
<1>1. TypeOK /\ GuardInv /\ UNCHANGED vars => GuardInv'
  BY DEF GuardInv, FinalizerGuardsOperands, CopiesAgree, StillGuards, Deployed,
     StillTerminating, Guards, UIDsKnown, ApplyPassShape, DeletePassShape,
     vars, rayVars, passVars, objVars
<1>2. QED
  BY <1>1, GuardInvController, GuardInvFailure, GuardInvEnvironment DEF Next

(* Without operands and without a CR there is nothing to guard.             *)
LEMMA GuardInvInit == Init => GuardInv
<1> SUFFICES ASSUME Init PROVE GuardInv
  OBVIOUS
<1>1. \A o \in Objects : ~Deployed(o)
  BY ObjectsAssumption DEF Init, Deployed, NoObj, InTreeObj
<1>2. QED
  BY <1>1 DEF Init, GuardInv, FinalizerGuardsOperands, CopiesAgree,
     StillGuards, StillTerminating, Guards, UIDsKnown, ApplyPassShape,
     DeletePassShape, ApplyPCs, DeletePCs, NoRay

(* Types and guard hold together in every behaviour.                        *)
LEMMA GuardInvAlways == Spec => [](TypeOK /\ GuardInv)
BY GuardInvInit, TypeCorrect, GuardInvStep, PTL DEF Spec

(* As long as a labelled operand of the module exists, the CR exists with   *)
(* its finalizer and its namespace: whatever the lag of the informer, the   *)
(* interleaving of user edits, deletes and recreations with a running pass, *)
(* and wherever API errors and crashes strike.                              *)
THEOREM FinalizerGuards == Spec => []FinalizerGuardsOperands
<1>1. GuardInv => FinalizerGuardsOperands
  BY DEF GuardInv
<1>2. QED
  BY <1>1, GuardInvAlways, PTL

-----------------------------------------------------------------------------
(* What the collections never delete.                                       *)

(* All a step may do to the operands: deploy applies rendered ones, a       *)
(* collection or a part of one deletes what is no CRD, the cluster's        *)
(* collector and third parties take one.                                    *)
LEMMA ObjectsStep ==
    ASSUME TypeOK, Next
    PROVE  \/ UNCHANGED objs
           \/ \E S \in SUBSET Rendered : ApplyObjects(S)
           \/ \E S \in SUBSET (Objects \ CRDs) : EraseObjects(S)
           \/ objs' = [objs EXCEPT ![NotebookRole] = NotebookForm]
           \/ \E o \in Objects : KubeGC(o) \/ ThirdPartyDelete(o) \/ StripLabel(o)
<1>1. /\ OwnedTargets \subseteq Objects \ CRDs
      /\ RemovedGCTargets \subseteq Objects \ CRDs
      /\ GCTargets \subseteq Objects \ CRDs
      /\ {NotebookRole} \subseteq Objects \ CRDs
      /\ Desired(rr.mgmt, hasSCCs) \subseteq Rendered
  BY ObjectFacts, ObjectsAssumption DEF OwnedTargets, ListedKinds,
     RemovedGCTargets, GCTargets, ManagedGCTargets, Desired
<1>2. CASE notebookClusterRole
  BY <1>1, <1>2 DEF notebookClusterRole, deleteNotebookClusterRole, DeleteObjects,
     objVars
<1>3. CASE Deploy
  BY <1>1, <1>3 DEF Deploy
<1>4. CASE reconcileGC
  BY <1>4, CollectionsErase DEF reconcileGC
<1>5. CASE DeletionCleanup
  BY <1>1, <1>5, CollectionsErase DEF DeletionCleanup,
     deleteNotebookClusterRole, DeleteObjects, objVars
<1>6. CASE ActionFails
  BY <1>1, <1>6 DEF ActionFails, DeleteObjects, objVars
<1>7. CASE PassFails
  BY <1>1, <1>7 DEF PassFails, DeleteObjects, objVars
<1>8. CASE CacheSync \/ UserDelete \/ PlatformConfigEvent \/ InstallCertManager
  BY <1>8 DEF CacheSync, UserDelete, PlatformConfigEvent, InstallCertManager,
     objVars
<1>9. CASE waitForNamespaceFails \/ RESTMappingFails \/ Crash
  BY <1>9 DEF waitForNamespaceFails, RESTMappingFails, Crash, objVars
<1>10. CASE StartPass \/ SkipPass \/ AddFinalizer \/ waitForNamespace \/ Prepare
            \/ StatusUpdate \/ RemoveFinalizer
  BY <1>10 DEF StartPass, SkipPass, AddFinalizer, waitForNamespace, Prepare,
     StatusUpdate, RemoveFinalizer, objVars
<1>11. ASSUME NEW m, NEW p, UserCreate(m, p) \/ UserEdit(m, p)
       PROVE  UNCHANGED objs
  BY <1>11 DEF UserCreate, UserEdit, objVars
<1>12. ASSUME NEW o, Observe(o) PROVE UNCHANGED objs
  BY <1>12 DEF Observe
<1>13. QED
  BY <1>2, <1>3, <1>4, <1>5, <1>6, <1>7, <1>8, <1>9, <1>10, <1>11, <1>12
     DEF Next, Controller, Failure, Environment

(* Ownership comes from deploy alone, and deleteOwnedOperands runs in       *)
(* Removed passes alone.                                                    *)
LEMMA CollectInvStep == TypeOK /\ CollectInv /\ [Next]_vars => CollectInv'
<1> SUFFICES ASSUME TypeOK, CollectInv, [Next]_vars PROVE CollectInv'
  OBVIOUS
<1>1. pc' = "gcOwned" => Removed'
  <2>1. CASE Deploy
    BY <2>1 DEF Deploy, GoTo, Removed
  <2>2. CASE pc' = pc /\ rr' = rr
    BY <2>2 DEF CollectInv, Removed
  <2>3. CASE pc' # "gcOwned"
    BY <2>3
  <2>4. QED
    BY <2>1, <2>2, <2>3 DEF Next, Controller, Failure, Environment, CacheSync,
       Observe, KubeGC, StartPass, SkipPass, AddFinalizer, waitForNamespace,
       Prepare, notebookClusterRole, reconcileGC, StatusUpdate, DeletionCleanup,
       RemoveFinalizer, waitForNamespaceFails, RESTMappingFails, ActionFails,
       PassFails, Crash, UserCreate, UserEdit, UserDelete, PlatformConfigEvent,
       InstallCertManager, ThirdPartyDelete, StripLabel, GoTo, EndWith, Finish,
       passVars, vars
<1>2. ASSUME NEW o \in Objects, objs'[o].owner # 0 PROVE o \in Owning
  <2>1. CASE UNCHANGED objs
    BY <1>2, <2>1 DEF CollectInv
  <2>2. ASSUME NEW S, ApplyObjects(S) PROVE o \in Owning
    BY <1>2, <2>2 DEF ApplyObjects, AppliedForm, CollectInv
  <2>3. ASSUME NEW S, EraseObjects(S) PROVE o \in Owning
    BY <1>2, <2>3 DEF EraseObjects, NoObj, CollectInv
  <2>4. CASE objs' = [objs EXCEPT ![NotebookRole] = NotebookForm]
    BY <1>2, <2>4 DEF NotebookForm, CollectInv, TypeOK
  <2>5. ASSUME NEW q \in Objects, ThirdPartyDelete(q) \/ StripLabel(q)
        PROVE  o \in Owning
    <3>1. objs'[o].owner = objs[o].owner \/ objs'[o] = NoObj
      BY <2>5 DEF ThirdPartyDelete, StripLabel, TypeOK, Operands
    <3>2. QED
      BY <1>2, <3>1 DEF NoObj, CollectInv
  <2>6. QED
    BY <2>1, <2>2, <2>3, <2>4, <2>5, ObjectsStep DEF KubeGC, DeleteObjects,
       vars, objVars
<1>3. QED
  BY <1>1, <1>2 DEF CollectInv

(* Every behaviour keeps what the collections rely on.                      *)
LEMMA CollectInvAlways == Spec => [](TypeOK /\ CollectInv)
<1>1. Init => CollectInv
  BY DEF Init, CollectInv, NoObj, InTreeObj
<1>2. QED
  BY <1>1, CollectInvStep, TypeCorrect, PTL DEF Spec

(* No step of the controller, failed or not, and no cascade of the          *)
(* cluster's collector ever deletes a CRD.                                  *)
THEOREM CRDsNeverDeleted == Spec => CRDsSurvive
<1>1. ASSUME TypeOK, CollectInv, [Next]_vars, NEW o \in CRDs, objs[o].live
      PROVE  objs'[o].live
  <2>0. o \in Objects /\ o \notin Owning /\ o # NotebookRole
    BY ObjectsAssumption
  <2>1. CASE UNCHANGED objs
    BY <1>1, <2>1
  <2>2. ASSUME NEW S, ApplyObjects(S) PROVE objs'[o].live
    BY <1>1, <2>0, <2>2 DEF ApplyObjects, AppliedForm
  <2>3. ASSUME NEW S \in SUBSET (Objects \ CRDs), EraseObjects(S)
        PROVE  objs'[o].live
    BY <1>1, <2>0, <2>3 DEF EraseObjects
  <2>4. CASE objs' = [objs EXCEPT ![NotebookRole] = NotebookForm]
    BY <1>1, <2>0, <2>4 DEF TypeOK
  <2>5. ASSUME NEW q \in Objects, ThirdPartyDelete(q) PROVE objs'[o].live
    BY <1>1, <2>0, <2>5 DEF ThirdPartyDelete, TypeOK
  <2>6. ASSUME NEW q \in Objects, StripLabel(q) PROVE objs'[o].live
    BY <1>1, <2>0, <2>6 DEF StripLabel, TypeOK, Operands
  <2>7. ASSUME NEW q \in Objects, KubeGC(q) PROVE objs'[o].live
    BY <1>1, <2>0, <2>7 DEF KubeGC, DeleteObjects, EraseObjects, CollectInv
  <2>8. QED
    BY <1>1, <2>1, <2>2, <2>3, <2>4, <2>5, <2>6, <2>7, ObjectsStep
       DEF vars, objVars
<1>2. TypeOK /\ CollectInv /\ [Next]_vars
        => [\A o \in CRDs : objs[o].live => objs'[o].live]_vars
  BY <1>1
<1>3. QED
  BY <1>2, CollectInvAlways, PTL DEF Spec, CRDsSurvive

(* While the controller is in an apply pass on a Managed snapshot, the only *)
(* deletions are those of the owned-only collection.                        *)
LEMMA ManagedObjectsStep ==
    ASSUME TypeOK, CollectInv, Next, pc \in ApplyPCs, ~Removed, tampers' = tampers
    PROVE  \/ UNCHANGED objs
           \/ \E S : ApplyObjects(S)
           \/ \E S \in SUBSET ManagedGCTargets : DeleteObjects(S)
           \/ objs' = [objs EXCEPT ![NotebookRole] = NotebookForm]
           \/ \E o \in Objects : KubeGC(o)
<1>1. GCTargets = ManagedGCTargets /\ pc # "gcOwned"
  BY DEF GCTargets, CollectInv
<1>2. ~Tamper
  BY BoundsAssumption DEF Tamper, TypeOK
<1>3. CASE notebookClusterRole
  BY <1>3 DEF notebookClusterRole, objVars
<1>4. CASE Deploy
  BY <1>4 DEF Deploy
<1>5. CASE reconcileGC
  BY <1>1, <1>5 DEF reconcileGC, managedGC, Listings
<1>6. CASE DeletionCleanup \/ PassFails
  BY <1>6 DEF DeletionCleanup, PassFails, ApplyPCs, objVars
<1>7. CASE ActionFails
  BY <1>1, <1>7 DEF ActionFails, objVars
<1>8. CASE CacheSync \/ UserDelete \/ PlatformConfigEvent \/ InstallCertManager
  BY <1>8 DEF CacheSync, UserDelete, PlatformConfigEvent, InstallCertManager,
     objVars
<1>9. CASE waitForNamespaceFails \/ RESTMappingFails \/ Crash
  BY <1>9 DEF waitForNamespaceFails, RESTMappingFails, Crash, objVars
<1>10. CASE StartPass \/ SkipPass \/ AddFinalizer \/ waitForNamespace \/ Prepare
            \/ StatusUpdate \/ RemoveFinalizer
  BY <1>10 DEF StartPass, SkipPass, AddFinalizer, waitForNamespace, Prepare,
     StatusUpdate, RemoveFinalizer, objVars
<1>11. ASSUME NEW m, NEW p, UserCreate(m, p) \/ UserEdit(m, p)
       PROVE  UNCHANGED objs
  BY <1>11 DEF UserCreate, UserEdit, objVars
<1>12. ASSUME NEW o, Observe(o) PROVE UNCHANGED objs
  BY <1>12 DEF Observe
<1>13. ASSUME NEW o, ThirdPartyDelete(o) \/ StripLabel(o) PROVE FALSE
  BY <1>2, <1>13 DEF ThirdPartyDelete, StripLabel
<1>14. QED
  BY <1>3, <1>4, <1>5, <1>6, <1>7, <1>8, <1>9, <1>10, <1>11, <1>12, <1>13
     DEF Next, Controller, Failure, Environment

(* A Managed pass spares what the CR does not own, failed actions and the   *)
(* cluster's own collector included, for any set of operands.               *)
THEOREM ManagedSparesUnowned == Spec => ManagedPassSparesUnowned
<1>1. ASSUME TypeOK, GuardInv, CollectInv, [Next]_vars,
             pc \in ApplyPCs, rr.mgmt = "Managed", tampers' = tampers,
             NEW o \in Objects, objs[o].live, objs[o].owner = 0
      PROVE  objs'[o].live
  <2>0. ~Removed /\ rr.uid # 0
    BY <1>1 DEF Removed, GuardInv, ApplyPassShape
  <2>1. CASE UNCHANGED objs
    BY <1>1, <2>1
  <2>2. ASSUME NEW S, ApplyObjects(S) PROVE objs'[o].live
    BY <1>1, <2>2 DEF ApplyObjects, AppliedForm
  <2>3. ASSUME NEW S \in SUBSET ManagedGCTargets, DeleteObjects(S)
        PROVE  objs'[o].live
    BY <1>1, <2>0, <2>3 DEF DeleteObjects, EraseObjects, ManagedGCTargets
  <2>4. CASE objs' = [objs EXCEPT ![NotebookRole] = NotebookForm]
    BY <1>1, <2>4 DEF TypeOK, NotebookForm
  <2>5. ASSUME NEW q \in Objects, KubeGC(q) PROVE objs'[o].live
    BY <1>1, <2>5 DEF KubeGC, DeleteObjects, EraseObjects
  <2>6. QED
    BY <1>1, <2>0, <2>1, <2>2, <2>3, <2>4, <2>5, ManagedObjectsStep
       DEF vars, objVars
<1>2. TypeOK /\ GuardInv /\ CollectInv /\ [Next]_vars =>
        [(pc \in ApplyPCs) /\ rr.mgmt = "Managed" /\ tampers' = tampers =>
            \A o \in Objects : objs[o].live /\ objs[o].owner = 0
                                  => objs'[o].live]_vars
  BY <1>1
<1>3. QED
  BY <1>2, CollectInvAlways, GuardInvAlways, PTL DEF Spec, ManagedPassSparesUnowned

-----------------------------------------------------------------------------
(* No deletion is forgotten.                                                *)

(* A step that neither writes the CR, nor syncs the cache, nor takes a key  *)
(* from the queue or ends a pass without putting it back.                   *)
LEMMA DeleteInvQuiet ==
    ASSUME DeleteInv, UNCHANGED rayVars,
           queued => queued',
           pc \in DeletePCs => pc' \in DeletePCs \/ queued'
    PROVE  DeleteInv'
BY DEF DeleteInv, rayVars

(* The steps of a pass lose no deletion.                                    *)
LEMMA DeleteInvController ==
    TypeOK /\ GuardInv /\ DeleteInv /\ Controller => DeleteInv'
<1> SUFFICES ASSUME TypeOK, GuardInv, DeleteInv, Controller PROVE DeleteInv'
  OBVIOUS
<1>1. CASE StartPass
  BY <1>1 DEF StartPass, GoTo, rayVars, DeleteInv, DeletePCs
<1>2. CASE SkipPass
  BY <1>2 DEF SkipPass, rayVars, DeleteInv
<1>3. CASE AddFinalizer \/ waitForNamespace
  <2>1. UNCHANGED <<cache, queued>> /\ pc \notin DeletePCs
    BY <1>3 DEF AddFinalizer, waitForNamespace, rayVars, DeletePCs
  <2>2. ray'.uid = ray.uid /\ ray'.del = ray.del
    BY <1>3 DEF AddFinalizer, waitForNamespace, rayVars, UpdateRay, GuardInv,
       CopiesAgree, TypeOK, Rays
  <2>3. QED
    BY <2>1, <2>2 DEF DeleteInv
<1>4. CASE Prepare \/ notebookClusterRole \/ Deploy \/ reconcileGC
  BY <1>4, DeleteInvQuiet DEF Prepare, notebookClusterRole, Deploy, reconcileGC,
     DeletePCs
<1>5. CASE StatusUpdate
  <2>1. cache' = cache /\ pc \notin DeletePCs /\ (queued => queued')
    BY <1>5 DEF StatusUpdate, Finish, DeletePCs, TypeOK
  <2>2. ray'.uid = ray.uid /\ ray'.del = ray.del
    BY <1>5 DEF StatusUpdate, Report, TypeOK, Rays
  <2>3. QED
    BY <2>1, <2>2 DEF DeleteInv
<1>6. CASE DeletionCleanup
  BY <1>6, DeleteInvQuiet DEF DeletionCleanup, GoTo, DeletePCs
<1>7. CASE RemoveFinalizer
  <2>1. CASE ~snapCurrent
    BY <1>7, <2>1 DEF RemoveFinalizer, Finish, DeleteInv
  <2>2. CASE snapCurrent
    BY <1>7, <2>2 DEF RemoveFinalizer, DeleteInv, NoRay
  <2>3. QED
    BY <2>1, <2>2
<1>8. QED
  BY <1>1, <1>2, <1>3, <1>4, <1>5, <1>6, <1>7 DEF Controller

(* Neither do failures, users, watches and third parties.                   *)
LEMMA DeleteInvStep ==
    TypeOK /\ GuardInv /\ DeleteInv /\ [Next]_vars => DeleteInv'
<1> SUFFICES ASSUME TypeOK, GuardInv, DeleteInv, [Next]_vars PROVE DeleteInv'
  OBVIOUS
<1>1. CASE waitForNamespaceFails \/ RESTMappingFails \/ ActionFails
  BY <1>1, DeleteInvQuiet DEF waitForNamespaceFails, RESTMappingFails, ActionFails,
     DeletePCs
<1>2. CASE PassFails
  BY <1>2, DeleteInvQuiet DEF PassFails, Finish
<1>3. CASE Crash
  <2>1. ray' = ray /\ cache' = ray /\ (ray.uid # 0 => queued')
    BY <1>3 DEF Crash
  <2>2. QED
    BY <2>1 DEF DeleteInv
<1>4. CASE CacheSync
  <2>1. UNCHANGED <<ray, pc>> /\ cache' = ray
        /\ (queued \/ RayEventPasses(cache, ray) => queued')
    BY <1>4 DEF CacheSync, passVars
  <2>2. ray.del /\ ~RayEventPasses(cache, ray) => cache.uid = ray.uid /\ cache.del
    BY DEF RayEventPasses, DeletionTimestampSet
  <2>3. QED
    BY <2>1, <2>2 DEF DeleteInv
<1>5. ASSUME NEW m, NEW p, UserCreate(m, p) PROVE DeleteInv'
  <2>1. /\ cache' = cache /\ ~ray'.del /\ ray'.uid = lastUID + 1
    BY <1>5 DEF UserCreate, StoreRay, NoRay
  <2>2. cache.uid # ray'.uid
    BY <2>1 DEF GuardInv, UIDsKnown, TypeOK, Rays
  <2>3. QED
    BY <2>1, <2>2 DEF DeleteInv
<1>6. ASSUME NEW m, NEW p, UserEdit(m, p) PROVE DeleteInv'
  <2>1. /\ UNCHANGED <<cache, queued, pc>> /\ ray'.uid = ray.uid /\ ray'.del = ray.del
    BY <1>6 DEF UserEdit, StoreRay, TypeOK, Rays
  <2>2. QED
    BY <2>1 DEF DeleteInv
<1>7. CASE UserDelete
  <2>1. /\ UNCHANGED <<cache, queued, pc>>
        /\ (ray'.uid = ray.uid /\ ray.uid # 0) \/ (ray'.uid = 0 /\ ~ray'.del)
    BY <1>7 DEF UserDelete, StoreRay, TypeOK, Rays, NoRay
  <2>2. QED
    BY <2>1 DEF DeleteInv
<1>8. CASE PlatformConfigEvent \/ InstallCertManager
  BY <1>8, DeleteInvQuiet DEF PlatformConfigEvent, InstallCertManager, passVars
<1>9. ASSUME NEW o, Observe(o) \/ KubeGC(o) \/ ThirdPartyDelete(o) \/ StripLabel(o)
      PROVE  DeleteInv'
  <2>1. UNCHANGED <<rayVars, pc>>
    BY <1>9 DEF Observe, KubeGC, ThirdPartyDelete, StripLabel, passVars
  <2>2. queued => queued'
    BY <1>9 DEF Observe, KubeGC, ThirdPartyDelete, StripLabel
  <2>3. QED
    BY <2>1, <2>2, DeleteInvQuiet
<1>10. CASE UNCHANGED vars
  BY <1>10, DeleteInvQuiet DEF vars, passVars
<1>11. QED
  BY <1>1, <1>2, <1>3, <1>4, <1>5, <1>6, <1>7, <1>8, <1>9, <1>10,
     DeleteInvController DEF Next, Failure, Environment

(* The controller never rests while the CR is terminating: the event of a   *)
(* delete reaches the queue, and whatever pass it meets keeps it there.     *)
THEOREM DeletionRemembered == Spec => []DeletionNeverForgotten
<1>1. Init => DeleteInv
  BY DEF Init, DeleteInv, NoRay
<1>2. GuardInv /\ DeleteInv => DeletionNeverForgotten
  BY DEF GuardInv, CopiesAgree, DeleteInv, DeletionNeverForgotten, Quiescent,
     DeletePCs
<1>3. QED
  BY <1>1, <1>2, DeleteInvStep, GuardInvAlways, PTL DEF Spec
=============================================================================
