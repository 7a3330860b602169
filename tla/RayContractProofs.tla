------------------------- MODULE RayContractProofs --------------------------
(***************************************************************************)
(* RayLifecycle implements the safety part of ModuleContract, for every    *)
(* set of operands and every bound: every step of the controller, of its   *)
(* failures and of its surroundings is one step of the contract, or none.  *)
(***************************************************************************)
EXTENDS RayContract, RayReportProofs

(* Why a report maps to a report: only a pass whose snapshot guards the     *)
(* operands ends well, and what it reported does not outlive the guard.     *)
ContractInv ==
    /\ pc = "status" /\ outcome = "ok" => Guards(rr)
    /\ ReportsRemoved => Guards(ray)

-----------------------------------------------------------------------------
(* A step of the contract, or none, as the platform sees the cluster.       *)
ContractStep == [Contract!Next]_(Contract!vars)

(* What the contract's variables are.                                       *)
LEMMA ContractTypes ==
    /\ AnyDeployed \in BOOLEAN /\ ReportsRemoved \in BOOLEAN
    /\ Phase \in {"absent", "open", "guarded", "closing"}
    /\ Phase \in {"guarded", "closing"} <=> Guards(ray)
BY DEF AnyDeployed, ReportsRemoved, Phase, Guards

(* The next values of the contract's flags are flags too.                   *)
LEMMA ContractTypesNext ==
    AnyDeployed' \in BOOLEAN /\ ReportsRemoved' \in BOOLEAN
BY DEF AnyDeployed, ReportsRemoved

(* While the CR stays as it is, phase and report do.                        *)
LEMMA SameRaySamePhase ==
    ASSUME ray' = ray PROVE Phase' = Phase /\ ReportsRemoved' = ReportsRemoved
BY DEF Phase, ReportsRemoved, Guards

(* While the operands stay as they are, none appears or goes.               *)
LEMMA SameObjsSameDeployed ==
    ASSUME UNCHANGED <<objs, missed>> PROVE AnyDeployed' = AnyDeployed
BY DEF AnyDeployed, Deployed

(* A step on the operands alone cleans up, deploys under the guard, or is   *)
(* none of the platform's business.                                         *)
LEMMA ObjectsOnly ==
    ASSUME ray' = ray,
           AnyDeployed' /\ ~AnyDeployed => Guards(ray) /\ ~ReportsRemoved
    PROVE  ContractStep
<1>1. Phase' = Phase /\ ReportsRemoved' = ReportsRemoved
  BY SameRaySamePhase
<1>2. CASE AnyDeployed' = AnyDeployed
  BY <1>1, <1>2 DEF ContractStep, Contract!vars
<1>3. CASE AnyDeployed /\ AnyDeployed' = FALSE
  BY <1>1, <1>3 DEF ContractStep, Contract!Next, Contract!CleanUp
<1>4. CASE AnyDeployed' = TRUE /\ AnyDeployed = FALSE
  <2>1. Guards(ray) /\ ~ReportsRemoved
    BY <1>4
  <2>2. Phase \in {"guarded", "closing"}
    BY <2>1, ContractTypes
  <2>3. Contract!Deploy
    BY <1>1, <1>4, <2>1, <2>2 DEF Contract!Deploy, Contract!Guarding
  <2>4. QED
    BY <2>3 DEF ContractStep, Contract!Next
<1>5. QED
  BY <1>2, <1>3, <1>4, ContractTypes, ContractTypesNext

(* No deletion, whole or partial, and no third party deploys anything.      *)
LEMMA RemovalsOnly ==
    ASSUME TypeOK, ray' = ray,
           \A o \in Objects : Deployed(o)' => Deployed(o)
    PROVE  ContractStep
<1>1. AnyDeployed' => AnyDeployed
  BY DEF AnyDeployed
<1>2. QED
  BY <1>1, ObjectsOnly

(* What applies operands does so under the guard and before any report.     *)
LEMMA AppliesOnly ==
    ASSUME TypeOK, GuardInv, ReportInv, ray' = ray,
           pc \in {"notebook", "deploy"}, ~Removed
    PROVE  ContractStep
<1>1. Guards(ray)
  BY DEF GuardInv, ApplyPassShape, ApplyPCs, StillGuards
<1>2. ~ReportsRemoved
  BY ApplyingPassIsCurrent DEF ReportsRemoved
<1>3. QED
  BY <1>1, <1>2, ObjectsOnly

-----------------------------------------------------------------------------
(* The invariant behind the mapping of reports.                             *)

(* It depends on the CR and on the pass alone.                              *)
LEMMA ContractInvQuiet ==
    ASSUME ContractInv, ray' = ray,
           pc' = "status" /\ outcome' = "ok" => Guards(rr)'
    PROVE  ContractInv'
BY DEF ContractInv, ReportsRemoved, Guards

(* The status update: what a pass that ended well reports is guarded.       *)
LEMMA OkPassGuards ==
    ASSUME TypeOK, GuardInv, ContractInv, pc = "status", outcome = "ok"
    PROVE  Guards(ray)
BY DEF ContractInv, GuardInv, ApplyPassShape, ApplyPCs, StillGuards

(* No step leaves a report without the guard.                               *)
LEMMA ContractInvStep ==
    TypeOK /\ GuardInv /\ ReportInv /\ ContractInv /\ [Next]_vars => ContractInv'
<1> SUFFICES ASSUME TypeOK, GuardInv, ReportInv, ContractInv, [Next]_vars
             PROVE  ContractInv'
  OBVIOUS
<1>1. CASE StartPass \/ SkipPass \/ Prepare \/ notebookClusterRole \/ Deploy
           \/ DeletionCleanup
  <2>1. ray' = ray /\ (pc' = "status" => outcome' # "ok")
    BY <1>1 DEF StartPass, SkipPass, Prepare, notebookClusterRole, Deploy,
       DeletionCleanup, rayVars, passVars, GoTo, EndWith
  <2>2. QED
    BY <2>1, ContractInvQuiet
<1>2. CASE reconcileGC
  <2>1. ray' = ray /\ rr' = rr /\ Guards(rr)
    BY <1>2 DEF reconcileGC, rayVars, GuardInv, ApplyPassShape, ApplyPCs
  <2>2. Guards(rr)'
    BY <2>1 DEF Guards
  <2>3. QED
    BY <2>1, <2>2, ContractInvQuiet
<1>3. CASE AddFinalizer \/ waitForNamespace
  <2>1. pc' = "status" => outcome' # "ok"
    BY <1>3 DEF AddFinalizer, waitForNamespace, GoTo, EndWith
  <2>2. CASE ray' = ray
    BY <2>1, <2>2, ContractInvQuiet
  <2>3. CASE ray' # ray
    <3>1. snapCurrent /\ rr = ray
      BY <1>3, <2>3 DEF AddFinalizer, waitForNamespace, rayVars, GuardInv,
         CopiesAgree
    <3>2. /\ ray'.uid = ray.uid /\ ray'.gen = ray.gen /\ ray'.mgmt = ray.mgmt
          /\ ray'.projected = ray.projected /\ ray'.obs = ray.obs
          /\ ray'.prov = ray.prov /\ (ray.projected => ray'.fin)
      BY <1>3, <2>3, <3>1 DEF AddFinalizer, waitForNamespace, UpdateRay, rayVars,
         TypeOK, Rays
    <3>3. QED
      BY <2>1, <3>2 DEF ContractInv, ReportsRemoved, Guards
  <2>4. QED
    BY <2>2, <2>3
<1>4. CASE StatusUpdate
  <2>1. pc = "status" /\ pc' = "idle"
    BY <1>4 DEF StatusUpdate, Finish, GoTo
  <2>2. CASE ray' = ray
    BY <2>1, <2>2, ContractInvQuiet
  <2>3. CASE ray' = Report(ray)
    <3>1. /\ ray'.uid = ray.uid /\ ray'.fin = ray.fin
          /\ ray'.projected = ray.projected /\ ray'.prov = (outcome = "ok")
      BY <2>3 DEF Report, TypeOK, Rays
    <3>2. ReportsRemoved' => outcome = "ok"
      BY <3>1 DEF ReportsRemoved
    <3>3. QED
      BY <2>1, <3>1, <3>2, OkPassGuards DEF ContractInv, Guards
  <2>4. QED
    BY <1>4, <2>2, <2>3 DEF StatusUpdate
<1>5. CASE RemoveFinalizer
  <2>1. (ray' = ray \/ ray'.uid = 0) /\ pc' = "idle"
    BY <1>5 DEF RemoveFinalizer, Finish, GoTo, NoRay
  <2>2. QED
    BY <2>1, ContractInvQuiet DEF ContractInv, ReportsRemoved
<1>6. CASE Failure
  <2>1. ray' = ray /\ (pc' = "status" => outcome' # "ok")
    BY <1>6 DEF Failure, waitForNamespaceFails, RESTMappingFails, ActionFails,
       PassFails, Crash, rayVars, GoTo, EndWith, Finish
  <2>2. QED
    BY <2>1, ContractInvQuiet
<1>7. ASSUME NEW m, NEW p, UserCreate(m, p) \/ UserEdit(m, p)
      PROVE  ContractInv'
  <2>1. UNCHANGED <<pc, outcome, rr>>
    BY <1>7 DEF UserCreate, UserEdit
  <2>2. ray'.obs # ray'.gen
    <3>1. CASE UserCreate(m, p)
      BY <3>1 DEF UserCreate, StoreRay, NoRay
    <3>2. CASE UserEdit(m, p)
      <4>1. ray'.obs = ray.obs /\ ray'.gen = ray.gen + 1
        BY <3>2 DEF UserEdit, StoreRay, TypeOK, Rays
      <4>2. QED
        BY <4>1, Generations DEF ReportInv
    <3>3. QED
      BY <1>7, <3>1, <3>2
  <2>3. QED
    BY <2>1, <2>2 DEF ContractInv, ReportsRemoved, Guards
<1>8. CASE UserDelete
  <2>1. UNCHANGED <<pc, outcome, rr>>
    BY <1>8 DEF UserDelete
  <2>2. \/ ray'.uid = 0
        \/ /\ ray'.uid = ray.uid /\ ray'.gen = ray.gen /\ ray'.mgmt = ray.mgmt
           /\ ray'.projected = ray.projected /\ ray'.obs = ray.obs
           /\ ray'.prov = ray.prov /\ ray'.fin = ray.fin
    BY <1>8 DEF UserDelete, StoreRay, NoRay, TypeOK, Rays
  <2>3. QED
    BY <2>1, <2>2 DEF ContractInv, ReportsRemoved, Guards
<1>9. CASE CacheSync \/ PlatformConfigEvent \/ InstallCertManager \/ UNCHANGED vars
  <2>1. UNCHANGED <<ray, pc, outcome, rr>>
    BY <1>9 DEF CacheSync, PlatformConfigEvent, InstallCertManager, vars, rayVars,
       passVars
  <2>2. QED
    BY <2>1, ContractInvQuiet DEF ContractInv, Guards
<1>10. ASSUME NEW o, Observe(o) \/ KubeGC(o) \/ ThirdPartyDelete(o) \/ StripLabel(o)
       PROVE  ContractInv'
  <2>1. UNCHANGED <<ray, pc, outcome, rr>>
    BY <1>10 DEF Observe, KubeGC, ThirdPartyDelete, StripLabel, rayVars, passVars
  <2>2. QED
    BY <2>1, ContractInvQuiet DEF ContractInv, Guards
<1>11. QED
  BY <1>1, <1>2, <1>3, <1>4, <1>5, <1>6, <1>7, <1>8, <1>9, <1>10
     DEF Next, Controller, Environment

-----------------------------------------------------------------------------
(* Every step is one of the contract's.                                     *)

(* The steps that write the CR: the finalizer comes, ...                    *)
LEMMA FinalizerRefines ==
    ASSUME TypeOK, GuardInv, AddFinalizer \/ waitForNamespace PROVE ContractStep
<1>0. UNCHANGED <<objs, missed>>
  BY DEF AddFinalizer, waitForNamespace, objVars
<1>1. AnyDeployed' = AnyDeployed
  BY <1>0, SameObjsSameDeployed
<1>2. CASE ray' = ray
  BY <1>1, <1>2, SameRaySamePhase DEF ContractStep, Contract!vars
<1>3. CASE ray' # ray
  <2>1. snapCurrent /\ rr = ray /\ ray.uid # 0
    BY <1>3 DEF AddFinalizer, waitForNamespace, rayVars, GuardInv, CopiesAgree,
       ApplyPassShape, ApplyPCs
  <2>2. /\ ray'.uid = ray.uid /\ ray'.gen = ray.gen /\ ray'.mgmt = ray.mgmt
        /\ ray'.projected = ray.projected /\ ray'.obs = ray.obs
        /\ ray'.prov = ray.prov /\ ray'.del = ray.del
        /\ (~ray.projected \/ ~ray.fin)
    BY <1>3, <2>1 DEF AddFinalizer, waitForNamespace, UpdateRay, rayVars, TypeOK,
       Rays
  <2>3. ReportsRemoved' = ReportsRemoved
    BY <2>2 DEF ReportsRemoved
  <2>4. Phase = "open" /\ Phase' \in {"open", "guarded", "closing"}
    BY <2>1, <2>2 DEF Phase, Guards
  <2>5. QED
    BY <1>1, <2>3, <2>4 DEF ContractStep, Contract!vars, Contract!Next,
       Contract!Guard
<1>4. QED
  BY <1>2, <1>3

(* ... a pass reports, and may report Removed only when nothing is left, or *)
(* takes a report back, ...                                                 *)
LEMMA StatusUpdateRefines ==
    ASSUME TypeOK, GuardInv, ReportInv, ReportInv', ContractInv, StatusUpdate
    PROVE  ContractStep
<1>0. UNCHANGED <<objs, missed>> /\ pc = "status"
  BY DEF StatusUpdate, objVars
<1>1. AnyDeployed' = AnyDeployed
  BY <1>0, SameObjsSameDeployed
<1>2. CASE ray' = ray
  BY <1>1, <1>2, SameRaySamePhase DEF ContractStep, Contract!vars
<1>3. CASE ray' = Report(ray)
  <2>1. /\ ray'.uid = ray.uid /\ ray'.fin = ray.fin /\ ray'.del = ray.del
        /\ ray'.projected = ray.projected /\ ray'.prov = (outcome = "ok")
    BY <1>3 DEF Report, TypeOK, Rays
  <2>2. Phase' = Phase
    BY <2>1 DEF Phase, Guards
  <2>3. ASSUME ReportsRemoved' PROVE Guards(ray) /\ AnyDeployed = FALSE
    <3>1. outcome = "ok"
      BY <2>1, <2>3 DEF ReportsRemoved
    <3>2. Guards(ray)
      BY <1>0, <3>1, OkPassGuards
    <3>3. \A o \in Objects \ CRDs : objs[o].labelled => o \in missed
      BY <1>0, <2>3 DEF ReportInv, RemovedReportIsTrue, ReportsRemoved
    <3>4. ~AnyDeployed
      BY <3>3 DEF AnyDeployed, Deployed
    <3>5. QED
      BY <3>2, <3>4, ContractTypes
  <2>4. CASE ReportsRemoved' = TRUE
    <3>1. Phase \in {"guarded", "closing"} /\ AnyDeployed = FALSE
      BY <2>3, <2>4, ContractTypes
    <3>2. Contract!Report
      BY <1>1, <2>2, <2>4, <3>1 DEF Contract!Report, Contract!Guarding
    <3>3. QED
      BY <3>2 DEF ContractStep, Contract!Next
  <2>5. CASE ReportsRemoved' = FALSE /\ ReportsRemoved = TRUE
    BY <1>1, <2>2, <2>5 DEF ContractStep, Contract!Next, Contract!Retract
  <2>6. CASE ReportsRemoved' = FALSE /\ ReportsRemoved = FALSE
    BY <1>1, <2>2, <2>6 DEF ContractStep, Contract!vars
  <2>7. QED
    BY <2>4, <2>5, <2>6, ContractTypes, ContractTypesNext
<1>4. QED
  BY <1>2, <1>3 DEF StatusUpdate

(* ... the last finalizer goes, with nothing left, and with it the CR, ...  *)
LEMMA RemoveFinalizerRefines ==
    ASSUME TypeOK, GuardInv, ContractInv, RemoveFinalizer PROVE ContractStep
<1>0. UNCHANGED <<objs, missed>>
  BY DEF RemoveFinalizer, objVars
<1>1. AnyDeployed' = AnyDeployed
  BY <1>0, SameObjsSameDeployed
<1>2. CASE ~snapCurrent
  <2>1. ray' = ray
    BY <1>2 DEF RemoveFinalizer
  <2>2. QED
    BY <1>1, <2>1, SameRaySamePhase DEF ContractStep, Contract!vars
<1>3. CASE snapCurrent
  <2>1. ray'.uid = 0 /\ rr = ray /\ ray.uid # 0 /\ ray.del /\ pc = "delFinalizer"
    BY <1>3 DEF RemoveFinalizer, NoRay, GuardInv, CopiesAgree, DeletePassShape,
       DeletePCs
  <2>2. Phase' = "absent" /\ ReportsRemoved' = FALSE
    BY <2>1 DEF Phase, ReportsRemoved
  <2>3. CASE Guards(ray)
    <3>1. ~AnyDeployed
      BY <2>1, <2>3 DEF GuardInv, DeletePassShape, DeletePCs, Guards, AnyDeployed
    <3>2. Phase = "closing"
      BY <2>1, <2>3 DEF Phase
    <3>3. QED
      BY <1>1, <2>2, <3>1, <3>2 DEF ContractStep, Contract!Next, Contract!Release
  <2>4. CASE ~Guards(ray)
    <3>1. Phase = "open"
      BY <2>1, <2>4 DEF Phase
    <3>2. ReportsRemoved = FALSE
      BY <2>4, ContractTypes DEF ContractInv
    <3>3. QED
      BY <1>1, <2>2, <3>1, <3>2 DEF ContractStep, Contract!Next, Contract!Delete
  <2>5. QED
    BY <2>3, <2>4
<1>4. QED
  BY <1>2, <1>3

(* ... and users create, edit and delete it.                                *)
LEMMA UserRefines ==
    ASSUME TypeOK, GuardInv, ReportInv, ContractInv, NEW m, NEW p \in BOOLEAN,
           UserCreate(m, p) \/ UserEdit(m, p) \/ UserDelete
    PROVE  ContractStep
<1>0. UNCHANGED <<objs, missed>>
  BY DEF UserCreate, UserEdit, UserDelete, objVars
<1>1. AnyDeployed' = AnyDeployed
  BY <1>0, SameObjsSameDeployed
<1>2. CASE UserCreate(m, p)
  <2>1. /\ ray.uid = 0 /\ ray'.uid = lastUID + 1 /\ ~ray'.fin
        /\ ray'.obs = 0 /\ ray'.gen = 1
    BY <1>2 DEF UserCreate, StoreRay, NoRay
  <2>2. ray'.uid # 0
    BY <2>1, BoundsAssumption DEF TypeOK
  <2>3. Phase = "absent" /\ Phase' = "open"
    BY <2>1, <2>2 DEF Phase, Guards
  <2>4. ReportsRemoved' = ReportsRemoved
    BY <2>1 DEF ReportsRemoved
  <2>5. QED
    BY <1>1, <2>3, <2>4 DEF ContractStep, Contract!Next, Contract!Create
<1>3. CASE UserEdit(m, p)
  <2>1. /\ ray.uid # 0 /\ ray'.uid = ray.uid /\ ray'.gen = ray.gen + 1
        /\ ray'.obs = ray.obs /\ ray'.fin = ray.fin /\ ray'.del = ray.del
        /\ ray'.projected = p /\ (ray.projected => p)
    BY <1>3 DEF UserEdit, StoreRay, AdmitsNamespace, TypeOK, Rays
  <2>2. ray'.obs # ray'.gen
    BY <2>1, Generations DEF ReportInv
  <2>3. ReportsRemoved' = FALSE
    BY <2>2 DEF ReportsRemoved
  <2>4. CASE ReportsRemoved = TRUE
    <3>1. Guards(ray)
      BY <2>4 DEF ContractInv
    <3>2. Phase' = Phase
      BY <2>1, <3>1 DEF Phase, Guards
    <3>3. QED
      BY <1>1, <2>3, <2>4, <3>2 DEF ContractStep, Contract!Next, Contract!Retract
  <2>5. CASE ReportsRemoved = FALSE
    <3>1. \/ Phase' = Phase
          \/ Phase = "open" /\ Phase' \in {"guarded", "closing"}
      BY <2>1 DEF Phase, Guards
    <3>2. QED
      BY <1>1, <2>3, <2>5, <3>1 DEF ContractStep, Contract!Next, Contract!Guard,
         Contract!vars
  <2>6. QED
    BY <2>4, <2>5, ContractTypes
<1>4. CASE UserDelete /\ ray.fin
  <2>1. /\ ray.uid # 0 /\ ~ray.del /\ ray'.uid = ray.uid /\ ray'.gen = ray.gen
        /\ ray'.mgmt = ray.mgmt /\ ray'.projected = ray.projected
        /\ ray'.obs = ray.obs /\ ray'.prov = ray.prov /\ ray'.fin = ray.fin
        /\ ray'.del
    BY <1>4 DEF UserDelete, StoreRay, TypeOK, Rays
  <2>2. ReportsRemoved' = ReportsRemoved
    BY <2>1 DEF ReportsRemoved
  <2>3. \/ Phase = "open" /\ Phase' = "open"
        \/ Phase = "guarded" /\ Phase' = "closing"
    BY <2>1 DEF Phase, Guards
  <2>4. QED
    BY <1>1, <2>2, <2>3 DEF ContractStep, Contract!vars, Contract!Next,
       Contract!Delete
<1>5. CASE UserDelete /\ ~ray.fin
  <2>1. ray.uid # 0 /\ ray'.uid = 0
    BY <1>5 DEF UserDelete, StoreRay, NoRay
  <2>2. Phase = "open" /\ Phase' = "absent"
    BY <1>5, <2>1 DEF Phase, Guards
  <2>3. ReportsRemoved = FALSE /\ ReportsRemoved' = FALSE
    BY <1>5, <2>1, ContractTypes DEF ContractInv, Guards, ReportsRemoved
  <2>4. QED
    BY <1>1, <2>2, <2>3 DEF ContractStep, Contract!Next, Contract!Delete
<1>6. QED
  BY <1>2, <1>3, <1>4, <1>5

(* A third party's edit deploys nothing.                                    *)
LEMMA TamperDeploysNothing ==
    ASSUME TypeOK, NEW q \in Objects, ThirdPartyDelete(q) \/ StripLabel(q)
    PROVE  \A o \in Objects : Deployed(o)' => Deployed(o)
<1>1. ASSUME NEW o \in Objects PROVE Deployed(o)' => Deployed(o)
  <2>1. missed' = missed /\ (objs'[o] = objs[o] \/ ~objs'[o].labelled)
    BY DEF ThirdPartyDelete, StripLabel, TypeOK, Operands, NoObj
  <2>2. QED
    BY <2>1 DEF Deployed
<1>2. QED
  BY <1>1

(* Step by step, the lifecycle implements the contract.                     *)
LEMMA StepRefines ==
    ASSUME TypeOK, GuardInv, ReportInv, ReportInv', ContractInv, [Next]_vars
    PROVE  ContractStep
<1>1. CASE notebookClusterRole
  <2>1. ray' = ray /\ pc = "notebook"
    BY <1>1 DEF notebookClusterRole, rayVars
  <2>2. CASE Removed
    <3>1. \A o \in Objects : Deployed(o)' => Deployed(o)
      BY <1>1, <2>2, DeleteDeploysNothing, SameObjsDeployNothing
         DEF notebookClusterRole, deleteNotebookClusterRole, objVars
    <3>2. QED
      BY <2>1, <3>1, RemovalsOnly
  <2>3. CASE ~Removed
    BY <2>1, <2>3, AppliesOnly
  <2>4. QED
    BY <2>2, <2>3
<1>2. CASE pc = "deploy" /\ (Deploy \/ ActionFails)
  <2>1. ray' = ray
    BY <1>2 DEF Deploy, ActionFails, rayVars
  <2>2. CASE Removed
    <3>1. ApplyObjects({})
      BY <1>2, <2>2 DEF Deploy, ActionFails, Desired, Removed
    <3>2. missed' = missed /\ \A o \in Objects : objs'[o] = objs[o]
      BY <3>1 DEF ApplyObjects
    <3>3. QED
      BY <2>1, <3>2, RemovalsOnly DEF Deployed
  <2>3. CASE ~Removed
    BY <1>2, <2>1, <2>3, AppliesOnly
  <2>4. QED
    BY <2>2, <2>3
<1>3. CASE reconcileGC \/ DeletionCleanup \/ PassFails
           \/ (ActionFails /\ pc # "deploy")
  <2>1. ray' = ray
    BY <1>3 DEF reconcileGC, DeletionCleanup, PassFails, ActionFails, rayVars
  <2>2. \/ UNCHANGED <<objs, missed>> \/ \E S : DeleteObjects(S)
        \/ deleteOwnedOperands \/ managedGC \/ removedGC
    BY <1>3 DEF reconcileGC, DeletionCleanup, PassFails, ActionFails,
       deleteNotebookClusterRole, objVars
  <2>3. \A o \in Objects : Deployed(o)' => Deployed(o)
    BY <2>2, DeleteDeploysNothing, CollectionsDeployNothing, SameObjsDeployNothing
  <2>4. QED
    BY <2>1, <2>3, RemovalsOnly
<1>4. CASE StartPass \/ SkipPass \/ Prepare \/ waitForNamespaceFails
           \/ RESTMappingFails \/ Crash \/ CacheSync \/ PlatformConfigEvent
           \/ InstallCertManager \/ UNCHANGED vars
  <2>1. ray' = ray /\ UNCHANGED <<objs, missed>>
    BY <1>4 DEF StartPass, SkipPass, Prepare, waitForNamespaceFails,
       RESTMappingFails, Crash, CacheSync, PlatformConfigEvent,
       InstallCertManager, vars, rayVars, objVars
  <2>2. QED
    BY <2>1, SameObjsDeployNothing, RemovalsOnly
<1>5. ASSUME NEW o \in Objects,
             Observe(o) \/ KubeGC(o) \/ ThirdPartyDelete(o) \/ StripLabel(o)
      PROVE  ContractStep
  <2>1. ray' = ray
    BY <1>5 DEF Observe, KubeGC, ThirdPartyDelete, StripLabel, rayVars
  <2>2. \A q \in Objects : Deployed(q)' => Deployed(q)
    BY <1>5, DeleteDeploysNothing, SameObjsDeployNothing, TamperDeploysNothing
       DEF Observe, KubeGC
  <2>3. QED
    BY <2>1, <2>2, RemovalsOnly
<1>6. Deploy => pc = "deploy"
  BY DEF Deploy
<1>7. CASE Controller
  BY <1>1, <1>2, <1>3, <1>4, <1>6, <1>7, FinalizerRefines, StatusUpdateRefines,
     RemoveFinalizerRefines DEF Controller
<1>8. CASE Failure
  BY <1>2, <1>3, <1>4, <1>8 DEF Failure
<1>9. CASE Environment
  BY <1>4, <1>5, <1>9, UserRefines DEF Environment
<1>10. QED
  BY <1>4, <1>5, <1>7, <1>8, <1>9 DEF Next

(* What the platform may rely on without caches, passes and retries: the    *)
(* module deploys only under a CR that guards its operands and has not      *)
(* reported them gone, a guarded CR goes only after them, and a report of   *)
(* Removed is made only when nothing is left that a collection has listed.  *)
(* The whole pipeline, with its lagging copies, conflicts, failures and     *)
(* crashes, takes only such steps.                                          *)
THEOREM ContractHolds == Spec => ContractSafety
<1>1. Init => Contract!Init
  <2>1. ASSUME Init PROVE Phase = "absent" /\ ReportsRemoved = FALSE
    BY <2>1 DEF Init, NoRay, Phase, ReportsRemoved
  <2>2. ASSUME Init PROVE ~AnyDeployed
    <3>1. \A o \in Objects : objs[o].labelled => o \in InTree /\ objs[o].gen = 0
      BY <2>2 DEF Init, NoObj, InTreeObj
    <3>2. QED
      BY <3>1, ObjectsAssumption DEF AnyDeployed, Deployed
  <2>3. QED
    BY <2>1, <2>2, ContractTypes DEF Contract!Init
<1>2. Init => ContractInv
  BY DEF Init, ContractInv, NoRay, ReportsRemoved
<1>3. Spec => []ContractInv
  BY <1>2, ContractInvStep, ReportInvAlways, PTL DEF Spec
<1>4. TypeOK /\ GuardInv /\ ReportInv /\ ReportInv' /\ ContractInv /\ [Next]_vars
        => [Contract!Next]_(Contract!vars)
  BY StepRefines DEF ContractStep
<1>5. QED
  BY <1>1, <1>3, <1>4, ReportInvAlways, PTL DEF Spec, ContractSafety, Contract!Spec
=============================================================================
