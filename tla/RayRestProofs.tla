--------------------------- MODULE RayRestProofs ----------------------------
(***************************************************************************)
(* No event is lost: when the controller rests, the operands are what the  *)
(* CR asks for, for every set of operands and every bound.                 *)
(***************************************************************************)
EXTENDS RayReportProofs

(* The quiescence properties rest on what is not in the workqueue: a pass   *)
(* nothing has disturbed works on the CR as the informer last delivered it, *)
(* and an operand that changed behind its back is still unseen.             *)

SameRay(r, s) == /\ r.uid = s.uid /\ r.gen = s.gen
                 /\ r.mgmt = s.mgmt /\ r.projected = s.projected

OwnedGone(r) == \A o \in Listed : objs[o].owner = r.uid => o \in unseen

(* An owned operand a listing left out has an event on its way.             *)
LabelledUnseen == \A o \in Owning : objs[o].labelled => o \in unseen

InPlace(o, r) ==
    IF o \in Owning
    THEN o \in unseen \/ objs[o] = [live |-> TRUE, labelled |-> TRUE,
                                    owner |-> r.uid, gen |-> r.gen]
    ELSE objs[o].live \/ o \in lost

AllInPlace(r) ==
    \A o \in Desired("Managed", hasSCCs) \cup {NotebookRole} : InPlace(o, r)

Done(r) ==
    IF r.mgmt = "Removed"
    THEN OnlyMissedLeft /\ LabelledUnseen /\ OwnedGone(r)
    ELSE AllInPlace(r)

Progress ==
    /\ pc = "deploy" /\ ~Removed => InPlace(NotebookRole, rr)
    /\ pc = "gc" => IF Removed THEN OwnedGone(rr) ELSE AllInPlace(rr)
    /\ pc = "status" /\ outcome = "ok" => Done(rr)

RestInv ==
    /\ pc = "status" /\ outcome = "held" => ~rr.projected
    /\ ~queued =>
          /\ pc # "idle" => SameRay(rr, cache)
          /\ cache.uid # 0 /\ ~cache.del /\ cache.projected =>
                IF pc = "idle" THEN Done(cache) ELSE Progress

-----------------------------------------------------------------------------
(* What the model makes of the two special kinds of operand.                *)
LEMMA OwningFacts ==
    /\ NotebookRole \notin Owning /\ NotebookRole \notin Rendered
    /\ \A o \in Owning : o \in Objects /\ o \notin CRDs
    /\ \A s : Desired("Managed", s) \subseteq Rendered
BY ObjectsAssumption DEF Objects, Desired

(* Copies of one spec ask for the same operands.                            *)
LEMMA DoneSame ==
    ASSUME NEW r, NEW s, SameRay(r, s), Done(r) PROVE Done(s)
BY DEF SameRay, Done, OwnedGone, AllInPlace, InPlace

-----------------------------------------------------------------------------
(* What happens to the operands behind the controller's back stays unseen   *)
(* until an event reports it, or is lost.                                   *)
LEMMA InterferenceIsUnseen ==
    ASSUME TypeOK, CollectInv, NEW q \in Objects,
           KubeGC(q) \/ ThirdPartyDelete(q) \/ StripLabel(q)
    PROVE  /\ unseen \subseteq unseen' /\ lost \subseteq lost'
           /\ OnlyMissedLeft => OnlyMissedLeft'
           /\ LabelledUnseen => LabelledUnseen'
           /\ \A o \in Objects : objs'[o].owner \in {0, objs[o].owner}
           /\ \A o \in Objects :
                 objs'[o] = objs[o] \/ o \in unseen'
           /\ \A o \in Objects \ Owning :
                 objs[o].live => objs'[o].live \/ o \in lost'
<1>0. ASSUME unseen \subseteq unseen',
             \A o \in Objects : objs'[o] = objs[o] \/ o \in unseen'
      PROVE  LabelledUnseen => LabelledUnseen'
  BY <1>0, OwningFacts DEF LabelledUnseen
<1>1. CASE KubeGC(q)
  <2>1. /\ objs' = [o \in Objects |-> IF o = q THEN NoObj ELSE objs[o]]
        /\ unseen' = unseen \cup {o \in {q} : objs[o] # NoObj} /\ lost' = lost
    BY <1>1 DEF KubeGC, DeleteObjects, EraseObjects
  <2>2. objs[q].owner # 0 /\ q \in Owning
    BY <1>1 DEF KubeGC, CollectInv
  <2>3. q \in unseen'
    BY <2>1, <2>2 DEF NoObj
  <2>4. OnlyMissedLeft => OnlyMissedLeft'
    BY <1>1, DeleteLabelsNothing DEF KubeGC
  <2>5. QED
    BY <1>0, <2>1, <2>2, <2>3, <2>4 DEF NoObj
<1>2. CASE ThirdPartyDelete(q)
  <2>1. /\ objs' = [objs EXCEPT ![q] = NoObj] /\ unseen' = unseen \cup {q}
        /\ lost' = IF q \in Owning THEN lost ELSE lost \cup {q}
    BY <1>2 DEF ThirdPartyDelete
  <2>2. OnlyMissedLeft => OnlyMissedLeft'
    BY <1>2, TamperLabelsNothing
  <2>3. \A o \in Objects : objs'[o] = IF o = q THEN NoObj ELSE objs[o]
    BY <2>1 DEF TypeOK
  <2>4. QED
    BY <1>0, <2>1, <2>2, <2>3 DEF NoObj
<1>3. CASE StripLabel(q)
  <2>1. /\ objs' = [objs EXCEPT ![q].labelled = FALSE]
        /\ unseen' = unseen \cup {q} /\ lost' = lost
    BY <1>3 DEF StripLabel
  <2>2. OnlyMissedLeft => OnlyMissedLeft'
    BY <1>3, TamperLabelsNothing
  <2>3. \A o \in Objects : /\ o # q => objs'[o] = objs[o]
                           /\ objs'[o].owner = objs[o].owner
                           /\ objs'[o].live = objs[o].live
    BY <2>1 DEF TypeOK, Operands
  <2>4. QED
    BY <1>0, <2>1, <2>2, <2>3
<1>4. QED
  BY <1>1, <1>2, <1>3

(* With the queue filled, RestInv asks only how a held pass was held.       *)
LEMMA RestQueued ==
    ASSUME queued', pc' = "status" /\ outcome' = "held" => ~rr'.projected
    PROVE  RestInv'
BY DEF RestInv

(* Interference does not undo what the controller has done, or will know.   *)
LEMMA RestInterference ==
    ASSUME TypeOK, GuardInv, CollectInv, RestInv,
           UNCHANGED <<cache, queued, pc, rr, outcome, hasSCCs>>,
           NEW q \in Objects, KubeGC(q) \/ ThirdPartyDelete(q) \/ StripLabel(q)
    PROVE  RestInv'
<1>1. ASSUME NEW r \in Rays, NEW o \in Objects, InPlace(o, r)
      PROVE  IF o \in Owning
             THEN o \in unseen' \/ objs'[o] = [live |-> TRUE, labelled |-> TRUE,
                                               owner |-> r.uid, gen |-> r.gen]
             ELSE objs'[o].live \/ o \in lost'
  BY <1>1, InterferenceIsUnseen DEF InPlace
<1>2. /\ OnlyMissedLeft => OnlyMissedLeft'
      /\ LabelledUnseen => LabelledUnseen'
  BY InterferenceIsUnseen
<1>3. ASSUME NEW u \in 0..MaxUID, u # 0, NEW o \in Listed,
             objs[o].owner = u => o \in unseen
      PROVE  objs'[o].owner = u => o \in unseen'
  BY <1>3, InterferenceIsUnseen, ObjectFacts
<1>4. cache \in Rays /\ rr \in Rays /\ cache.uid \in 0..MaxUID /\ rr.uid \in 0..MaxUID
  BY DEF TypeOK, Rays
<1>5. /\ cache.uid # 0 /\ OwnedGone(cache) => OwnedGone(cache)'
      /\ rr.uid # 0 /\ OwnedGone(rr) => OwnedGone(rr)'
  BY <1>3, <1>4 DEF OwnedGone
<1>6. \A s : Desired("Managed", s) \cup {NotebookRole} \subseteq Objects
  BY OwningFacts, ObjectFacts
<1>7. /\ AllInPlace(cache) => AllInPlace(cache)'
      /\ AllInPlace(rr) => AllInPlace(rr)'
      /\ InPlace(NotebookRole, rr) => InPlace(NotebookRole, rr)'
  BY <1>1, <1>4, <1>6 DEF AllInPlace, InPlace, Desired
<1>8. cache.uid # 0 /\ Done(cache) => Done(cache)'
  BY <1>2, <1>5, <1>7 DEF Done
<1>9. pc # "idle" /\ Progress => Progress'
  BY <1>2, <1>5, <1>7, PassHasCR DEF Progress, Done, Removed
<1>10. QED
  BY <1>8, <1>9 DEF RestInv, SameRay

(* A step that touches neither the operands nor what a pass works on.       *)
LEMMA RestQuiet ==
    ASSUME RestInv, UNCHANGED <<cache, pc, rr, outcome, hasSCCs, objVars>>,
           queued => queued'
    PROVE  RestInv'
BY DEF RestInv, Progress, Done, AllInPlace, InPlace, OwnedGone, OnlyMissedLeft,
       LabelledUnseen, SameRay, Removed, objVars

(* An operand the informer reports without waking the controller is none    *)
(* the controller owns.                                                     *)
LEMMA RestObserve ==
    ASSUME TypeOK, GuardInv, CollectInv, RestInv, NEW q \in Objects, Observe(q)
    PROVE  RestInv'
<1>0. /\ UNCHANGED <<cache, pc, rr, outcome, hasSCCs, objs, lost, missed>>
      /\ unseen' = unseen \ {q}
  BY DEF Observe, rayVars, passVars
<1>1. CASE queued'
  BY <1>0, <1>1, RestQueued DEF RestInv
<1>2. CASE ~queued'
  <2>1. ~queued /\ q \notin Owning
    BY <1>2 DEF Observe
  <2>2. \A o \in Owning : o \in unseen => o \in unseen'
    BY <1>0, <2>1
  <2>3. ASSUME NEW o \in Listed, objs[o].owner # 0, o \in unseen
        PROVE  o \in unseen'
    BY <2>2, <2>3, ObjectFacts DEF CollectInv
  <2>4. /\ cache.uid # 0 /\ OwnedGone(cache) => OwnedGone(cache)'
        /\ rr.uid # 0 /\ OwnedGone(rr) => OwnedGone(rr)'
    BY <1>0, <2>3 DEF OwnedGone
  <2>5. /\ AllInPlace(cache) => AllInPlace(cache)'
        /\ AllInPlace(rr) => AllInPlace(rr)'
        /\ InPlace(NotebookRole, rr) => InPlace(NotebookRole, rr)'
    BY <1>0, <2>2 DEF AllInPlace, InPlace, Desired
  <2>6. /\ OnlyMissedLeft => OnlyMissedLeft'
        /\ LabelledUnseen => LabelledUnseen'
    BY <1>0, <2>2 DEF OnlyMissedLeft, LabelledUnseen
  <2>7. cache.uid # 0 /\ Done(cache) => Done(cache)'
    BY <1>0, <2>4, <2>5, <2>6 DEF Done
  <2>8. pc # "idle" /\ Progress => Progress'
    BY <1>0, <2>4, <2>5, <2>6, PassHasCR DEF Progress, Done, Removed
  <2>9. QED
    BY <1>0, <2>1, <2>7, <2>8 DEF RestInv, SameRay
<1>3. QED
  BY <1>1, <1>2

-----------------------------------------------------------------------------
(* The steps of a pass bring the operands closer to what the CR asks for.   *)

(* An undisturbed delete pass works on a CR known to be terminating.        *)
LEMMA DeletePassKnown ==
    ASSUME GuardInv, RestInv, pc \in DeletePCs, ~queued PROVE cache.del
BY DEF GuardInv, DeletePassShape, RestInv, SameRay, DeletePCs

(* A step within a pass, its snapshot's spec kept, to a place where nothing *)
(* is claimed about the operands yet.                                       *)
LEMMA RestWithinPass ==
    ASSUME RestInv, UNCHANGED <<cache, queued>>, pc # "idle", SameRay(rr, rr'),
           pc' \notin {"idle", "deploy", "gc"},
           pc' = "status" => \/ outcome' = "error"
                             \/ outcome' = "held" /\ ~rr'.projected
    PROVE  RestInv'
BY DEF RestInv, Progress, SameRay

(* After deploy every operand is in place for the CR the pass works on.     *)
LEMMA RestDeploy ==
    ASSUME TypeOK, GuardInv, CollectInv, RestInv, Deploy PROVE RestInv'
<1>0. /\ UNCHANGED <<cache, queued, rr, hasSCCs>> /\ pc = "deploy"
      /\ pc' = IF Removed THEN "gcOwned" ELSE "gc"
  BY DEF Deploy, GoTo, rayVars
<1>1. CASE Removed
  BY <1>0, <1>1, RestWithinPass DEF SameRay
<1>2. CASE ~Removed
  <2>1. ApplyObjects(Desired("Managed", hasSCCs))
    BY <1>2 DEF Deploy, Desired, Removed
  <2>2. ASSUME NEW o \in Desired("Managed", hasSCCs) PROVE InPlace(o, rr)'
    <3>1. o \in Objects /\ objs'[o] = AppliedForm(o)
      BY <2>1, OwningFacts, ObjectFacts DEF ApplyObjects
    <3>2. o \in Owning => AppliedForm(o) = [live |-> TRUE, labelled |-> TRUE,
                                            owner |-> rr.uid, gen |-> rr.gen]
      BY OwningFacts DEF AppliedForm
    <3>3. AppliedForm(o).live
      BY DEF AppliedForm
    <3>4. QED
      BY <1>0, <3>1, <3>2, <3>3 DEF InPlace
  <2>3. InPlace(NotebookRole, rr) => InPlace(NotebookRole, rr)'
    BY <2>1, OwningFacts, ObjectFacts DEF ApplyObjects, InPlace
  <2>4. InPlace(NotebookRole, rr) => AllInPlace(rr)'
    BY <1>0, <2>2, <2>3 DEF AllInPlace, InPlace, Desired
  <2>5. Progress => Progress'
    BY <1>0, <1>2, <2>4 DEF Progress, Removed
  <2>6. QED
    BY <1>0, <1>2, <2>5 DEF RestInv, SameRay
<1>3. QED
  BY <1>1, <1>2

(* The collections of a pass finish the job, and a Managed one leaves alone *)
(* what deploy has put in place.                                            *)
LEMMA RestCollect ==
    ASSUME TypeOK, GuardInv, CollectInv, RestInv, reconcileGC PROVE RestInv'
<1>0. /\ UNCHANGED <<cache, queued, rr, hasSCCs>> /\ rr.uid # 0
  BY PassHasCR DEF reconcileGC, rayVars
<1>1. CASE pc = "gcOwned"
  <2>1. PICK S \in Listings(OwnedTargets) : EraseObjects(S)
    BY <1>1 DEF reconcileGC, deleteOwnedOperands, DeleteObjects
  <2>2. pc' = "gc" /\ Removed
    BY <1>1 DEF reconcileGC, GoTo, CollectInv
  <2>3. OwnedGone(rr)'
    <3> SUFFICES ASSUME NEW o \in Listed, objs'[o].owner = rr.uid
                 PROVE  o \in unseen'
      BY <1>0 DEF OwnedGone
    <3>1. o \in Objects /\ o \notin S
      BY <1>0, <2>1, ObjectFacts DEF EraseObjects, NoObj
    <3>2. o \in OwnedTargets
      BY <2>1, <3>1 DEF EraseObjects, OwnedTargets, ListedKinds, ownedByUID
    <3>3. QED
      BY <2>1, <3>1, <3>2 DEF EraseObjects, Listings
  <2>4. QED
    BY <1>0, <1>1, <2>2, <2>3 DEF RestInv, Progress, SameRay, Removed
<1>2. CASE pc = "gc"
  <2>1. pc' = "status" /\ outcome' = "ok"
    BY <1>2 DEF reconcileGC, GoTo, EndWith
  <2>2. CASE Removed
    <3>0. PICK S \in Listings(RemovedGCTargets) : EraseObjects(S)
      BY <1>2, <2>2 DEF reconcileGC, removedGC
    <3>1. OnlyMissedLeft'
      BY <1>2, <2>2, RemovedGCLeavesMissed DEF reconcileGC, OnlyMissedLeft
    <3>2. OwnedGone(rr) => OwnedGone(rr)'
      BY <1>0, <3>0, ObjectFacts DEF EraseObjects, NoObj, OwnedGone
    <3>3. LabelledUnseen'
      <4> SUFFICES ASSUME NEW o \in Owning, objs'[o].labelled PROVE o \in unseen'
        BY DEF LabelledUnseen
      <4>1. o \in Objects \ CRDs /\ o \notin S /\ objs[o].labelled
        BY <3>0, OwningFacts DEF EraseObjects, NoObj
      <4>2. o \in RemovedGCTargets
        BY <4>1 DEF RemovedGCTargets
      <4>3. QED
        BY <3>0, <4>1, <4>2 DEF EraseObjects, Listings
    <3>4. Progress => Progress'
      BY <1>0, <1>2, <2>1, <2>2, <3>1, <3>2, <3>3 DEF Progress, Done, Removed
    <3>5. QED
      BY <1>0, <1>2, <2>1, <3>4 DEF RestInv, SameRay
  <2>3. CASE ~Removed
    <3>0. PICK S \in SUBSET ManagedGCTargets : EraseObjects(S)
      BY <1>2, <2>3 DEF reconcileGC, managedGC, Listings, DeleteObjects
    <3>1. ASSUME NEW o \in Objects, InPlace(o, rr) PROVE InPlace(o, rr)'
      <4>1. o \in Owning /\ o \in unseen => InPlace(o, rr)'
        BY <3>0 DEF EraseObjects, InPlace
      <4>2. ~(o \in Owning /\ o \in unseen) => o \notin S
        BY <1>0, <3>0, <3>1 DEF InPlace, ManagedGCTargets, CollectInv
      <4>3. o \notin S => InPlace(o, rr)'
        BY <1>0, <3>0, <3>1 DEF EraseObjects, InPlace
      <4>4. QED
        BY <4>1, <4>2, <4>3
    <3>2. \A s : Desired("Managed", s) \cup {NotebookRole} \subseteq Objects
      BY OwningFacts, ObjectFacts
    <3>3. AllInPlace(rr) => AllInPlace(rr)'
      BY <1>0, <3>1, <3>2 DEF AllInPlace, InPlace, Desired
    <3>4. Progress => Progress'
      BY <1>0, <1>2, <2>1, <2>3, <3>3 DEF Progress, Done, Removed
    <3>5. QED
      BY <1>0, <1>2, <2>1, <3>4 DEF RestInv, SameRay
  <2>4. QED
    BY <2>2, <2>3
<1>3. QED
  BY <1>1, <1>2 DEF reconcileGC

(* A pass that ends without a retry has done what the CR asks for.          *)
LEMMA RestStatusUpdate ==
    ASSUME TypeOK, GuardInv, CollectInv, RestInv, StatusUpdate PROVE RestInv'
<1>0. /\ UNCHANGED <<cache, hasSCCs, objVars>> /\ pc = "status" /\ pc' = "idle"
  BY DEF StatusUpdate, Finish, GoTo
<1>1. CASE queued'
  BY <1>0, <1>1, RestQueued
<1>2. CASE ~queued'
  <2>1. ~queued /\ outcome # "error"
    BY <1>2 DEF StatusUpdate, Finish
  <2>2. SameRay(rr, cache)
    BY <1>0, <2>1 DEF RestInv
  <2>3. outcome = "held" => ~cache.projected
    BY <1>0, <2>2 DEF RestInv, SameRay
  <2>4. cache.uid # 0 /\ ~cache.del /\ cache.projected => Done(cache)
    BY <1>0, <2>1, <2>2, <2>3, DoneSame DEF RestInv, Progress, TypeOK
  <2>5. Done(cache) => Done(cache)'
    BY <1>0 DEF Done, AllInPlace, InPlace, OwnedGone, OnlyMissedLeft,
       LabelledUnseen, objVars
  <2>6. QED
    BY <1>0, <2>4, <2>5 DEF RestInv
<1>3. QED
  BY <1>1, <1>2 DEF TypeOK

(* All the steps of a pass.                                                 *)
LEMMA RestController ==
    TypeOK /\ GuardInv /\ CollectInv /\ RestInv /\ Controller => RestInv'
<1> SUFFICES ASSUME TypeOK, GuardInv, CollectInv, RestInv, Controller
             PROVE  RestInv'
  OBVIOUS
<1>1. CASE StartPass
  <2>1. /\ cache' = cache /\ rr' = cache
        /\ pc' \in {"finalizer", "delNotebook"}
    BY <1>1 DEF StartPass, rayVars, GoTo
  <2>2. QED
    BY <2>1 DEF RestInv, SameRay, Progress
<1>2. CASE SkipPass
  BY <1>2 DEF SkipPass, rayVars, passVars, RestInv
<1>3. CASE AddFinalizer \/ waitForNamespace
  <2>1. /\ UNCHANGED <<cache, queued>> /\ pc \in {"finalizer", "preApply"}
        /\ pc' \in {"preApply", "prepare", "status"}
    BY <1>3 DEF AddFinalizer, waitForNamespace, rayVars, GoTo, EndWith
  <2>2. SameRay(rr, rr') /\ rr'.projected = rr.projected
    BY <1>3 DEF AddFinalizer, waitForNamespace, UpdateRay, SameRay, TypeOK, Rays
  <2>3. pc' = "status" => \/ outcome' = "error"
                          \/ outcome' = "held" /\ ~rr'.projected
    BY <1>3, <2>2 DEF AddFinalizer, waitForNamespace, GoTo, EndWith
  <2>4. QED
    BY <2>1, <2>2, <2>3, RestWithinPass
<1>4. CASE Prepare
  BY <1>4, RestWithinPass DEF Prepare, rayVars, GoTo, EndWith, SameRay
<1>5. CASE notebookClusterRole
  <2>1. /\ UNCHANGED <<cache, queued, rr>> /\ pc = "notebook"
        /\ pc' \in {"deploy", "status"}
    BY <1>5 DEF notebookClusterRole, rayVars, GoTo, EndWith
  <2>2. CASE pc' = "status"
    BY <1>5, <2>1, <2>2, RestWithinPass DEF notebookClusterRole, GoTo, EndWith,
       SameRay
  <2>3. CASE pc' = "deploy"
    <3>1. ~Removed => objs'[NotebookRole].live \/ NotebookRole \in lost'
      BY <1>5, <2>3, ObjectFacts DEF notebookClusterRole, NotebookForm, EndWith,
         GoTo, TypeOK
    <3>2. ~Removed => InPlace(NotebookRole, rr)'
      BY <3>1, OwningFacts DEF InPlace
    <3>3. Progress'
      BY <2>1, <2>3, <3>2 DEF Progress, Removed
    <3>4. QED
      BY <2>1, <2>3, <3>3 DEF RestInv, SameRay
  <2>4. QED
    BY <2>1, <2>2, <2>3
<1>6. CASE Deploy
  BY <1>6, RestDeploy
<1>7. CASE reconcileGC
  BY <1>7, RestCollect
<1>8. CASE StatusUpdate
  BY <1>8, RestStatusUpdate
<1>9. CASE DeletionCleanup
  <2>1. /\ UNCHANGED <<cache, queued, rr>> /\ pc # "idle"
        /\ pc' \in {"delFinalizer", "delGC", "delOwned"}
    BY <1>9 DEF DeletionCleanup, rayVars, GoTo
  <2>2. QED
    BY <2>1, RestWithinPass DEF SameRay
<1>10. CASE RemoveFinalizer
  <2>1. /\ cache' = cache /\ pc \in DeletePCs /\ pc' = "idle"
        /\ (~queued' => ~queued)
    BY <1>10 DEF RemoveFinalizer, Finish, GoTo, DeletePCs
  <2>2. QED
    BY <2>1, DeletePassKnown DEF RestInv
<1>11. QED
  BY <1>1, <1>2, <1>3, <1>4, <1>5, <1>6, <1>7, <1>8, <1>9, <1>10 DEF Controller

(* A failure ends in a retry, and a crash in a fresh start.                 *)
LEMMA RestFailure ==
    TypeOK /\ GuardInv /\ CollectInv /\ RestInv /\ Failure => RestInv'
<1> SUFFICES ASSUME TypeOK, GuardInv, CollectInv, RestInv, Failure
             PROVE  RestInv'
  OBVIOUS
<1>1. CASE waitForNamespaceFails \/ RESTMappingFails \/ ActionFails
  <2>1. /\ UNCHANGED <<cache, queued, rr>> /\ pc # "idle"
        /\ pc' \in {"notebook", "status"}
        /\ pc' = "status" => \/ outcome' = "error"
                             \/ outcome' = "held" /\ ~rr'.projected
    BY <1>1 DEF waitForNamespaceFails, RESTMappingFails, ActionFails, rayVars,
       GoTo, EndWith
  <2>2. QED
    BY <2>1, RestWithinPass DEF SameRay
<1>2. CASE PassFails
  <2>1. queued' /\ pc' = "idle"
    BY <1>2 DEF PassFails, Finish, GoTo
  <2>2. QED
    BY <2>1, RestQueued
<1>3. CASE Crash
  <2>1. /\ cache' = ray /\ pc' = "idle" /\ (~queued' => ray.uid = 0)
    BY <1>3 DEF Crash, GoTo
  <2>2. QED
    BY <2>1 DEF RestInv
<1>4. QED
  BY <1>1, <1>2, <1>3 DEF Failure

(* A version of the CR that the predicates drop asks for nothing new.       *)
LEMMA RestCacheSync ==
    ASSUME TypeOK, GuardInv, ReportInv, RestInv, CacheSync PROVE RestInv'
<1>0. /\ cache' = ray /\ UNCHANGED <<pc, rr, outcome, hasSCCs, objVars>>
  BY DEF CacheSync, passVars
<1>1. CASE queued'
  BY <1>0, <1>1, RestQueued DEF RestInv
<1>2. CASE ~queued'
  <2>1. ~queued /\ ~RayEventPasses(cache, ray)
    BY <1>2 DEF CacheSync
  <2>2. cache.uid = ray.uid /\ cache.gen = ray.gen
    BY <2>1 DEF RayEventPasses, GenerationChanged
  <2>3. cache.uid # 0 => SameRay(cache, ray)
    BY <2>2 DEF ReportInv, SameSpec, SameRay
  <2>4. cache.uid # 0 /\ ~ray.del => ~cache.del
    BY <2>2 DEF GuardInv, StillTerminating
  <2>5. pc # "idle" => SameRay(rr, ray)
    BY <2>1, <2>3, PassHasCR DEF RestInv, SameRay
  <2>6. cache.uid # 0 /\ Done(cache) => Done(ray)
    BY <2>3, DoneSame
  <2>7. Done(ray) => Done(cache)'
    BY <1>0 DEF Done, AllInPlace, InPlace, OwnedGone, OnlyMissedLeft,
       LabelledUnseen, objVars
  <2>8. Progress => Progress'
    BY <1>0 DEF Progress, Done, AllInPlace, InPlace, OwnedGone, OnlyMissedLeft,
       LabelledUnseen, objVars, Removed
  <2>9. /\ ray.uid # 0 /\ ~ray.del /\ ray.projected
        => cache.uid # 0 /\ ~cache.del /\ cache.projected
    BY <2>2, <2>3, <2>4 DEF SameRay
  <2>10. (SameRay(rr, cache))' <=> SameRay(rr, ray)
    BY <1>0 DEF SameRay
  <2>11. QED
    BY <1>0, <2>1, <2>5, <2>6, <2>7, <2>8, <2>9, <2>10 DEF RestInv
<1>3. QED
  BY <1>1, <1>2 DEF TypeOK

(* RestInv with the invariants it leans on is inductive.                    *)
LEMMA RestInvStep ==
    TypeOK /\ GuardInv /\ CollectInv /\ ReportInv /\ RestInv /\ [Next]_vars
        => RestInv'
<1> SUFFICES ASSUME TypeOK, GuardInv, CollectInv, ReportInv, RestInv, [Next]_vars
             PROVE  RestInv'
  OBVIOUS
<1>1. ASSUME NEW m, NEW p, UserCreate(m, p) \/ UserEdit(m, p) \/ UserDelete
      PROVE  RestInv'
  <2>1. UNCHANGED <<cache, queued, pc, rr, outcome, hasSCCs, objVars>>
    BY <1>1 DEF UserCreate, UserEdit, UserDelete, StoreRay
  <2>2. QED
    BY <2>1, RestQuiet
<1>2. CASE PlatformConfigEvent \/ InstallCertManager \/ UNCHANGED vars
  <2>1. /\ UNCHANGED <<cache, pc, rr, outcome, hasSCCs, objVars>>
        /\ queued => queued'
    BY <1>2 DEF PlatformConfigEvent, InstallCertManager, vars, rayVars, passVars,
       objVars
  <2>2. QED
    BY <2>1, RestQuiet
<1>3. ASSUME NEW q \in Objects, KubeGC(q) \/ ThirdPartyDelete(q) \/ StripLabel(q)
      PROVE  RestInv'
  <2>1. UNCHANGED <<cache, queued, pc, rr, outcome, hasSCCs>>
    BY <1>3 DEF KubeGC, ThirdPartyDelete, StripLabel, rayVars, passVars
  <2>2. QED
    BY <1>3, <2>1, RestInterference
<1>4. ASSUME NEW q \in Objects, Observe(q) PROVE RestInv'
  BY <1>4, RestObserve
<1>5. CASE CacheSync
  BY <1>5, RestCacheSync
<1>6. QED
  BY <1>1, <1>2, <1>3, <1>4, <1>5, RestController, RestFailure
     DEF Next, Environment

(* It holds in every behaviour.                                             *)
LEMMA RestInvAlways == Spec => [](TypeOK /\ GuardInv /\ RestInv)
<1>1. Init => RestInv
  BY DEF Init, RestInv, NoRay
<1>2. QED
  BY <1>1, RestInvStep, ReportInvAlways, CollectInvAlways, PTL DEF Spec

(* At rest, the informer's copy is the CR and nothing is unseen.            *)
LEMMA DoneAtRest ==
    ASSUME TypeOK, GuardInv, RestInv, Quiescent,
           ray.uid # 0, ~ray.del, ray.projected
    PROVE  Done(ray) /\ unseen = {}
BY DEF Quiescent, GuardInv, CopiesAgree, RestInv

(* When the controller rests on a Managed CR, every operand it wants is     *)
(* there and the owned ones carry label, ownerRef and generation of the CR  *)
(* as it is: no edit, conflict, failure, crash or interference in between   *)
(* was lost on the way, for every set of operands and every bound. Missing  *)
(* can only be an unowned one that a third party deleted, and the notebook  *)
(* role where CreateOrUpdate's outdated read showed it in place.            *)
THEOREM ManagedAtRest == Spec => []QuiescentManaged
<1>1. ASSUME TypeOK, GuardInv, RestInv PROVE QuiescentManaged
  <2> SUFFICES ASSUME Settled("Managed"),
                      NEW o \in Desired("Managed", hasSCCs) \cup {NotebookRole}
               PROVE  /\ objs[o].live \/ o \in lost
                      /\ o \in Owning =>
                           objs[o] = [live |-> TRUE, labelled |-> TRUE,
                                      owner |-> ray.uid, gen |-> ray.gen]
    BY DEF QuiescentManaged
  <2>1. Done(ray) /\ unseen = {} /\ ray.mgmt = "Managed"
    BY <1>1, DoneAtRest DEF Settled
  <2>2. InPlace(o, ray)
    BY <2>1 DEF Done, AllInPlace
  <2>3. QED
    BY <2>1, <2>2 DEF InPlace
<1>2. QED
  BY <1>1, RestInvAlways, PTL

(* When the controller rests on a Removed CR, no labelled operand is left   *)
(* of the kinds deploy owns, although both listings may have lagged behind  *)
(* it; of the others only what the collection did not list; and of the      *)
(* kinds deleteOwnedOperands lists none that the CR owns.                   *)
THEOREM RemovedAtRest == Spec => []QuiescentRemoved
<1>1. ASSUME TypeOK, GuardInv, RestInv PROVE QuiescentRemoved
  <2> SUFFICES ASSUME Settled("Removed")
               PROVE  \A o \in Objects \ CRDs :
                         /\ objs[o].labelled => o \in missed \ Owning
                         /\ o \in Listed => objs[o].owner # ray.uid
    BY DEF QuiescentRemoved
  <2>1. Done(ray) /\ unseen = {} /\ ray.mgmt = "Removed"
    BY <1>1, DoneAtRest DEF Settled
  <2>2. QED
    BY <2>1 DEF Done, OnlyMissedLeft, LabelledUnseen, OwnedGone
<1>2. QED
  BY <1>1, RestInvAlways, PTL

-----------------------------------------------------------------------------
(* The lookup of SecurityContextConstraints is behind every pass that ends  *)
(* well, and only an API error makes it miss an API that is there.          *)
LookupInv ==
    /\ pc \in {"notebook", "deploy", "gcOwned", "gc"} => hasSCCs # "unset"
    /\ pc = "status" /\ outcome = "ok" => hasSCCs # "unset"
    /\ ~queued /\ pc = "idle" /\ cache.uid # 0 /\ ~cache.del /\ cache.projected
        => hasSCCs # "unset"
    /\ hasSCCs = "no" /\ ClusterHasSCC => faults # 0

(* A step that neither starts nor ends a pass nor looks anything up.        *)
LEMMA LookupQuiet ==
    ASSUME LookupInv, UNCHANGED <<cache, pc, outcome, hasSCCs, faults>>,
           queued => queued'
    PROVE  LookupInv'
BY DEF LookupInv

(* A pass that ends well has come by the lookup.                            *)
LEMMA LookupController ==
    TypeOK /\ GuardInv /\ RestInv /\ LookupInv /\ Controller => LookupInv'
<1> SUFFICES ASSUME TypeOK, GuardInv, RestInv, LookupInv, Controller
             PROVE  LookupInv'
  OBVIOUS
<1>1. CASE StartPass
  BY <1>1 DEF StartPass, rayVars, envVars, GoTo, LookupInv
<1>2. CASE SkipPass
  BY <1>2 DEF SkipPass, rayVars, passVars, envVars, LookupInv
<1>3. CASE AddFinalizer \/ waitForNamespace
  BY <1>3 DEF AddFinalizer, waitForNamespace, envVars, GoTo, EndWith, LookupInv
<1>4. CASE Prepare
  BY <1>4 DEF Prepare, envVars, GoTo, EndWith, LookupInv
<1>5. CASE notebookClusterRole
  BY <1>5 DEF notebookClusterRole, envVars, GoTo, EndWith, LookupInv
<1>6. CASE Deploy
  BY <1>6 DEF Deploy, envVars, GoTo, LookupInv
<1>7. CASE reconcileGC
  BY <1>7 DEF reconcileGC, envVars, GoTo, EndWith, LookupInv
<1>8. CASE StatusUpdate
  <2>1. /\ UNCHANGED <<cache, hasSCCs, faults>> /\ pc = "status" /\ pc' = "idle"
    BY <1>8 DEF StatusUpdate, Finish, GoTo, envVars
  <2>2. ~queued' => ~queued /\ outcome # "error"
    BY <1>8 DEF StatusUpdate, Finish
  <2>3. ~queued' /\ cache.projected => outcome = "ok"
    BY <2>1, <2>2 DEF RestInv, SameRay, TypeOK
  <2>4. QED
    BY <2>1, <2>3 DEF LookupInv
<1>9. CASE DeletionCleanup
  BY <1>9 DEF DeletionCleanup, envVars, GoTo, LookupInv
<1>10. CASE RemoveFinalizer
  <2>1. /\ UNCHANGED <<cache, hasSCCs, faults>> /\ pc \in DeletePCs /\ pc' = "idle"
        /\ (~queued' => ~queued)
    BY <1>10 DEF RemoveFinalizer, Finish, GoTo, DeletePCs, envVars
  <2>2. QED
    BY <2>1, DeletePassKnown DEF LookupInv
<1>11. QED
  BY <1>1, <1>2, <1>3, <1>4, <1>5, <1>6, <1>7, <1>8, <1>9, <1>10 DEF Controller

(* An error, a failed lookup and a crash are counted.                       *)
LEMMA LookupFailure == TypeOK /\ LookupInv /\ Failure => LookupInv'
<1> SUFFICES ASSUME TypeOK, LookupInv, Failure PROVE LookupInv'
  OBVIOUS
<1>0. faults' # 0
  <2>1. Fault
    BY DEF Failure, waitForNamespaceFails, RESTMappingFails, ActionFails,
       PassFails, Crash
  <2>2. QED
    BY <2>1, BoundsAssumption DEF Fault, TypeOK
<1>1. CASE waitForNamespaceFails \/ ActionFails
  BY <1>0, <1>1 DEF waitForNamespaceFails, ActionFails, GoTo, EndWith, LookupInv
<1>2. CASE RESTMappingFails
  BY <1>0, <1>2 DEF RESTMappingFails, GoTo, LookupInv
<1>3. CASE PassFails
  BY <1>0, <1>3 DEF PassFails, Finish, GoTo, LookupInv
<1>4. CASE Crash
  BY <1>0, <1>4 DEF Crash, GoTo, LookupInv
<1>5. QED
  BY <1>1, <1>2, <1>3, <1>4 DEF Failure

(* With the invariants it leans on, LookupInv is inductive.                 *)
LEMMA LookupStep ==
    TypeOK /\ GuardInv /\ ReportInv /\ RestInv /\ LookupInv /\ [Next]_vars
        => LookupInv'
<1> SUFFICES ASSUME TypeOK, GuardInv, ReportInv, RestInv, LookupInv, [Next]_vars
             PROVE  LookupInv'
  OBVIOUS
<1>1. ASSUME NEW m, NEW p, UserCreate(m, p) \/ UserEdit(m, p) \/ UserDelete
      PROVE  LookupInv'
  BY <1>1, LookupQuiet DEF UserCreate, UserEdit, UserDelete, StoreRay, envVars
<1>2. CASE PlatformConfigEvent \/ InstallCertManager \/ UNCHANGED vars
  BY <1>2, LookupQuiet DEF PlatformConfigEvent, InstallCertManager, vars,
     rayVars, passVars, envVars
<1>3. ASSUME NEW q \in Objects,
             Observe(q) \/ KubeGC(q) \/ ThirdPartyDelete(q) \/ StripLabel(q)
      PROVE  LookupInv'
  <2>1. UNCHANGED <<cache, pc, outcome, hasSCCs, faults>>
    BY <1>3 DEF Observe, KubeGC, ThirdPartyDelete, StripLabel, rayVars, passVars,
       envVars
  <2>2. queued => queued'
    BY <1>3 DEF Observe, KubeGC, ThirdPartyDelete, StripLabel
  <2>3. QED
    BY <2>1, <2>2, LookupQuiet
<1>4. CASE CacheSync
  <2>0. /\ cache' = ray /\ UNCHANGED <<pc, outcome, hasSCCs, faults>>
    BY <1>4 DEF CacheSync, passVars, envVars
  <2>1. ~queued' => ~queued /\ cache.uid = ray.uid /\ cache.gen = ray.gen
    BY <1>4 DEF CacheSync, RayEventPasses, GenerationChanged
  <2>2. ~queued' /\ cache.uid # 0 => cache.projected = ray.projected
    BY <2>1 DEF ReportInv, SameSpec
  <2>3. ~queued' /\ cache.uid # 0 /\ ~ray.del => ~cache.del
    BY <2>1 DEF GuardInv, StillTerminating
  <2>4. QED
    BY <2>0, <2>1, <2>2, <2>3 DEF LookupInv
<1>5. QED
  BY <1>1, <1>2, <1>3, <1>4, LookupController, LookupFailure
     DEF Next, Environment

(* It holds in every behaviour.                                             *)
LEMMA LookupAlways == Spec => []LookupInv
<1>1. Init => LookupInv
  BY DEF Init, LookupInv, NoRay
<1>2. QED
  BY <1>1, LookupStep, RestInvAlways, ReportInvAlways, PTL DEF Spec

(* A cluster that serves SecurityContextConstraints has them when the       *)
(* controller rests on a Managed CR, unless an API error made the one lookup*)
(* of this process answer no: nothing else in the pipeline leaves them out. *)
THEOREM SCCsMissOnlyByError ==
    Spec => [](SCCsFollowCluster \/ (hasSCCs = "no" /\ faults # 0))
<1>1. ASSUME TypeOK, GuardInv, RestInv, LookupInv,
             ~(hasSCCs = "no" /\ faults # 0)
      PROVE  SCCsFollowCluster
  <2> SUFFICES ASSUME Settled("Managed"), ClusterHasSCC, NEW o \in SCCs
               PROVE  objs[o].live \/ o \in lost
    BY DEF SCCsFollowCluster
  <2>1. Done(ray) /\ unseen = {} /\ ray.mgmt = "Managed"
    BY <1>1, DoneAtRest DEF Settled
  <2>2. cache = ray /\ ~queued /\ pc = "idle"
    BY <1>1 DEF Settled, Quiescent, GuardInv, CopiesAgree
  <2>3. hasSCCs = "yes"
    BY <1>1, <2>2 DEF LookupInv, Settled, TypeOK
  <2>4. o \in Desired("Managed", hasSCCs)
    BY <2>3, ObjectsAssumption DEF Desired
  <2>5. InPlace(o, ray)
    BY <2>1, <2>4 DEF Done, AllInPlace
  <2>6. QED
    BY <2>1, <2>5 DEF InPlace
<1>2. QED
  BY <1>1, RestInvAlways, LookupAlways, PTL

(* What the Removed path can leave of the operands a CR owns: only kinds    *)
(* that deleteOwnedOperands does not list, and of those only operands whose *)
(* label is gone. Every other owned operand is deleted before the           *)
(* controller rests, however far the listings lagged behind.                *)
THEOREM OwnedLeftAreUnlisted ==
    Spec => [](Settled("Removed") =>
                 \A o \in Objects \ CRDs : objs[o].owner = ray.uid =>
                    o \in Owning \ Listed /\ ~objs[o].labelled)
<1>1. ASSUME CollectInv, QuiescentRemoved, Settled("Removed"),
             NEW o \in Objects \ CRDs, objs[o].owner = ray.uid
      PROVE  o \in Owning \ Listed /\ ~objs[o].labelled
  <2>1. ray.uid # 0
    BY <1>1 DEF Settled
  <2>2. o \in Owning
    BY <1>1, <2>1 DEF CollectInv
  <2>3. QED
    BY <1>1, <2>2 DEF QuiescentRemoved
<1>2. CollectInv /\ QuiescentRemoved =>
        (Settled("Removed") =>
            \A o \in Objects \ CRDs : objs[o].owner = ray.uid =>
                o \in Owning \ Listed /\ ~objs[o].labelled)
  BY <1>1
<1>3. QED
  BY <1>2, CollectInvAlways, RemovedAtRest, PTL
=============================================================================
