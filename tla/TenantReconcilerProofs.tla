----------------------- MODULE TenantReconcilerProofs -----------------------
(* Theorems about TenantReconciler, for every value of its constants. *)
EXTENDS TenantReconciler, TLAPS

-----------------------------------------------------------------------------
(* Types. *)

\* The names of the objects are keys.
LEMMA KeyTypes ==
    /\ {SUPABASE, NS, NP, JWT, DBC, DATABASE, JOB, ROUTE} \subseteq Keys
    /\ \A i \in Services : Deploy(i) \in Keys /\ Svc(i) \in Keys
BY DEF Keys

\* The names of the conditions are conditions.
LEMMA CondTypes ==
    /\ {NamespaceReady, SecretsReady, DatabaseReady, RoutingReady, ReadyCond}
           \subseteq Conds
    /\ \A i \in Services : ServiceReady(i) \in Conds
BY DEF Conds, ComponentConds

\* The worker's variables are well typed when a pass ends.
LEMMA DoneType ==
    ASSUME TypeOK, NEW again \in BOOLEAN, Done(again)
    PROVE  /\ timer' \in BOOLEAN /\ pc' \in Pcs /\ at' \in Services
           /\ my' \in CRs /\ base' \in Statuses /\ work' \in Statuses
           /\ rvOK' \in BOOLEAN /\ allReady' \in BOOLEAN
<1>1. NoCR \in CRs
  BY DEF NoCR, CRs
<1>2. NoStatus \in Statuses
  BY DEF NoStatus, Statuses, Phases, Conditions, Unset
<1>3. 1 \in Services
  BY ServicesAssumption DEF Services
<1> QED
  BY <1>1, <1>2, <1>3 DEF Done, TypeOK, Pcs

\* A write keeps the type of the objects and of the workqueue.
LEMMA WriteType ==
    ASSUME TypeOK, NEW new \in [Keys -> ObjStates], Write(new)
    PROVE  api' \in [Keys -> ObjStates] /\ queued' \in BOOLEAN
BY DEF TypeOK, Write, Wakes, mapByTenantLabel

\* Spending a failure keeps the type of the count.
LEMMA SpendType ==
    ASSUME TypeOK, NEW out, Spend(out)
    PROVE  faults' \in Nat
BY DEF TypeOK, Spend

\* Setting a condition keeps the type of the status.
LEMMA SetConditionType ==
    ASSUME TypeOK, NEW c \in Conds,
           NEW reason \in {"Ready", "NotReady", "Error"}
    PROVE  SetCondition(c, reason) \in Statuses
BY DEF TypeOK, SetCondition, Statuses, Conditions, CRs

\* The merge patch of two statuses is a status.
LEMMA MergedType ==
    ASSUME NEW s \in Statuses, NEW from \in Statuses, NEW to \in Statuses,
           NEW sendConds \in BOOLEAN
    PROVE  Merged(s, from, to, sendConds) \in Statuses
BY DEF Merged, Statuses

\* The initial states are well typed.
LEMMA InitType == Init => TypeOK
<1> SUFFICES ASSUME Init PROVE TypeOK
  OBVIOUS
<1>1. NoCR \in CRs
  BY DEF NoCR, CRs
<1>2. NoStatus \in Statuses
  BY DEF NoStatus, Statuses, Phases, Conditions, Unset
<1>3. 1 \in Services
  BY ServicesAssumption DEF Services
<1>4. api \in [Keys -> ObjStates]
  BY DEF Init, ObjStates
<1> QED
  BY <1>1, <1>2, <1>3, <1>4 DEF Init, TypeOK, Pcs, Databases

\* Taking the key off the workqueue keeps the types.
LEMMA StartReconcileType == TypeOK /\ StartReconcile => TypeOK'
<1> SUFFICES ASSUME TypeOK, StartReconcile PROVE TypeOK'
  OBVIOUS
<1> PICK out \in {"ok", "unread"} : Spend(out)
  BY DEF StartReconcile
<1>1. faults' \in Nat /\ queued' \in BOOLEAN
  BY SpendType DEF StartReconcile
<1>2. UNCHANGED <<crVars, seenVars, kubeVars, edits, lives, crashes>>
  BY DEF StartReconcile
<1>3. CASE Done(TRUE)
  BY <1>1, <1>2, <1>3, DoneType
  DEF TypeOK, crVars, seenVars, kubeVars
<1>4. CASE Done(FALSE)
  BY <1>1, <1>2, <1>4, DoneType
  DEF TypeOK, crVars, seenVars, kubeVars
<1>5. CASE /\ pc' \in {"finPatch", "addFin", "parent"}
           /\ my' = seenCR /\ base' = seenStatus /\ work' = seenStatus
           /\ rvOK' = ~crEvent
           /\ UNCHANGED <<at, allReady, timer>>
  BY <1>1, <1>2, <1>5
  DEF TypeOK, crVars, seenVars, kubeVars, Pcs, ReconcilePcs, FinalizePcs
<1> QED
  BY <1>3, <1>4, <1>5 DEF StartReconcile

\* The Update that adds the finalizer keeps the types.
LEMMA AddFinalizerType == TypeOK /\ AddFinalizer => TypeOK'
<1> SUFFICES ASSUME TypeOK, AddFinalizer PROVE TypeOK'
  OBVIOUS
<1> PICK out \in {"ok", "undone", "lost"} :
        /\ Spend(out)
        /\ IF rvOK /\ out # "undone"
           THEN cr' = [cr EXCEPT !.fin = TRUE] /\ crEvent' = TRUE
           ELSE UNCHANGED <<cr, crEvent>>
  BY DEF AddFinalizer
<1>1. faults' \in Nat
  BY SpendType
<1>2. cr' \in CRs /\ crEvent' \in BOOLEAN
  BY DEF TypeOK, CRs
<1>3. Done(TRUE)
  BY DEF AddFinalizer
<1> QED
  BY <1>1, <1>2, <1>3, DoneType
  DEF AddFinalizer, TypeOK, seenVars, kubeVars

\* A step of a component: what is left to check of it.
LEMMA ComponentType ==
    ASSUME TypeOK, ComponentFrame,
           pc' \in Pcs, at' \in Services, work' \in Statuses,
           allReady' \in BOOLEAN, faults' \in Nat,
           \/ UNCHANGED <<api, queued>>
           \/ \E new \in [Keys -> ObjStates] : Write(new)
    PROVE  TypeOK'
<1>1. api' \in [Keys -> ObjStates] /\ queued' \in BOOLEAN
  <2>1. CASE UNCHANGED <<api, queued>>
    BY <2>1 DEF TypeOK
  <2>2. CASE \E new \in [Keys -> ObjStates] : Write(new)
    BY <2>2, WriteType
  <2> QED
    BY <2>1, <2>2
<1> QED
  BY <1>1 DEF TypeOK, ComponentFrame, crVars, seenVars

\* Resolving the parent keeps the types.
LEMMA ResolveParentType == TypeOK /\ ResolveParent => TypeOK'
<1> SUFFICES ASSUME TypeOK, ResolveParent PROVE TypeOK'
  OBVIOUS
<1>1. faults' \in Nat
  BY SpendType DEF ResolveParent
<1>2. pc' \in Pcs
  BY DEF ResolveParent, Pcs, ReconcilePcs
<1>3. work' \in Statuses
  <2>1. SetCondition(ReadyCond, "Error") \in Statuses
    BY SetConditionType, CondTypes
  <2> QED
    BY <2>1 DEF ResolveParent, TypeOK, Statuses, Phases
<1> QED
  BY <1>1, <1>2, <1>3, ComponentType DEF ResolveParent, TypeOK

\* A prerequisite that ends the pass leaves a well-typed status to patch.
LEMMA StopProvisioningType ==
    ASSUME TypeOK, NEW c \in Conds, NEW reason \in {"NotReady", "Error"},
           StopProvisioning(c, reason)
    PROVE  work' \in Statuses /\ pc' \in Pcs
<1>1. SetCondition(c, reason) \in Statuses
  BY SetConditionType
<1> QED
  BY <1>1 DEF StopProvisioning, TypeOK, Statuses, Phases, CRs, Pcs

\* Creating an object in one of its first states keeps the types.
LEMMA CreateIfMissingType ==
    ASSUME TypeOK, NEW k \in Keys, NEW built, built.first \in ObjStates,
           NEW next \in Pcs, NEW c \in Conds,
           CreateIfMissing(k, built, next, c)
    PROVE  TypeOK'
<1> PICK out \in Outcomes :
       /\ Spend(out)
       /\ LET creates == /\ View(k) = "absent" /\ Creatable(k, built.home)
                         /\ out \in {"ok", "lost"}
          IN  /\ IF creates THEN Write([api EXCEPT ![k] = built.first])
                            ELSE UNCHANGED <<api, queued>>
              /\ IF out = "ok" /\ (View(k) # "absent" \/ creates)
                 THEN pc' = next /\ UNCHANGED work
                 ELSE StopProvisioning(c, "Error")
  BY DEF CreateIfMissing
<1>1. faults' \in Nat
  BY SpendType
<1>2. work' \in Statuses /\ pc' \in Pcs
  BY StopProvisioningType DEF TypeOK
<1>3. [api EXCEPT ![k] = built.first] \in [Keys -> ObjStates]
  BY DEF TypeOK
<1>4. \/ UNCHANGED <<api, queued>>
      \/ \E new \in [Keys -> ObjStates] : Write(new)
  BY <1>3
<1> QED
  BY <1>1, <1>2, <1>4, ComponentType DEF CreateIfMissing, TypeOK

\* The health check of a prerequisite keeps the types.
LEMMA CheckHealthType ==
    ASSUME TypeOK, NEW healthy, NEW next \in Pcs, NEW c \in Conds,
           CheckHealth(healthy, next, c)
    PROVE  TypeOK'
<1> PICK out \in {"ok", "unread"} :
       /\ Spend(out)
       /\ \/ pc' = next /\ work' = SetCondition(c, "Ready")
          \/ \E reason \in {"NotReady", "Error"} : StopProvisioning(c, reason)
  BY DEF CheckHealth
<1>1. faults' \in Nat
  BY SpendType
<1>2. work' \in Statuses /\ pc' \in Pcs
  BY StopProvisioningType, SetConditionType
<1> QED
  BY <1>1, <1>2, ComponentType DEF CheckHealth, TypeOK

\* The Namespace, Secret and Database components keep the types.
LEMMA PrerequisitesType ==
    /\ TypeOK
    /\ \/ NamespaceReconcile \/ NamespaceHealthcheck
       \/ SecretReconcile \/ SecretHealthcheck
       \/ DatabaseReconcile \/ DatabaseHealthcheck
    => TypeOK'
<1> SUFFICES ASSUME TypeOK,
                    \/ NamespaceReconcile \/ NamespaceHealthcheck
                    \/ SecretReconcile \/ SecretHealthcheck
                    \/ DatabaseReconcile \/ DatabaseHealthcheck
             PROVE  TypeOK'
  OBVIOUS
<1> USE KeyTypes, CondTypes
<1>1. {"np", "nsHealth", "jwt", "dbc", "secretHealth", "database", "job",
       "dbHealth", "deploy"} \subseteq Pcs
  BY DEF Pcs, ReconcilePcs
<1>2. CASE NamespaceReconcile
  BY <1>1, <1>2, CreateIfMissingType
  DEF NamespaceReconcile, buildNamespace, buildNetworkPolicy, ObjStates
<1>3. CASE SecretReconcile
  BY <1>1, <1>3, CreateIfMissingType
  DEF SecretReconcile, buildJWTSecret, buildDBCredentialsSecret, ObjStates
<1>4. CASE DatabaseReconcile
  BY <1>1, <1>4, CreateIfMissingType
  DEF DatabaseReconcile, buildCNPGDatabase, buildInitJob, ObjStates
<1>5. CASE NamespaceHealthcheck
  BY <1>1, <1>5, CheckHealthType DEF NamespaceHealthcheck
<1>6. CASE SecretHealthcheck
  BY <1>1, <1>6, CheckHealthType DEF SecretHealthcheck
<1>7. CASE DatabaseHealthcheck
  BY <1>1, <1>7, CheckHealthType DEF DatabaseHealthcheck
<1> QED
  BY <1>2, <1>3, <1>4, <1>5, <1>6, <1>7

\* The loop over the services never runs past the last of them.
LEMMA EndServiceType ==
    ASSUME TypeOK, NEW reason \in {"Ready", "NotReady", "Error"},
           EndService(reason)
    PROVE  /\ work' \in Statuses /\ pc' \in Pcs
           /\ at' \in Services /\ allReady' \in BOOLEAN
<1>1. work' \in Statuses
  BY SetConditionType, CondTypes DEF EndService, TypeOK
<1>2. at' \in Services
  BY ServicesAssumption DEF EndService, TypeOK, Services
<1> QED
  BY <1>1, <1>2 DEF EndService, TypeOK, Pcs, ReconcilePcs

\* The steps of a service component write one Deployment or Service and go
\* on, or end the component.
LEMMA ServicesType ==
    /\ TypeOK
    /\ \/ ScaleToZero \/ ReconcileDeployment
       \/ ReconcileService \/ ServiceHealthcheck
    => TypeOK'
<1> SUFFICES ASSUME TypeOK,
                    \/ ScaleToZero \/ ReconcileDeployment
                    \/ ReconcileService \/ ServiceHealthcheck
             PROVE  TypeOK'
  OBVIOUS
<1> DEFINE GoesOn == /\ pc' \in {"svc", "svcHealth"}
                     /\ UNCHANGED <<at, work, allReady>>
           Writes == \/ UNCHANGED <<api, queued>>
                     \/ \E new \in [Keys -> ObjStates] : Write(new)
<1>1. \A v \in ObjStates, i \in Services :
         /\ [api EXCEPT ![Deploy(i)] = v] \in [Keys -> ObjStates]
         /\ [api EXCEPT ![Svc(i)] = v] \in [Keys -> ObjStates]
  BY DEF TypeOK
<1>2. at \in Services /\ {"pending", "present", "zero"} \subseteq ObjStates
  BY DEF TypeOK, ObjStates
<1>3. /\ ComponentFrame /\ Writes
      /\ \E out : Spend(out)
      /\ \/ GoesOn
         \/ \E reason \in {"Ready", "NotReady", "Error"} : EndService(reason)
  <2>1. CASE ScaleToZero
    BY <1>1, <1>2, <2>1 DEF ScaleToZero
  <2>2. CASE ReconcileDeployment
    BY <1>1, <1>2, <2>2 DEF ReconcileDeployment, BuildDeployment
  <2>3. CASE ReconcileService
    BY <1>1, <1>2, <2>3 DEF ReconcileService, BuildService
  <2>4. CASE ServiceHealthcheck
    BY <2>4 DEF ServiceHealthcheck
  <2> QED
    BY <2>1, <2>2, <2>3, <2>4
<1>4. /\ work' \in Statuses /\ pc' \in Pcs
      /\ at' \in Services /\ allReady' \in BOOLEAN
  BY <1>3, EndServiceType DEF TypeOK, Pcs, ReconcilePcs
<1> QED
  BY <1>3, <1>4, SpendType, ComponentType

\* The phase derived at the end of a pass is a phase.
LEMMA EndRoutingType ==
    ASSUME TypeOK, NEW reason \in {"Ready", "NotReady", "Error"},
           EndRouting(reason)
    PROVE  work' \in Statuses /\ pc' \in Pcs
<1>1. SetCondition(RoutingReady, reason) \in Statuses
  BY SetConditionType, CondTypes
<1>2. DerivePhase(reason = "Ready") \in Phases
  BY DEF DerivePhase, Phases
<1> QED
  BY <1>1, <1>2 DEF EndRouting, TypeOK, Statuses, CRs, Pcs

\* Deleting the route keeps the types of what it writes.
LEMMA DeleteRouteType ==
    ASSUME TypeOK, NEW out, deleteHTTPRoute(out)
    PROVE  /\ faults' \in Nat
           /\ \/ UNCHANGED <<api, queued>>
              \/ \E new \in [Keys -> ObjStates] : Write(new)
<1>1. [api EXCEPT ![ROUTE] = "absent"] \in [Keys -> ObjStates]
  BY KeyTypes DEF TypeOK, ObjStates
<1> QED
  BY <1>1, SpendType DEF deleteHTTPRoute

\* The routing component keeps the types.
LEMMA RoutingType ==
    TypeOK /\ (RoutingReconcile \/ RemoveRoute \/ RoutingHealthcheck) => TypeOK'
<1> SUFFICES ASSUME TypeOK,
                    RoutingReconcile \/ RemoveRoute \/ RoutingHealthcheck
             PROVE  TypeOK'
  OBVIOUS
<1> DEFINE GoesOn == pc' = "routeHealth" /\ UNCHANGED work
           Writes == \/ UNCHANGED <<api, queued>>
                     \/ \E new \in [Keys -> ObjStates] : Write(new)
<1>1. [api EXCEPT ![ROUTE] = "present"] \in [Keys -> ObjStates]
  BY KeyTypes DEF TypeOK, ObjStates
<1>2. /\ ComponentFrame /\ Writes /\ UNCHANGED <<at, allReady>>
      /\ faults' \in Nat
      /\ \/ GoesOn
         \/ \E reason \in {"Ready", "NotReady", "Error"} : EndRouting(reason)
  <2>1. CASE RoutingReconcile
    BY <1>1, <2>1, SpendType DEF RoutingReconcile, buildHTTPRoute
  <2>2. CASE RemoveRoute
    BY <2>2, DeleteRouteType DEF RemoveRoute
  <2>3. CASE RoutingHealthcheck
    BY <2>3, SpendType DEF RoutingHealthcheck
  <2> QED
    BY <2>1, <2>2, <2>3
<1>3. work' \in Statuses /\ pc' \in Pcs
  BY <1>2, EndRoutingType DEF TypeOK, Pcs, ReconcilePcs
<1> QED
  BY <1>2, <1>3, ComponentType DEF TypeOK

\* The status patch keeps the types.
LEMMA PatchStatusType == TypeOK /\ PatchStatus => TypeOK'
<1> SUFFICES ASSUME TypeOK, PatchStatus PROVE TypeOK'
  OBVIOUS
<1> PICK out \in {"ok", "undone", "lost"}, sendConds \in BOOLEAN :
       /\ Spend(out)
       /\ IF cr.present /\ out # "undone"
          THEN ApplyPatch(Merged(status, base, work, sendConds), sendConds)
          ELSE UNCHANGED <<status, crEvent>>
  BY DEF PatchStatus
<1>1. Merged(status, base, work, sendConds) \in Statuses
  BY MergedType DEF TypeOK
<1>2. status' \in Statuses /\ crEvent' \in BOOLEAN
  BY <1>1 DEF ApplyPatch, TypeOK
<1>3. faults' \in Nat /\ Done(TRUE)
  BY SpendType DEF PatchStatus
<1> QED
  BY <1>2, <1>3, DoneType DEF PatchStatus, TypeOK, seenVars, kubeVars

\* The patch that marks the tenant as Deleting keeps the types.
LEMMA MarkDeletingType == TypeOK /\ MarkDeleting => TypeOK'
<1> SUFFICES ASSUME TypeOK, MarkDeleting PROVE TypeOK'
  OBVIOUS
<1> DEFINE marked == [base EXCEPT !.phase = "Deleting"]
<1> PICK out \in {"ok", "undone", "lost"} :
       /\ Spend(out)
       /\ IF cr.present /\ out # "undone"
          THEN ApplyPatch(Merged(status, base, marked, FALSE), FALSE)
          ELSE UNCHANGED <<status, crEvent>>
       /\ IF cr.present /\ out = "ok"
          THEN my' = cr /\ rvOK' = TRUE
          ELSE /\ rvOK' = (rvOK /\ status' = status)
               /\ UNCHANGED my
  BY DEF MarkDeleting
<1>1. Merged(status, base, marked, FALSE) \in Statuses
  <2>1. marked \in Statuses
    BY DEF TypeOK, Statuses, Phases
  <2> QED
    BY <2>1, MergedType DEF TypeOK
<1>2. status' \in Statuses /\ crEvent' \in BOOLEAN
  BY <1>1 DEF ApplyPatch, TypeOK
<1>3. my' \in CRs /\ rvOK' \in BOOLEAN /\ faults' \in Nat
  BY SpendType DEF TypeOK
<1>4. NoStatus \in Statuses /\ "finParent" \in Pcs
  BY DEF NoStatus, Statuses, Phases, Conditions, Unset, Pcs, FinalizePcs
<1> QED
  BY <1>2, <1>3, <1>4
  DEF MarkDeleting, TypeOK, seenVars, kubeVars, queueVars

\* The end of a finalize step: it goes on or ends the pass.
LEMMA FinalizeStepType ==
    ASSUME TypeOK, FinalizeFrame, faults' \in Nat,
           \/ UNCHANGED <<api, queued>>
           \/ \E new \in [Keys -> ObjStates] : Write(new),
           \/ \E next \in FinalizePcs : GoOn(next)
           \/ Done(TRUE)
    PROVE  TypeOK'
<1>1. api' \in [Keys -> ObjStates] /\ queued' \in BOOLEAN
  <2>1. CASE UNCHANGED <<api, queued>>
    BY <2>1 DEF TypeOK
  <2>2. CASE \E new \in [Keys -> ObjStates] : Write(new)
    BY <2>2, WriteType
  <2> QED
    BY <2>1, <2>2
<1>2. CASE \E next \in FinalizePcs : GoOn(next)
  BY <1>1, <1>2 DEF TypeOK, FinalizeFrame, GoOn, crVars, seenVars, Pcs
<1>3. CASE Done(TRUE)
  BY <1>1, <1>3, DoneType DEF TypeOK, FinalizeFrame, crVars, seenVars
<1> QED
  BY <1>2, <1>3

\* Deleting an object in finalize keeps the types.
LEMMA FinalizeDeleteType ==
    ASSUME TypeOK, NEW k \in Keys, NEW left \in ObjStates,
           NEW next \in FinalizePcs, FinalizeDelete(k, left, next)
    PROVE  TypeOK'
<1>1. [api EXCEPT ![k] = left] \in [Keys -> ObjStates]
  BY DEF TypeOK
<1>2. /\ FinalizeFrame /\ faults' \in Nat
      /\ \/ UNCHANGED <<api, queued>>
         \/ \E new \in [Keys -> ObjStates] : Write(new)
      /\ GoOn(next) \/ Done(TRUE)
  BY <1>1, SpendType DEF FinalizeDelete
<1> QED
  BY <1>2, FinalizeStepType

\* The cleanup of finalize keeps the types.
LEMMA FinalizeType ==
    /\ TypeOK
    /\ \/ FinalizeParent \/ FinalizeRouting
       \/ DatabaseFinalize \/ NamespaceFinalize
    => TypeOK'
<1> SUFFICES ASSUME TypeOK,
                    \/ FinalizeParent \/ FinalizeRouting
                    \/ DatabaseFinalize \/ NamespaceFinalize
             PROVE  TypeOK'
  OBVIOUS
<1>1. CASE FinalizeParent
  <2>1. /\ FinalizeFrame /\ UNCHANGED <<api, queued>> /\ faults' \in Nat
        /\ \E next \in FinalizePcs : GoOn(next)
    BY <1>1, SpendType DEF FinalizeParent, FinalizePcs
  <2> QED
    BY <2>1, FinalizeStepType
<1>2. CASE FinalizeRouting
  BY <1>2, DeleteRouteType, FinalizeStepType DEF FinalizeRouting, FinalizePcs
<1>3. CASE DatabaseFinalize
  BY <1>3, KeyTypes, FinalizeDeleteType
  DEF DatabaseFinalize, FinalizePcs, ObjStates
<1>4. CASE NamespaceFinalize
  <2>1. [api EXCEPT ![NS] = "terminating"] \in [Keys -> ObjStates]
    BY KeyTypes DEF TypeOK, ObjStates
  <2>2. /\ FinalizeFrame /\ faults' \in Nat
        /\ \/ UNCHANGED <<api, queued>>
           \/ \E new \in [Keys -> ObjStates] : Write(new)
        /\ GoOn("finRemove") \/ Done(TRUE)
    BY <1>4, <2>1, SpendType DEF NamespaceFinalize
  <2> QED
    BY <2>2, FinalizeStepType DEF FinalizePcs
<1> QED
  BY <1>1, <1>2, <1>3, <1>4

\* The tenant that is not there and its status are well typed.
LEMMA EmptyTypes == NoCR \in CRs /\ NoStatus \in Statuses
BY DEF NoCR, CRs, NoStatus, Statuses, Phases, Conditions, Unset

\* The Update that removes the finalizer keeps the types.
LEMMA RemoveFinalizerType == TypeOK /\ RemoveFinalizer => TypeOK'
<1> SUFFICES ASSUME TypeOK, RemoveFinalizer PROVE TypeOK'
  OBVIOUS
<1> PICK out \in {"ok", "undone", "lost"} :
       /\ Spend(out)
       /\ IF rvOK /\ my.fin /\ out # "undone"
          THEN /\ cr' = WithoutFinalizer(cr)
               /\ status' = IF cr'.present THEN status ELSE NoStatus
               /\ crEvent' = TRUE
          ELSE UNCHANGED crVars
       /\ Done(out # "ok" \/ ~rvOK)
  BY DEF RemoveFinalizer
<1>1. WithoutFinalizer(cr) \in CRs
  BY EmptyTypes DEF WithoutFinalizer, TypeOK, CRs
<1>2. cr' \in CRs /\ status' \in Statuses /\ crEvent' \in BOOLEAN
  BY <1>1, EmptyTypes DEF TypeOK, crVars
<1>3. faults' \in Nat
  BY SpendType
<1>4. (out # "ok" \/ ~rvOK) \in BOOLEAN
  OBVIOUS
<1> QED
  BY <1>2, <1>3, <1>4, DoneType
  DEF RemoveFinalizer, TypeOK, seenVars, kubeVars

\* Timers, informers and restarts keep the types.
LEMMA QueueType ==
    /\ TypeOK
    /\ \/ TimerFires \/ DeliverTenant \/ Restart
       \/ \E kind \in Lagging : Deliver(kind)
    => TypeOK'
<1> SUFFICES ASSUME TypeOK,
                    \/ TimerFires \/ DeliverTenant \/ Restart
                    \/ \E kind \in Lagging : Deliver(kind)
             PROVE  TypeOK'
  OBVIOUS
<1>1. CASE TimerFires
  BY <1>1
  DEF TimerFires, TypeOK, crVars, seenVars, kubeVars, workerVars, bounds
<1>2. CASE DeliverTenant
  BY <1>2 DEF DeliverTenant, TypeOK, kubeVars, workerVars, bounds
<1>3. CASE Restart
  <2>1. 1 \in Services /\ "idle" \in Pcs /\ cr.present \in BOOLEAN
    BY <1>3, ServicesAssumption DEF Services, Pcs, TypeOK, CRs
  <2>2. cache' \in [Keys -> ObjStates]
    BY <1>3 DEF Restart, TypeOK
  <2>3. crashes' \in Nat
    BY <1>3 DEF Restart, TypeOK
  <2> QED
    BY <1>3, <2>1, <2>2, <2>3, EmptyTypes DEF Restart, TypeOK
<1>4. CASE \E kind \in Lagging : Deliver(kind)
  <2> PICK kind \in Lagging : Deliver(kind)
    BY <1>4
  <2>1. cache' \in [Keys -> ObjStates]
    BY DEF Deliver, TypeOK
  <2>2. faults' \in Nat /\ queued' \in BOOLEAN
    BY SpendType DEF Deliver, TypeOK
  <2> QED
    BY <2>1, <2>2 DEF Deliver, TypeOK, crVars, seenVars, workerVars
<1> QED
  BY <1>1, <1>2, <1>3, <1>4

\* Somebody else's change of the SupabaseTenant keeps the types.
LEMMA ChangeTenantType ==
    ASSUME TypeOK, NEW new \in CRs, ChangeTenant(new), status' \in Statuses,
           edits' \in Nat, lives' \in Nat
    PROVE  TypeOK'
BY DEF ChangeTenant, UserFrame, TypeOK, seenVars

\* What users do keeps the types.
LEMMA UserType == TypeOK /\ User => TypeOK'
<1> SUFFICES ASSUME TypeOK, User PROVE TypeOK'
  OBVIOUS
<1>1. CASE CreateTenant
  <2>1. \A s \in BOOLEAN :
           [NoCR EXCEPT !.present = TRUE, !.susp = s, !.gen = 1] \in CRs
    BY DEF NoCR, CRs
  <2>2. status' \in Statuses /\ edits' \in Nat /\ lives' \in Nat
    BY <1>1, EmptyTypes DEF CreateTenant, TypeOK
  <2> QED
    BY <1>1, <2>1, <2>2, ChangeTenantType DEF CreateTenant
<1>2. CASE DeleteTenant
  <2>1. \A b \in BOOLEAN :
           [cr EXCEPT !.deleting = TRUE, !.hold = b] \in CRs
    BY DEF TypeOK, CRs
  <2>2. PICK policy \in Policies :
           ChangeTenant(IF cr.fin \/ policy = "foreground"
                        THEN [cr EXCEPT !.deleting = TRUE,
                                        !.hold = (policy = "foreground")]
                        ELSE NoCR)
    BY <1>2 DEF DeleteTenant
  <2>3. (policy = "foreground") \in BOOLEAN
    OBVIOUS
  <2>4. (IF cr.fin \/ policy = "foreground"
         THEN [cr EXCEPT !.deleting = TRUE, !.hold = (policy = "foreground")]
         ELSE NoCR) \in CRs
    BY <2>1, <2>3, EmptyTypes
  <2>5. status' \in Statuses /\ edits' \in Nat /\ lives' \in Nat
    BY <1>2, EmptyTypes DEF DeleteTenant, TypeOK
  <2> QED
    BY <2>2, <2>4, <2>5, ChangeTenantType
<1>3. CASE ToggleSuspended
  <2>1. [cr EXCEPT !.susp = ~cr.susp, !.gen = cr.gen + 1] \in CRs
    <3>1. \A b \in BOOLEAN, n \in Nat :
             [cr EXCEPT !.susp = b, !.gen = n] \in CRs
      BY DEF TypeOK, CRs
    <3>2. (~cr.susp) \in BOOLEAN /\ cr.gen + 1 \in Nat
      BY DEF TypeOK, CRs
    <3> QED
      BY <3>1, <3>2, Zenon
  <2>2. status' \in Statuses /\ edits' \in Nat /\ lives' \in Nat
    BY <1>3 DEF ToggleSuspended, TypeOK
  <2> QED
    BY <1>3, <2>1, <2>2, ChangeTenantType DEF ToggleSuspended
<1>4. CASE ChangeParent
  <2>1. \A v \in {"absent", "present"} :
           [api EXCEPT ![SUPABASE] = v] \in [Keys -> ObjStates]
    BY DEF TypeOK, ObjStates
  <2>2. api' \in [Keys -> ObjStates] /\ queued' \in BOOLEAN
    BY <1>4, <2>1, WriteType DEF ChangeParent
  <2>3. edits' \in Nat /\ orphaned' \in BOOLEAN
    <3>1. edits \in Nat /\ orphaned \in BOOLEAN
      BY DEF TypeOK
    <3>2. edits' = edits + 1
      BY <1>4 DEF ChangeParent
    <3>3. orphaned' = orphaned \/ orphaned' = TRUE
      BY <1>4 DEF ChangeParent
    <3>4. orphaned' \in BOOLEAN
      BY <3>1, <3>3
    <3> QED
      BY <3>1, <3>2, <3>4
  <2>4. UNCHANGED <<cr, status, crEvent, seenCR, seenStatus, cache, pgdb, pc,
                    at, my, base, work, rvOK, allReady, timer, faults, lives,
                    crashes>>
    BY <1>4 DEF ChangeParent, UserFrame, crVars, seenVars
  <2> QED
    BY <2>2, <2>3, <2>4 DEF TypeOK
<1> QED
  BY <1>1, <1>2, <1>3, <1>4 DEF User

\* What the other controllers of the cluster do keeps the types.
LEMMA ClusterType == TypeOK /\ Cluster => TypeOK'
<1> SUFFICES ASSUME TypeOK, Cluster PROVE TypeOK'
  OBVIOUS
<1>1. CASE ReleaseForeground
  <2>1. (IF cr.fin THEN [cr EXCEPT !.hold = FALSE] ELSE NoCR) \in CRs
    BY EmptyTypes DEF TypeOK, CRs
  <2>2. status' \in Statuses /\ edits' \in Nat /\ lives' \in Nat
    BY <1>1, EmptyTypes DEF ReleaseForeground, TypeOK
  <2> QED
    BY <1>1, <2>1, <2>2, ChangeTenantType DEF ReleaseForeground
<1>2. ASSUME ~ReleaseForeground
      PROVE  /\ ClusterFrame /\ faults' \in Nat
             /\ pgdb' \in Databases /\ orphaned' \in BOOLEAN
             /\ \/ UNCHANGED <<api, queued>>
                \/ \E new \in [Keys -> ObjStates] : Write(new)
  <2>1. \A k \in Keys, v \in ObjStates :
           [api EXCEPT ![k] = v] \in [Keys -> ObjStates]
    BY DEF TypeOK
  <2>2. {"absent", "applied", "refused", "succeeded", "failed", "ready",
         "pending"} \subseteq ObjStates
    BY DEF ObjStates
  <2>3. CASE DatabaseIsApplied \/ DatabaseIsRefused \/ DatabaseIsGone
    BY <2>1, <2>2, <2>3, KeyTypes, SpendType
    DEF DatabaseIsApplied, DatabaseIsRefused, DatabaseIsGone, Databases, TypeOK
  <2>4. CASE JobEnds
    BY <2>1, <2>2, <2>4, KeyTypes DEF JobEnds, TypeOK
  <2>5. CASE \E i \in Services : PodsAreReady(i) \/ PodsFail(i)
    BY <2>1, <2>2, <2>5, KeyTypes, SpendType
    DEF PodsAreReady, PodsFail, TypeOK
  <2>6. CASE NamespaceIsGone
    <3>1. [k \in Keys |-> IF k[1] \in NamespacedKinds \cup {"ns"}
                          THEN "absent" ELSE api[k]] \in [Keys -> ObjStates]
      BY <2>2 DEF TypeOK
    <3> QED
      BY <2>6, <3>1 DEF NamespaceIsGone, TypeOK
  <2>7. CASE ClusterIsCollected
    BY <2>1, <2>2, <2>7, KeyTypes DEF ClusterIsCollected, Databases, TypeOK
  <2> QED
    BY <1>2, <2>3, <2>4, <2>5, <2>6, <2>7 DEF Cluster
<1>3. CASE ~ReleaseForeground
  <2>1. api' \in [Keys -> ObjStates] /\ queued' \in BOOLEAN
    BY <1>2, <1>3, WriteType DEF TypeOK
  <2> QED
    BY <1>2, <1>3, <2>1
    DEF ClusterFrame, TypeOK, crVars, seenVars, workerVars
<1> QED
  BY <1>1, <1>3

\* Every step keeps the type of every variable.
LEMMA NextType == TypeOK /\ [Next]_vars => TypeOK'
<1> SUFFICES ASSUME TypeOK, [Next]_vars PROVE TypeOK'
  OBVIOUS
<1>1. CASE WorkerStep
  BY <1>1, AddFinalizerType, ResolveParentType, PrerequisitesType,
     ServicesType, RoutingType, PatchStatusType, MarkDeletingType,
     FinalizeType, RemoveFinalizerType DEF WorkerStep
<1>2. CASE UNCHANGED vars
  BY <1>2 DEF vars, crVars, seenVars, kubeVars, workerVars, queueVars, bounds,
              TypeOK
<1> QED
  BY <1>1, <1>2, StartReconcileType, QueueType, UserType, ClusterType DEF Next

\* Type correctness: whatever the number of services, the caches that lag and
\* the failures, every variable of the controller keeps its type.
THEOREM TypeCorrect == Spec => []TypeOK
<1>1. Init => TypeOK
  BY InitType
<1>2. TypeOK /\ [Next]_vars => TypeOK'
  BY NextType
<1> QED
  BY <1>1, <1>2, PTL DEF Spec

-----------------------------------------------------------------------------
(* The finalizer and the workqueue. *)

\* The invariant holds initially: there is no tenant.
LEMMA InitFinalizerInv == Init => FinalizerInv
BY DEF Init, FinalizerInv, CopiesAreCurrent, FinalizerGoesOnLive, NoCR,
       CacheKnowsFinalizer, Owned, PassesAreJustified, NeverAbandoned,
       ReconcilePcs, FinalizePcs

\* A step that moves neither the tenant nor its copies, drops no wakeup and
\* leaves the worker in the same part of Reconcile, or has it go from
\* provisioning to the status patch.
LEMMA QuietStep ==
    ASSUME TypeOK, FinalizerInv,
           UNCHANGED <<cr, crEvent, seenCR, my, rvOK, timer>>,
           queued => queued',
           \/ pc' = pc
           \/ pc \in ReconcilePcs /\ pc' \in ReconcilePcs \cup {"patch"}
           \/ pc \in FinalizePcs /\ pc' \in FinalizePcs
    PROVE  FinalizerInv'
BY DEF FinalizerInv, CopiesAreCurrent, FinalizerGoesOnLive, TypeOK,
       CacheKnowsFinalizer, Owned, PassesAreJustified, NeverAbandoned,
       ReconcilePcs, FinalizePcs

\* A pass that ends with a requeue, leaving the tenant and its cached copy.
LEMMA RequeuedStep ==
    ASSUME TypeOK, FinalizerInv, Done(TRUE),
           UNCHANGED <<cr, seenCR>>, crEvent => crEvent'
    PROVE  FinalizerInv'
BY DEF Done, FinalizerInv, CopiesAreCurrent, FinalizerGoesOnLive, TypeOK,
       CacheKnowsFinalizer, Owned, PassesAreJustified, NeverAbandoned,
       ReconcilePcs, FinalizePcs

\* Writing an object never drops a wakeup.
LEMMA WriteWakes ==
    ASSUME TypeOK, \/ UNCHANGED <<api, queued>>
                   \/ \E new : Write(new)
    PROVE  queued => queued'
BY DEF Write, TypeOK

\* Starting a pass keeps the invariant: the tenant it copies is the cached
\* one, and a pass that returns at once has nothing left to do or an event to come.
LEMMA StartReconcileInv ==
    TypeOK /\ FinalizerInv /\ StartReconcile => FinalizerInv'
<1> SUFFICES ASSUME TypeOK, FinalizerInv, StartReconcile
             PROVE  FinalizerInv'
  OBVIOUS
<1> USE DEF FinalizerInv, CopiesAreCurrent, FinalizerGoesOnLive, TypeOK,
            CacheKnowsFinalizer, Owned, PassesAreJustified, NeverAbandoned,
            ReconcilePcs, FinalizePcs, crVars, seenVars
<1>1. UNCHANGED <<cr, crEvent, seenCR>> /\ pc = "idle"
  BY DEF StartReconcile
<1>2. CASE Done(TRUE)
  BY <1>1, <1>2 DEF Done
<1>3. CASE /\ Done(FALSE)
           /\ ~seenCR.present \/ (seenCR.deleting /\ ~seenCR.fin)
  BY <1>1, <1>3 DEF Done
<1>4. CASE /\ seenCR.present
           /\ ~seenCR.deleting \/ seenCR.fin
           /\ pc' = CASE seenCR.deleting -> "finPatch"
                      [] ~seenCR.deleting /\ ~seenCR.fin -> "addFin"
                      [] OTHER -> "parent"
           /\ my' = seenCR /\ rvOK' = ~crEvent
  <2>1. CASE seenCR.deleting /\ pc' = "finPatch"
    BY <1>1, <1>4, <2>1
  <2>2. CASE ~seenCR.deleting /\ ~seenCR.fin /\ pc' = "addFin"
    BY <1>1, <1>4, <2>2
  <2>3. CASE ~seenCR.deleting /\ seenCR.fin /\ pc' = "parent"
    BY <1>1, <1>4, <2>3
  <2> QED
    BY <1>4, <2>1, <2>2, <2>3
<1> QED
  BY <1>2, <1>3, <1>4 DEF StartReconcile

\* Adding the finalizer keeps the invariant: the Update conflicts unless the
\* tenant it read is the live one.
LEMMA AddFinalizerInv ==
    TypeOK /\ FinalizerInv /\ AddFinalizer => FinalizerInv'
<1> SUFFICES ASSUME TypeOK, FinalizerInv, AddFinalizer
             PROVE  FinalizerInv'
  OBVIOUS
<1>1. Done(TRUE) /\ pc = "addFin" /\ UNCHANGED <<seenCR, queued>>
  BY DEF AddFinalizer, seenVars
<1>2. CASE UNCHANGED <<cr, crEvent>>
  BY <1>1, <1>2, RequeuedStep
<1>3. CASE rvOK /\ cr' = [cr EXCEPT !.fin = TRUE] /\ crEvent' = TRUE
  <2>1. /\ cr' \in CRs /\ cr'.fin /\ cr'.present
        /\ cr'.deleting = cr.deleting /\ ~cr.deleting
        /\ seenCR' = cr
    BY <1>1, <1>3 DEF TypeOK, CRs, FinalizerInv, FinalizerGoesOnLive,
                      CopiesAreCurrent
  <2>2. pc' = "idle" /\ rvOK' = FALSE /\ timer' = TRUE
    BY <1>1 DEF Done
  <2>3. CopiesAreCurrent' /\ NeverAbandoned'
    BY <1>3, <2>2 DEF CopiesAreCurrent, NeverAbandoned
  <2>4. FinalizerGoesOnLive' /\ CacheKnowsFinalizer'
    BY <1>1, <2>1, <2>2 DEF FinalizerGoesOnLive, CacheKnowsFinalizer, Owned
  <2>5. PassesAreJustified'
    BY <2>2 DEF PassesAreJustified, ReconcilePcs, FinalizePcs
  <2> QED
    BY <2>3, <2>4, <2>5 DEF FinalizerInv
<1> QED
  BY <1>2, <1>3 DEF AddFinalizer

\* The steps that provision.
Provision == \/ ResolveParent
             \/ NamespaceReconcile \/ NamespaceHealthcheck
             \/ SecretReconcile \/ SecretHealthcheck
             \/ DatabaseReconcile \/ DatabaseHealthcheck
             \/ ScaleToZero \/ ReconcileDeployment
             \/ ReconcileService \/ ServiceHealthcheck
             \/ RoutingReconcile \/ RemoveRoute \/ RoutingHealthcheck

\* Each of them goes on or hands over to the status patch, and writes at most
\* one object.
LEMMA ProvisionStep ==
    ASSUME Provision
    PROVE  /\ ComponentFrame
           /\ pc \in ReconcilePcs /\ pc' \in ReconcilePcs \cup {"patch"}
           /\ \/ UNCHANGED <<api, queued>>
              \/ \E new : Write(new)
<1>1. ASSUME NEW k, NEW built, NEW next \in ReconcilePcs, NEW c,
             CreateIfMissing(k, built, next, c)
      PROVE  /\ ComponentFrame
             /\ pc' \in ReconcilePcs \cup {"patch"}
             /\ \/ UNCHANGED <<api, queued>>
                \/ \E new : Write(new)
  BY <1>1 DEF CreateIfMissing, StopProvisioning
<1>2. ASSUME NEW healthy, NEW next \in ReconcilePcs, NEW c,
             CheckHealth(healthy, next, c)
      PROVE  /\ ComponentFrame /\ UNCHANGED <<api, queued>>
             /\ pc' \in ReconcilePcs \cup {"patch"}
  BY <1>2 DEF CheckHealth, StopProvisioning
<1>3. CASE NamespaceReconcile \/ SecretReconcile \/ DatabaseReconcile
  BY <1>1, <1>3
  DEF NamespaceReconcile, SecretReconcile, DatabaseReconcile, ReconcilePcs
<1>4. CASE NamespaceHealthcheck \/ SecretHealthcheck \/ DatabaseHealthcheck
  BY <1>2, <1>4
  DEF NamespaceHealthcheck, SecretHealthcheck, DatabaseHealthcheck,
      ReconcilePcs
<1>5. CASE ScaleToZero \/ ReconcileDeployment \/ ReconcileService
  BY <1>5 DEF ScaleToZero, ReconcileDeployment, ReconcileService, EndService,
              ReconcilePcs
<1>6. CASE ServiceHealthcheck \/ RoutingHealthcheck \/ ResolveParent
  BY <1>6 DEF ServiceHealthcheck, RoutingHealthcheck, ResolveParent,
              EndService, EndRouting, ReconcilePcs
<1>7. CASE RoutingReconcile \/ RemoveRoute
  BY <1>7 DEF RoutingReconcile, RemoveRoute, deleteHTTPRoute, EndRouting,
              ReconcilePcs
<1> QED
  BY <1>3, <1>4, <1>5, <1>6, <1>7 DEF Provision

\* Provisioning keeps the invariant.
LEMMA ProvisionInv ==
    TypeOK /\ FinalizerInv /\ Provision => FinalizerInv'
<1> SUFFICES ASSUME TypeOK, FinalizerInv, Provision PROVE FinalizerInv'
  OBVIOUS
<1>1. UNCHANGED <<cr, crEvent, seenCR, my, rvOK, timer>>
  BY ProvisionStep DEF ComponentFrame, crVars, seenVars
<1> QED
  BY <1>1, ProvisionStep, WriteWakes, QuietStep

\* The status patch keeps the invariant.
LEMMA PatchStatusInv ==
    TypeOK /\ FinalizerInv /\ PatchStatus => FinalizerInv'
<1> SUFFICES ASSUME TypeOK, FinalizerInv, PatchStatus PROVE FinalizerInv'
  OBVIOUS
<1>1. crEvent => crEvent'
  BY DEF PatchStatus, ApplyPatch
<1> QED
  BY <1>1, RequeuedStep DEF PatchStatus, seenVars

\* Marking the tenant as Deleting keeps the invariant: a patch answered with
\* a recreated tenant gives the worker one that has no finalizer to remove.
LEMMA MarkDeletingInv ==
    TypeOK /\ FinalizerInv /\ MarkDeleting => FinalizerInv'
<1> SUFFICES ASSUME TypeOK, FinalizerInv, MarkDeleting PROVE FinalizerInv'
  OBVIOUS
<1>1. /\ pc = "finPatch" /\ pc' = "finParent"
      /\ UNCHANGED <<cr, seenCR, queued, timer>>
  BY DEF MarkDeleting, seenVars, queueVars
<1>2. crEvent => crEvent'
  BY DEF MarkDeleting, ApplyPatch
<1>3. rvOK' => my' = cr
  BY DEF MarkDeleting, FinalizerInv, CopiesAreCurrent
<1> QED
  BY <1>1, <1>2, <1>3
  DEF FinalizerInv, CopiesAreCurrent, FinalizerGoesOnLive, TypeOK,
      CacheKnowsFinalizer, Owned, PassesAreJustified, NeverAbandoned,
      ReconcilePcs, FinalizePcs

\* The steps that clean up.
CleanUp == \/ FinalizeParent \/ FinalizeRouting
           \/ DatabaseFinalize \/ NamespaceFinalize

\* A cleanup step of finalize changes only objects, and goes on or requeues.
LEMMA CleanUpStep ==
    ASSUME CleanUp
    PROVE  /\ FinalizeFrame /\ pc \in FinalizePcs
           /\ Done(TRUE) \/ \E next \in FinalizePcs : GoOn(next)
           /\ \/ UNCHANGED <<api, queued>>
              \/ \E new : Write(new)
<1>1. ASSUME NEW k, NEW left, NEW next \in FinalizePcs,
             FinalizeDelete(k, left, next)
      PROVE  /\ FinalizeFrame
             /\ Done(TRUE) \/ GoOn(next)
             /\ \/ UNCHANGED <<api, queued>>
                \/ \E new : Write(new)
  BY <1>1 DEF FinalizeDelete
<1>2. CASE DatabaseFinalize
  <2>1. {"finDatabase", "finJob", "finNs"} \subseteq FinalizePcs
    BY DEF FinalizePcs
  <2>2. \/ /\ pc = "finDatabase"
           /\ \E left : FinalizeDelete(DATABASE, left, "finJob")
        \/ pc = "finJob" /\ FinalizeDelete(JOB, "absent", "finNs")
    BY <1>2 DEF DatabaseFinalize
  <2>3. CASE /\ pc = "finDatabase"
             /\ \E left : FinalizeDelete(DATABASE, left, "finJob")
    <3> PICK left : FinalizeDelete(DATABASE, left, "finJob")
      BY <2>3
    <3>1. /\ FinalizeFrame
          /\ Done(TRUE) \/ GoOn("finJob")
          /\ \/ UNCHANGED <<api, queued>>
             \/ \E new : Write(new)
      BY <1>1, <2>1
    <3> QED
      BY <2>3, <3>1 DEF FinalizePcs
  <2>4. CASE pc = "finJob" /\ FinalizeDelete(JOB, "absent", "finNs")
    <3>1. /\ FinalizeFrame
          /\ Done(TRUE) \/ GoOn("finNs")
          /\ \/ UNCHANGED <<api, queued>>
             \/ \E new : Write(new)
      BY <1>1, <2>1, <2>4
    <3> QED
      BY <2>4, <3>1 DEF FinalizePcs
  <2> QED
    BY <2>2, <2>3, <2>4
<1>3. CASE FinalizeParent
  <2>1. /\ FinalizeFrame /\ pc = "finParent" /\ UNCHANGED <<api, queued>>
        /\ GoOn("finRoute") \/ GoOn("finAbandon")
    BY <1>3 DEF FinalizeParent
  <2> QED
    BY <2>1 DEF FinalizePcs
<1>4. CASE FinalizeRouting
  BY <1>4 DEF FinalizeRouting, deleteHTTPRoute, FinalizePcs
<1>5. CASE NamespaceFinalize
  BY <1>5 DEF NamespaceFinalize, FinalizePcs
<1> QED
  BY <1>2, <1>3, <1>4, <1>5 DEF CleanUp

\* The cleanup of finalize keeps the invariant.
LEMMA CleanUpInv ==
    TypeOK /\ FinalizerInv /\ CleanUp => FinalizerInv'
<1> SUFFICES ASSUME TypeOK, FinalizerInv, CleanUp PROVE FinalizerInv'
  OBVIOUS
<1>1. UNCHANGED <<cr, crEvent, seenCR>> /\ (queued => queued')
  BY CleanUpStep, WriteWakes DEF FinalizeFrame, crVars, seenVars
<1>2. CASE Done(TRUE)
  BY <1>1, <1>2, RequeuedStep
<1>3. CASE \E next \in FinalizePcs : GoOn(next)
  BY <1>1, <1>3, CleanUpStep, QuietStep DEF GoOn
<1> QED
  BY <1>2, <1>3, CleanUpStep

\* Removing the finalizer keeps the invariant: either the Update conflicts and
\* the pass is retried, or the tenant is gone or waits for somebody else.
LEMMA RemoveFinalizerInv ==
    TypeOK /\ FinalizerInv /\ RemoveFinalizer => FinalizerInv'
<1> SUFFICES ASSUME TypeOK, FinalizerInv, RemoveFinalizer
             PROVE  FinalizerInv'
  OBVIOUS
<1> PICK out \in {"ok", "undone", "lost"} :
       /\ IF rvOK /\ my.fin /\ out # "undone"
          THEN /\ cr' = WithoutFinalizer(cr)
               /\ crEvent' = TRUE
          ELSE UNCHANGED crVars
       /\ Done(out # "ok" \/ ~rvOK)
  BY DEF RemoveFinalizer
<1>1. /\ pc \in FinalizePcs /\ pc' = "idle" /\ rvOK' = FALSE
      /\ UNCHANGED <<seenCR, queued>>
  BY DEF RemoveFinalizer, Done, seenVars, FinalizePcs
<1>2. PassesAreJustified'
  BY <1>1 DEF PassesAreJustified, ReconcilePcs, FinalizePcs
<1>3. ~Owned(seenCR)
  BY <1>1 DEF FinalizerInv, PassesAreJustified
<1>4. CASE cr' = WithoutFinalizer(cr) /\ crEvent' = TRUE
  <2>1. ~cr'.fin
    BY <1>4 DEF WithoutFinalizer, NoCR, TypeOK, CRs
  <2> QED
    BY <1>1, <1>2, <1>3, <1>4, <2>1
    DEF FinalizerInv, CopiesAreCurrent, FinalizerGoesOnLive,
        CacheKnowsFinalizer, Owned, NeverAbandoned
<1>5. CASE UNCHANGED crVars
  <2>1. UNCHANGED <<cr, crEvent>>
    BY <1>5 DEF crVars
  <2>2. NeverAbandoned'
    <3>1. CASE out # "ok" \/ ~rvOK
      <4>1. timer' = TRUE
        BY <3>1 DEF Done
      <4> QED
        BY <4>1 DEF NeverAbandoned
    <3>2. CASE rvOK /\ ~my.fin
      <4>1. cr.present => queued \/ crEvent
        BY <1>1, <3>2
        DEF FinalizerInv, CopiesAreCurrent, PassesAreJustified
      <4> QED
        BY <1>1, <2>1, <4>1 DEF NeverAbandoned
    <3>3. CASE out = "ok" /\ rvOK /\ my.fin
      <4>1. crEvent' = TRUE
        BY <3>3
      <4> QED
        BY <4>1 DEF NeverAbandoned
    <3> QED
      BY <3>1, <3>2, <3>3
  <2> QED
    BY <1>1, <1>2, <2>1, <2>2
    DEF FinalizerInv, CopiesAreCurrent, FinalizerGoesOnLive,
        CacheKnowsFinalizer, Owned
<1> QED
  BY <1>4, <1>5

\* Timers, informers and restarts keep the invariant.
LEMMA QueueInv ==
    /\ TypeOK /\ FinalizerInv
    /\ \/ TimerFires \/ DeliverTenant \/ Restart
       \/ \E kind \in Lagging : Deliver(kind)
    => FinalizerInv'
<1> SUFFICES ASSUME TypeOK, FinalizerInv,
                    \/ TimerFires \/ DeliverTenant \/ Restart
                    \/ \E kind \in Lagging : Deliver(kind)
             PROVE  FinalizerInv'
  OBVIOUS
<1> USE DEF FinalizerInv, CopiesAreCurrent, FinalizerGoesOnLive, TypeOK,
            CacheKnowsFinalizer, Owned, PassesAreJustified, NeverAbandoned,
            ReconcilePcs, FinalizePcs, crVars, seenVars, workerVars
<1>1. CASE TimerFires
  BY <1>1 DEF TimerFires
<1>2. CASE DeliverTenant
  BY <1>2 DEF DeliverTenant
<1>3. CASE Restart
  BY <1>3 DEF Restart
<1>4. CASE \E kind \in Lagging : Deliver(kind)
  BY <1>4, QuietStep DEF Deliver
<1> QED
  BY <1>1, <1>2, <1>3, <1>4

\* Somebody else's change of the SupabaseTenant: the object keeps the
\* operator's finalizer and, with it, its deletion mark, or it had none.
LEMMA ChangeTenantInv ==
    ASSUME TypeOK, FinalizerInv, NEW new \in CRs, ChangeTenant(new),
           cr.fin => new.fin /\ new.present /\ (cr.deleting => new.deleting),
           ~cr.fin => ~new.fin
    PROVE  FinalizerInv'
<1>1. /\ cr' = new /\ crEvent' = TRUE /\ rvOK' = FALSE
      /\ UNCHANGED <<seenCR, pc, my, timer, queued>>
  BY DEF ChangeTenant, UserFrame, seenVars
<1> QED
  BY <1>1
  DEF FinalizerInv, CopiesAreCurrent, FinalizerGoesOnLive, TypeOK, CRs,
      CacheKnowsFinalizer, Owned, PassesAreJustified, NeverAbandoned,
      ReconcilePcs, FinalizePcs

\* What users do keeps the invariant: every change of the tenant is an event.
LEMMA UserInv == TypeOK /\ FinalizerInv /\ User => FinalizerInv'
<1> SUFFICES ASSUME TypeOK, FinalizerInv, User PROVE FinalizerInv'
  OBVIOUS
<1>1. CASE CreateTenant
  <2> PICK s \in BOOLEAN :
         ChangeTenant([NoCR EXCEPT !.present = TRUE, !.susp = s, !.gen = 1])
    BY <1>1 DEF CreateTenant
  <2>1. ~cr.present /\ ~cr.fin
    BY <1>1 DEF CreateTenant, FinalizerInv, FinalizerGoesOnLive
  <2>2. /\ [NoCR EXCEPT !.present = TRUE, !.susp = s, !.gen = 1] \in CRs
        /\ ~[NoCR EXCEPT !.present = TRUE, !.susp = s, !.gen = 1].fin
    BY DEF NoCR, CRs
  <2> QED
    BY <2>1, <2>2, ChangeTenantInv
<1>2. CASE DeleteTenant
  <2> PICK policy \in Policies :
         ChangeTenant(IF cr.fin \/ policy = "foreground"
                      THEN [cr EXCEPT !.deleting = TRUE,
                                      !.hold = (policy = "foreground")]
                      ELSE NoCR)
    BY <1>2 DEF DeleteTenant
  <2> DEFINE b == policy = "foreground"
             marked == [cr EXCEPT !.deleting = TRUE, !.hold = b]
  <2>1. /\ marked \in CRs /\ marked.fin = cr.fin
        /\ marked.present = cr.present /\ marked.deleting
    <3>1. b \in BOOLEAN
      OBVIOUS
    <3> HIDE DEF b
    <3> QED
      BY <3>1 DEF TypeOK, CRs
  <2>2. NoCR \in CRs /\ ~NoCR.fin
    BY EmptyTypes DEF NoCR
  <2>3. cr.present
    BY <1>2 DEF DeleteTenant
  <2>4. CASE cr.fin \/ b
    <3>1. ChangeTenant(marked)
      BY <2>4
    <3> QED
      BY <2>1, <2>3, <3>1, ChangeTenantInv
  <2>5. CASE ~(cr.fin \/ b)
    <3>1. ChangeTenant(NoCR)
      BY <2>5
    <3> QED
      BY <2>2, <2>5, <3>1, ChangeTenantInv
  <2> QED
    BY <2>4, <2>5
<1>3. CASE ToggleSuspended
  <2> DEFINE toggled == [cr EXCEPT !.susp = ~cr.susp, !.gen = cr.gen + 1]
  <2>1. toggled \in CRs
    <3>1. \A b \in BOOLEAN, n \in Nat :
             [cr EXCEPT !.susp = b, !.gen = n] \in CRs
      BY DEF TypeOK, CRs
    <3>2. (~cr.susp) \in BOOLEAN /\ cr.gen + 1 \in Nat
      BY DEF TypeOK, CRs
    <3> QED
      BY <3>1, <3>2, Zenon
  <2>2. /\ toggled.fin = cr.fin /\ toggled.present = cr.present
        /\ toggled.deleting = cr.deleting
    BY DEF TypeOK, CRs
  <2>3. ChangeTenant(toggled) /\ cr.present
    BY <1>3 DEF ToggleSuspended
  <2> QED
    BY <2>1, <2>2, <2>3, ChangeTenantInv
<1>4. CASE ChangeParent
  <2>1. UNCHANGED <<cr, crEvent, seenCR, my, rvOK, timer, pc>>
    BY <1>4 DEF ChangeParent, UserFrame, crVars, seenVars
  <2>2. queued => queued'
    BY <1>4, WriteWakes DEF ChangeParent
  <2> QED
    BY <2>1, <2>2, QuietStep
<1> QED
  BY <1>1, <1>2, <1>3, <1>4 DEF User

\* What the other controllers of the cluster do keeps the invariant.
LEMMA ClusterInv == TypeOK /\ FinalizerInv /\ Cluster => FinalizerInv'
<1> SUFFICES ASSUME TypeOK, FinalizerInv, Cluster PROVE FinalizerInv'
  OBVIOUS
<1>1. CASE ReleaseForeground
  <2>1. ChangeTenant(IF cr.fin THEN [cr EXCEPT !.hold = FALSE] ELSE NoCR)
    BY <1>1 DEF ReleaseForeground
  <2>2. CASE cr.fin
    <3>1. /\ [cr EXCEPT !.hold = FALSE] \in CRs
          /\ [cr EXCEPT !.hold = FALSE].fin
          /\ [cr EXCEPT !.hold = FALSE].present = cr.present
          /\ [cr EXCEPT !.hold = FALSE].deleting = cr.deleting
      BY <2>2 DEF TypeOK, CRs
    <3>2. cr.present
      BY <1>1 DEF ReleaseForeground
    <3> QED
      BY <2>1, <2>2, <3>1, <3>2, ChangeTenantInv
  <2>3. CASE ~cr.fin
    BY <2>1, <2>3, EmptyTypes, ChangeTenantInv DEF NoCR
  <2> QED
    BY <2>2, <2>3
<1>2. CASE ~ReleaseForeground
  <2>1. ClusterFrame /\ (UNCHANGED queued \/ \E new : Write(new))
    BY <1>2 DEF Cluster, ClusterIsCollected, DatabaseIsApplied,
                DatabaseIsRefused, DatabaseIsGone, JobEnds, PodsAreReady,
                PodsFail, NamespaceIsGone
  <2>2. /\ UNCHANGED <<cr, crEvent, seenCR, my, rvOK, timer, pc>>
        /\ queued => queued'
    BY <2>1, WriteWakes DEF ClusterFrame, crVars, seenVars, workerVars
  <2> QED
    BY <2>2, QuietStep
<1> QED
  BY <1>1, <1>2

\* Every step keeps the invariant.
LEMMA NextFinalizerInv ==
    TypeOK /\ FinalizerInv /\ [Next]_vars => FinalizerInv'
<1> SUFFICES ASSUME TypeOK, FinalizerInv, [Next]_vars PROVE FinalizerInv'
  OBVIOUS
<1>1. CASE WorkerStep
  BY <1>1, AddFinalizerInv, ProvisionInv, PatchStatusInv, MarkDeletingInv,
     CleanUpInv, RemoveFinalizerInv DEF WorkerStep, Provision, CleanUp
<1>2. CASE UNCHANGED vars
  BY <1>2, QuietStep DEF vars, crVars, seenVars, workerVars, queueVars
<1> QED
  BY <1>1, <1>2, StartReconcileInv, QueueInv, UserInv, ClusterInv DEF Next

\* The invariant holds in every state, for every value of the constants.
THEOREM FinalizerInvariant == Spec => []FinalizerInv
<1>1. Init => TypeOK /\ FinalizerInv
  BY InitType, InitFinalizerInv
<1>2. TypeOK /\ FinalizerInv /\ [Next]_vars => (TypeOK /\ FinalizerInv)'
  BY NextType, NextFinalizerInv
<1> QED
  BY <1>1, <1>2, PTL DEF Spec

\* No lost wakeup: a SupabaseTenant that needs the operator always has a
\* wakeup coming, however many services there are, whichever caches lag and
\* whatever fails.
THEOREM TenantNeverAbandoned == Spec => []NeverAbandoned
<1>1. FinalizerInv => NeverAbandoned
  BY DEF FinalizerInv
<1> QED
  BY <1>1, FinalizerInvariant, PTL

-----------------------------------------------------------------------------
(* What a step may never do. *)

Created(k) == api[k] = "absent" /\ api'[k] # "absent"
CreatesNothing == \A k \in Keys \ {SUPABASE} : ~Created(k)

\* Writing one object that exists, or the parent, or the absence of one.
LEMMA WriteCreatesNothing ==
    ASSUME TypeOK, NEW k \in Keys, NEW v, Write([api EXCEPT ![k] = v]),
           api[k] # "absent" \/ k = SUPABASE \/ v = "absent"
    PROVE  CreatesNothing
BY DEF TypeOK, Write, CreatesNothing, Created

\* The cleanup of finalize creates nothing.
LEMMA CleanUpCreatesNothing == TypeOK /\ CleanUp => CreatesNothing
<1> SUFFICES ASSUME TypeOK, CleanUp PROVE CreatesNothing
  OBVIOUS
<1>1. CASE UNCHANGED api
  BY <1>1 DEF CreatesNothing, Created
<1>2. ASSUME NEW k \in Keys, NEW left, NEW next, FinalizeDelete(k, left, next)
      PROVE  CreatesNothing
  <2>1. \/ UNCHANGED api
        \/ api[k] # "absent" /\ Write([api EXCEPT ![k] = left])
    BY <1>2 DEF FinalizeDelete
  <2> QED
    BY <1>1, <2>1, WriteCreatesNothing
<1>3. CASE DatabaseFinalize
  <2>1. \/ \E left : FinalizeDelete(DATABASE, left, "finJob")
        \/ FinalizeDelete(JOB, "absent", "finNs")
    BY <1>3 DEF DatabaseFinalize
  <2> QED
    BY <1>2, <2>1, KeyTypes
<1>4. CASE FinalizeRouting
  <2>1. UNCHANGED api \/ Write([api EXCEPT ![ROUTE] = "absent"])
    BY <1>4 DEF FinalizeRouting, deleteHTTPRoute
  <2> QED
    BY <1>1, <2>1, KeyTypes, WriteCreatesNothing
<1>5. CASE NamespaceFinalize
  <2>1. \/ UNCHANGED api
        \/ api[NS] # "absent" /\ Write([api EXCEPT ![NS] = "terminating"])
    BY <1>5 DEF NamespaceFinalize
  <2> QED
    BY <1>1, <2>1, KeyTypes, WriteCreatesNothing
<1>6. CASE FinalizeParent
  BY <1>1, <1>6 DEF FinalizeParent
<1> QED
  BY <1>3, <1>4, <1>5, <1>6 DEF CleanUp

\* The other controllers of the cluster create nothing.
LEMMA ClusterCreatesNothing == TypeOK /\ Cluster => CreatesNothing
<1> SUFFICES ASSUME TypeOK, Cluster PROVE CreatesNothing
  OBVIOUS
<1>1. CASE ReleaseForeground
  BY <1>1 DEF ReleaseForeground, ChangeTenant, CreatesNothing, Created
<1>2. CASE DatabaseIsApplied \/ DatabaseIsRefused \/ DatabaseIsGone
  <2>1. \E v : /\ Write([api EXCEPT ![DATABASE] = v])
               /\ api[DATABASE] # "absent"
    BY <1>2 DEF DatabaseIsApplied, DatabaseIsRefused, DatabaseIsGone
  <2> QED
    BY <2>1, KeyTypes, WriteCreatesNothing
<1>3. CASE JobEnds
  <2>1. \E v : Write([api EXCEPT ![JOB] = v]) /\ api[JOB] # "absent"
    BY <1>3 DEF JobEnds
  <2> QED
    BY <2>1, KeyTypes, WriteCreatesNothing
<1>4. CASE \E i \in Services : PodsAreReady(i) \/ PodsFail(i)
  <2>1. \E i \in Services : \E v :
           Write([api EXCEPT ![Deploy(i)] = v]) /\ api[Deploy(i)] # "absent"
    BY <1>4 DEF PodsAreReady, PodsFail
  <2> QED
    BY <2>1, KeyTypes, WriteCreatesNothing
<1>5. CASE NamespaceIsGone
  BY <1>5 DEF NamespaceIsGone, Write, TypeOK, CreatesNothing, Created
<1>6. CASE ClusterIsCollected
  <2>1. \/ UNCHANGED api
        \/ \E v : /\ Write([api EXCEPT ![DATABASE] = v])
                  /\ api[DATABASE] # "absent"
    BY <1>6 DEF ClusterIsCollected
  <2>2. CASE UNCHANGED api
    BY <2>2 DEF CreatesNothing, Created
  <2> QED
    BY <2>1, <2>2, KeyTypes, WriteCreatesNothing
<1> QED
  BY <1>1, <1>2, <1>3, <1>4, <1>5, <1>6 DEF Cluster

\* Only the provisioning steps create anything but the parent.
LEMMA OnlyProvisionCreates ==
    TypeOK /\ [Next]_vars /\ ~Provision => CreatesNothing
<1> SUFFICES ASSUME TypeOK, [Next]_vars, ~Provision PROVE CreatesNothing
  OBVIOUS
<1>1. CASE UNCHANGED api
  BY <1>1 DEF CreatesNothing, Created
<1>2. CASE WorkerStep
  <2>1. CASE \/ AddFinalizer \/ PatchStatus
             \/ MarkDeleting \/ RemoveFinalizer
    BY <1>1, <2>1
    DEF AddFinalizer, PatchStatus, MarkDeleting, RemoveFinalizer, kubeVars
  <2> QED
    BY <1>2, <2>1, CleanUpCreatesNothing DEF WorkerStep, Provision, CleanUp
<1>3. CASE User
  <2>1. CASE ChangeParent
    <3>1. \E v : Write([api EXCEPT ![SUPABASE] = v])
      BY <2>1 DEF ChangeParent
    <3> QED
      BY <3>1, KeyTypes, WriteCreatesNothing
  <2>2. CASE CreateTenant \/ DeleteTenant \/ ToggleSuspended
    BY <1>1, <2>2
    DEF CreateTenant, DeleteTenant, ToggleSuspended, ChangeTenant
  <2> QED
    BY <1>3, <2>1, <2>2 DEF User
<1>4. CASE \/ StartReconcile \/ TimerFires \/ DeliverTenant \/ Restart
           \/ \E kind \in Lagging : Deliver(kind)
  BY <1>1, <1>4
  DEF StartReconcile, TimerFires, DeliverTenant, Restart, Deliver, kubeVars
<1>5. CASE UNCHANGED vars
  BY <1>1, <1>5 DEF vars, kubeVars
<1> QED
  BY <1>2, <1>3, <1>4, <1>5, ClusterCreatesNothing DEF Next

\* The operator creates objects only for a SupabaseTenant that exists and
\* carries the finalizer, however old its copy of the tenant is.
THEOREM TenantCreatesUnderFinalizer == Spec => CreatesUnderFinalizer
<1> DEFINE A == \A k \in Keys \ {SUPABASE} :
                   api[k] = "absent" /\ api'[k] # "absent"
                       => cr.present /\ cr.fin
<1>1. TypeOK /\ FinalizerInv /\ [Next]_vars => [A]_vars
  <2> SUFFICES ASSUME TypeOK, FinalizerInv, [Next]_vars PROVE A
    OBVIOUS
  <2>1. CASE Provision
    BY <2>1, ProvisionStep
    DEF FinalizerInv, PassesAreJustified, FinalizerGoesOnLive
  <2>2. CASE ~Provision
    BY <2>2, OnlyProvisionCreates DEF CreatesNothing, Created
  <2> QED
    BY <2>1, <2>2
<1> QED
  BY <1>1, TypeCorrect, FinalizerInvariant, PTL
  DEF Spec, CreatesUnderFinalizer

\* The operator's finalizer never leaves a SupabaseTenant that is not being
\* deleted, whatever the copy is that finalize works on.
THEOREM FinalizerStaysOnLive == Spec => FinalizerOutlivesDeletion
<1> DEFINE A == cr.fin /\ ~cr'.fin => cr.deleting
<1>1. TypeOK /\ FinalizerInv /\ [Next]_vars => [A]_vars
  <2> SUFFICES ASSUME TypeOK, FinalizerInv, [Next]_vars PROVE A
    OBVIOUS
  <2>1. CASE UNCHANGED cr
    BY <2>1
  <2>2. CASE RemoveFinalizer
    BY <2>2 DEF RemoveFinalizer, FinalizerInv, PassesAreJustified, FinalizePcs
  <2>3. CASE AddFinalizer
    BY <2>3 DEF AddFinalizer, TypeOK, CRs
  <2>4. CASE User \/ Cluster
    <3>1. CASE CreateTenant
      BY <3>1 DEF CreateTenant, FinalizerInv, FinalizerGoesOnLive
    <3>2. CASE DeleteTenant \/ ToggleSuspended \/ ReleaseForeground
      BY <3>2 DEF DeleteTenant, ToggleSuspended, ReleaseForeground,
                  ChangeTenant, TypeOK, CRs
    <3>3. CASE ChangeParent
      BY <2>1, <3>3 DEF ChangeParent, crVars
    <3>4. CASE Cluster /\ ~ReleaseForeground
      BY <2>1, <3>4
      DEF Cluster, ClusterIsCollected, DatabaseIsApplied, DatabaseIsRefused,
          DatabaseIsGone, JobEnds, PodsAreReady, PodsFail, NamespaceIsGone,
          ClusterFrame, crVars
    <3> QED
      BY <2>4, <3>1, <3>2, <3>3, <3>4 DEF User
  <2>5. CASE Provision \/ CleanUp \/ PatchStatus \/ MarkDeleting
    BY <2>1, <2>5, ProvisionStep, CleanUpStep
    DEF ComponentFrame, FinalizeFrame, PatchStatus, MarkDeleting, crVars
  <2>6. CASE \/ StartReconcile \/ TimerFires \/ DeliverTenant \/ Restart
             \/ \E kind \in Lagging : Deliver(kind)
    BY <2>1, <2>6
    DEF StartReconcile, TimerFires, DeliverTenant, Restart, Deliver, crVars
  <2>7. CASE UNCHANGED vars
    BY <2>1, <2>7 DEF vars, crVars
  <2> QED
    BY <2>2, <2>3, <2>4, <2>5, <2>6, <2>7
    DEF Next, WorkerStep, Provision, CleanUp
<1> QED
  BY <1>1, TypeCorrect, FinalizerInvariant, PTL
  DEF Spec, FinalizerOutlivesDeletion
=============================================================================
