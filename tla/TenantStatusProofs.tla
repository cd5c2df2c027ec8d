-------------------------- MODULE TenantStatusProofs --------------------------
(***************************************************************************)
(* What the status of a tenant says of its objects, and when services are  *)
(* deployed: theorems about TenantReconciler and TenantHistory, for every  *)
(* value of the constants, whichever caches lag and whatever fails.        *)
(***************************************************************************)
EXTENDS TenantOutcomeProofs

-----------------------------------------------------------------------------
(* The objects that a status speaks of, and what is remembered of them. *)

\* The objects of a tenant are different ones.
LEMMA ObjectKeys ==
    /\ {NS, NP, JWT, DBC, DATABASE, JOB, ROUTE, SUPABASE} \subseteq Keys
    /\ \A i \in Services :
          /\ Deploy(i) \in Keys /\ Svc(i) \in Keys
          /\ Deploy(i) \notin {NS, NP, JWT, DBC, DATABASE, JOB, ROUTE, SUPABASE}
          /\ Svc(i) \notin {NS, NP, JWT, DBC, DATABASE, JOB, ROUTE, SUPABASE}
          /\ \A j \in Services : /\ Deploy(i) # Svc(j)
                                 /\ Deploy(i) = Deploy(j) => i = j
                                 /\ Svc(i) = Svc(j) => i = j
    /\ ROUTE \notin {NS, NP, JWT, DBC, DATABASE, JOB, SUPABASE}
    /\ NS \notin {NP, JWT, DBC, DATABASE, JOB, SUPABASE}
    /\ JOB \notin {NP, JWT, DBC, DATABASE, SUPABASE}
BY DEF Keys, JOB, DATABASE, NS, NP, JWT, DBC, ROUTE, SUPABASE, Deploy, Svc

\* In the life of a tenant nothing is forgotten, and each wrong read counts.
LEMMA Remembers ==
    ASSUME Remember, cr.fin
    PROVE  /\ misread \subseteq misread'
           /\ \A kind \in MisreadKinds :
                 Misreads(kind) => <<kind, my.gen>> \in misread'
BY DEF Remember, NewLife

\* So a pass that was right after a step was so before, and by the step.
LEMMA SureBefore ==
    ASSUME Remember, cr.fin, UNCHANGED my, NEW kinds \in SUBSET MisreadKinds,
           Sure(kinds)'
    PROVE  Sure(kinds) /\ \A kind \in kinds : ~Misreads(kind)
BY Remembers DEF Sure, Misled

\* And one that went by a wrong read once has done so for good.
LEMMA MisledAfter ==
    ASSUME Remember, cr.fin, cr'.gen = cr.gen, NEW kinds
    PROVE  Misled(kinds, cr.gen) => Misled(kinds, cr.gen)'
BY Remembers DEF Misled

\* A pass is about a tenant with the finalizer.
LEMMA PassHasFinalizer ==
    ASSUME FinalizerInv, GenerationInv
    PROVE  /\ InPass => cr.fin
           /\ Provision => cr.fin
BY ProvisionStep DEF FinalizerInv, PassesAreJustified, GenerationInv

-----------------------------------------------------------------------------
(* What a step does to the objects that a status speaks of. *)

\* Object k is the one object written, and becomes v.
Sets(k, v) == api' = [api EXCEPT ![k] = v]

Prerequisites == {NS, NP, JWT, DBC, DATABASE, JOB}

\* A provisioning step writes at most one object: it creates a prerequisite,
\* or does to the service it works on or to the route what the tenant it read
\* asks for.
LEMMA ProvisionSets ==
    ASSUME Provision
    PROVE  \/ UNCHANGED api
           \/ \E k \in Prerequisites : \E v : api[k] = "absent" /\ Sets(k, v)
           \/ pc = "deploy" /\ ~my.susp /\ Sets(Deploy(at), "pending")
           \/ pc = "deploy" /\ my.susp /\ Sets(Deploy(at), "zero")
           \/ Sets(Svc(at), "present")
           \/ ~my.susp /\ Sets(ROUTE, "present")
           \/ my.susp /\ Sets(ROUTE, "absent")
<1>1. ASSUME NEW k, NEW built, NEW next, NEW c,
             CreateIfMissing(k, built, next, c)
      PROVE  UNCHANGED api \/ (api[k] = "absent" /\ Sets(k, built.first))
  BY <1>1 DEF CreateIfMissing, Creatable, Write, Sets
<1>2. CASE NamespaceReconcile \/ SecretReconcile \/ DatabaseReconcile
  BY <1>1, <1>2
  DEF NamespaceReconcile, SecretReconcile, DatabaseReconcile, Prerequisites
<1>3. CASE \/ NamespaceHealthcheck \/ SecretHealthcheck \/ DatabaseHealthcheck
           \/ ServiceHealthcheck \/ RoutingHealthcheck \/ ResolveParent
  BY <1>3
  DEF NamespaceHealthcheck, SecretHealthcheck, DatabaseHealthcheck,
      ServiceHealthcheck, RoutingHealthcheck, ResolveParent, CheckHealth
<1>4. CASE ScaleToZero
  BY <1>4 DEF ScaleToZero, Write, Sets
<1>5. CASE ReconcileDeployment
  BY <1>5 DEF ReconcileDeployment, BuildDeployment, Write, Sets
<1>6. CASE ReconcileService
  BY <1>6 DEF ReconcileService, BuildService, Write, Sets
<1>7. CASE RoutingReconcile
  BY <1>7 DEF RoutingReconcile, buildHTTPRoute, Write, Sets
<1>8. CASE RemoveRoute
  BY <1>8 DEF RemoveRoute, deleteHTTPRoute, Write, Sets
<1> QED
  BY <1>2, <1>3, <1>4, <1>5, <1>6, <1>7, <1>8 DEF Provision

\* What that is for each object.
LEMMA ProvisionObjects ==
    ASSUME TypeOK, Provision
    PROVE  /\ \A i \in Services :
                 \/ api'[Deploy(i)] = api[Deploy(i)]
                 \/ /\ i = at /\ pc = "deploy"
                    /\ api'[Deploy(i)] = IF my.susp THEN "zero" ELSE "pending"
           /\ \A i \in Services : \/ api'[Svc(i)] = api[Svc(i)]
                                  \/ api'[Svc(i)] = "present"
           /\ \/ api'[ROUTE] = api[ROUTE]
              \/ api'[ROUTE] = IF my.susp THEN "absent" ELSE "present"
           /\ \A k \in {NS, JOB} : api[k] # "absent" => api'[k] = api[k]
<1> USE ObjectKeys
<1>1. \A k \in Keys : \A v : Sets(k, v) =>
         /\ api'[k] = v
         /\ \A o \in Keys \ {k} : api'[o] = api[o]
  BY DEF TypeOK, Sets
<1>2. at \in Services
  BY DEF TypeOK
<1>3. CASE UNCHANGED api
  BY <1>3
<1>4. CASE \E k \in Prerequisites : \E v : api[k] = "absent" /\ Sets(k, v)
  <2> PICK k \in Prerequisites : \E v : api[k] = "absent" /\ Sets(k, v)
    BY <1>4
  <2>1. \A o \in Keys \ {k} : api'[o] = api[o]
    BY <1>1 DEF Prerequisites
  <2> QED
    BY <2>1 DEF Prerequisites
<1>5. CASE /\ pc = "deploy"
           /\ Sets(Deploy(at), IF my.susp THEN "zero" ELSE "pending")
  BY <1>1, <1>2, <1>5
<1>6. CASE Sets(Svc(at), "present")
  BY <1>1, <1>2, <1>6
<1>7. CASE Sets(ROUTE, IF my.susp THEN "absent" ELSE "present")
  BY <1>1, <1>7
<1> QED
  BY <1>3, <1>4, <1>5, <1>6, <1>7, ProvisionSets

\* What users and the other controllers of the cluster leave as it is.
Undisturbed ==
    /\ api'[ROUTE] = api[ROUTE]
    /\ api[JOB] = "succeeded" => api'[JOB] = "succeeded"
    /\ \A i \in Services :
          /\ ~Runs(api[Deploy(i)]) => ~Runs(api'[Deploy(i)])
          /\ api'[Svc(i)] \in {api[Svc(i)], "absent"}
    /\ api[NS] = "active" =>
          /\ api'[NS] = "active"
          /\ \A i \in Services :
                /\ Runs(api[Deploy(i)]) => Runs(api'[Deploy(i)])
                /\ api'[Svc(i)] = api[Svc(i)]

\* They leave the objects of a tenant as they are, but for the pods and for a
\* namespace that was being deleted.
LEMMA SurroundingsUndisturbed ==
    ASSUME TypeOK, User \/ Cluster
    PROVE  Undisturbed
<1> USE DEF Undisturbed, Runs
<1> USE ObjectKeys
<1>1. \A k \in Keys : \A v : Sets(k, v) =>
         /\ api'[k] = v
         /\ \A o \in Keys \ {k} : api'[o] = api[o]
  BY DEF TypeOK, Sets
<1>2. CASE UNCHANGED api
  BY <1>2
<1>3. CASE \E k \in {SUPABASE, DATABASE} : \E v : Sets(k, v)
  BY <1>1, <1>3
<1>4. CASE JobEnds
  <2>1. api[JOB] = "pending" /\ \E v : Sets(JOB, v)
    BY <1>4 DEF JobEnds, Write, Sets
  <2> QED
    BY <1>1, <2>1
<1>5. CASE \E i \in Services : PodsAreReady(i) \/ PodsFail(i)
  <2> PICK i \in Services : PodsAreReady(i) \/ PodsFail(i)
    BY <1>5
  <2>1. \E v \in {"pending", "ready"} :
           api[Deploy(i)] \in {"pending", "ready"} /\ Sets(Deploy(i), v)
    BY DEF PodsAreReady, PodsFail, Write, Sets
  <2> QED
    BY <1>1, <2>1
<1>6. CASE NamespaceIsGone
  <2>1. /\ api[NS] = "terminating"
        /\ api' = [k \in Keys |-> IF k[1] \in NamespacedKinds \cup {"ns"}
                                  THEN "absent" ELSE api[k]]
    BY <1>6 DEF NamespaceIsGone, Write
  <2>2. ROUTE[1] = "route" /\ JOB[1] = "job"
    BY DEF ROUTE, JOB
  <2> QED
    BY <2>1, <2>2 DEF NamespacedKinds
<1>7. CASE User
  <2>1. CASE ChangeParent
    BY <1>3, <2>1 DEF ChangeParent, Write, Sets
  <2> QED
    BY <1>2, <1>7, <2>1
    DEF User, CreateTenant, DeleteTenant, ToggleSuspended, ChangeTenant
<1>8. CASE ReleaseForeground
  BY <1>2, <1>8 DEF ReleaseForeground, ChangeTenant
<1>9. CASE \/ DatabaseIsApplied \/ DatabaseIsRefused \/ DatabaseIsGone
           \/ ClusterIsCollected
  BY <1>2, <1>3, <1>9
  DEF DatabaseIsApplied, DatabaseIsRefused, DatabaseIsGone,
      ClusterIsCollected, Write, Sets
<1> QED
  BY <1>4, <1>5, <1>6, <1>7, <1>8, <1>9 DEF Cluster

\* The other steps write no object, unless they are part of finalize.
LEMMA OthersKeep ==
    ASSUME \/ StartReconcile \/ AddFinalizer \/ PatchStatus \/ MarkDeleting
           \/ RemoveFinalizer \/ TimerFires \/ DeliverTenant \/ Restart
           \/ \E kind \in Lagging : Deliver(kind)
           \/ UNCHANGED vars
    PROVE  UNCHANGED api
BY DEF StartReconcile, AddFinalizer, PatchStatus, MarkDeleting,
       RemoveFinalizer, TimerFires, DeliverTenant, Restart, Deliver, vars,
       kubeVars

-----------------------------------------------------------------------------
(* Services are deployed while the init Job has succeeded. *)

\* Every step keeps the gate.
LEMMA NextGateIsCurrent ==
    ASSUME TypeOK, FinalizerInv, GateIsCurrent, [HistoryNext]_hvars
    PROVE  GateIsCurrent'
<1> DEFINE past == ServicePcs \cup RoutePcs
<1>1. CASE UNCHANGED hvars
  BY <1>1 DEF hvars, vars, kubeVars, workerVars, GateIsCurrent, Sure, Misled
<1> SUFFICES ASSUME Next, Remember PROVE GateIsCurrent'
  BY <1>1 DEF HistoryNext
<1>2. {"job"} \in SUBSET MisreadKinds
  BY DEF MisreadKinds
<1>3. pc \in ReconcilePcs => cr.fin
  BY DEF FinalizerInv, PassesAreJustified
<1>4. past \subseteq ReconcilePcs
  BY DEF ServicePcs, RoutePcs, ReconcilePcs
<1>5. CASE /\ pc' \in past => pc \in past /\ UNCHANGED my
           /\ api[JOB] = "succeeded" => api'[JOB] = "succeeded"
  <2> SUFFICES ASSUME pc' \in past, Sure({"job"})'
               PROVE  api'[JOB] = "succeeded"
    BY DEF GateIsCurrent
  <2>1. Sure({"job"})
    BY <1>2, <1>3, <1>4, <1>5, SureBefore
  <2> QED
    BY <1>5, <2>1 DEF GateIsCurrent
<1>6. CASE Provision
  <2>1. api[JOB] = "succeeded" => api'[JOB] = "succeeded"
    BY <1>6, ProvisionObjects
  <2>2. UNCHANGED my /\ cr.fin
    BY <1>3, <1>6, ProvisionStep DEF ComponentFrame
  <2>3. CASE DatabaseHealthcheck
    <3> SUFFICES ASSUME pc' \in past, Sure({"job"})'
                 PROVE  api'[JOB] = "succeeded"
      BY DEF GateIsCurrent
    <3>1. pc = "dbHealth" /\ pc' = "deploy" /\ View(JOB) = "succeeded"
      BY <2>3 DEF DatabaseHealthcheck, CheckHealth, DatabaseHealthy,
                  StopProvisioning, ServicePcs, RoutePcs
    <3>2. ~Misreads("job")
      BY <1>2, <2>2, SureBefore
    <3> QED
      BY <2>1, <3>1, <3>2 DEF Misreads
  <2>4. CASE \/ ResolveParent \/ NamespaceReconcile \/ NamespaceHealthcheck
             \/ SecretReconcile \/ SecretHealthcheck \/ DatabaseReconcile
    <3>1. pc' \notin past
      BY <2>4 DEF ResolveParent, NamespaceReconcile, NamespaceHealthcheck,
                  SecretReconcile, SecretHealthcheck, DatabaseReconcile,
                  CreateIfMissing, CheckHealth, StopProvisioning, ServicePcs,
                  RoutePcs
    <3> QED
      BY <1>5, <2>1, <3>1
  <2>5. CASE \/ ScaleToZero \/ ReconcileDeployment \/ ReconcileService
             \/ ServiceHealthcheck \/ RoutingReconcile \/ RemoveRoute
             \/ RoutingHealthcheck
    <3>1. pc \in past
      BY <2>5 DEF ScaleToZero, ReconcileDeployment, ReconcileService,
                  ServiceHealthcheck, RoutingReconcile, RemoveRoute,
                  RoutingHealthcheck, ServicePcs, RoutePcs
    <3> QED
      BY <1>5, <2>1, <2>2, <3>1
  <2> QED
    BY <1>6, <2>3, <2>4, <2>5 DEF Provision
<1>7. CASE CleanUp
  <2>1. pc' \notin past
    BY <1>7, CleanUpStep DEF Done, GoOn, FinalizePcs, ServicePcs, RoutePcs
  <2> QED
    BY <2>1 DEF GateIsCurrent
<1>8. CASE User \/ Cluster
  <2>1. UNCHANGED <<pc, my>>
    BY <1>8
    DEF User, CreateTenant, DeleteTenant, ToggleSuspended, ChangeParent,
        ChangeTenant, UserFrame, Cluster, ReleaseForeground,
        ClusterIsCollected, DatabaseIsApplied, DatabaseIsRefused,
        DatabaseIsGone, JobEnds, PodsAreReady, PodsFail, NamespaceIsGone,
        ClusterFrame, workerVars
  <2>2. api[JOB] = "succeeded" => api'[JOB] = "succeeded"
    BY <1>8, SurroundingsUndisturbed DEF Undisturbed
  <2> QED
    BY <1>5, <2>1, <2>2
<1>9. CASE \/ StartReconcile \/ AddFinalizer \/ PatchStatus \/ MarkDeleting
           \/ RemoveFinalizer \/ TimerFires \/ DeliverTenant \/ Restart
           \/ \E kind \in Lagging : Deliver(kind)
  <2>1. UNCHANGED api
    BY <1>9, OthersKeep
  <2>2. pc' \in past => pc' = pc /\ UNCHANGED my
    BY <1>9
    DEF StartReconcile, AddFinalizer, PatchStatus, MarkDeleting,
        RemoveFinalizer, Done, TimerFires, DeliverTenant, Restart, Deliver,
        vars, workerVars, ServicePcs, RoutePcs
  <2> QED
    BY <1>5, <2>1, <2>2
<1> QED
  BY <1>6, <1>7, <1>8, <1>9 DEF Next, WorkerStep, Provision, CleanUp

\* No Deployment is created unless the init Job of the tenant has succeeded,
\* and is there: the Job cannot go between the gate and the last service,
\* whatever fails, is behind, or happens to the tenant meanwhile.  The one way
\* around is a pass that found the succeeded Job of an earlier life in a cache.
THEOREM DeployedOnlyAfterInit == HistorySpec => DeployedAfterInit
<1> DEFINE A == \A i \in Services :
                   api[Deploy(i)] = "absent" /\ api'[Deploy(i)] # "absent"
                       => api[JOB] = "succeeded" \/ Misled({"job"}, my.gen)
           I == TypeOK /\ FinalizerInv /\ GateIsCurrent
<1>1. HistoryInit => I
  BY InitType, InitFinalizerInv, HistoryIsOfSpec
  DEF Init, GateIsCurrent, ServicePcs, RoutePcs
<1>2. I /\ [HistoryNext]_hvars => I'
  BY NextType, NextFinalizerInv, NextGateIsCurrent, HistoryIsOfSpec
<1>3. I /\ [HistoryNext]_hvars => [A]_hvars
  <2> SUFFICES ASSUME I, [Next]_vars PROVE A
    BY HistoryIsOfSpec
  <2>1. CASE Provision
    <3> SUFFICES ASSUME NEW i \in Services, ~Misled({"job"}, my.gen),
                        api'[Deploy(i)] # api[Deploy(i)]
                 PROVE  api[JOB] = "succeeded"
      OBVIOUS
    <3>1. pc = "deploy"
      BY <2>1, ProvisionObjects
    <3> QED
      BY <3>1 DEF GateIsCurrent, ServicePcs, Sure
  <2>2. CASE ~Provision
    BY <2>2, OnlyProvisionCreates, ObjectKeys DEF CreatesNothing, Created
  <2> QED
    BY <2>1, <2>2
<1> QED
  BY <1>1, <1>2, <1>3, PTL DEF HistorySpec, DeployedAfterInit

-----------------------------------------------------------------------------
(* Generations. *)

\* A status without conditions follows every generation.
LEMMA NoStatusFollows == CondsFollow(NoStatus) /\ NoStatus.obs = 0
<1>1. NoStatus.obs = 0 /\ NoStatus.conds = [c \in Conds |-> Unset]
  BY Zenon DEF NoStatus
<1> QED
  BY <1>1 DEF CondsFollow, Unset, Conds

\* The initial states satisfy the invariant.
LEMMA InitGeneration == Init => GenerationInv
<1> SUFFICES ASSUME Init PROVE GenerationInv
  OBVIOUS
<1>1. ~NoCR.present
  BY Zenon DEF NoCR
<1>2. ~cr.present /\ ~Owned(seenCR)
  BY <1>1, Zenon DEF Init, Owned
<1>3. ~InPass
  BY Zenon DEF Init, InPass, ReconcilePcs
<1>4. CondsFollow(status) /\ CondsFollow(seenStatus) /\ CondsFollow(base)
  BY NoStatusFollows, Zenon DEF Init
<1> QED
  BY <1>2, <1>3, <1>4, Zenon DEF GenerationInv

\* A step that moves no tenant and no status keeps the invariant, unless it
\* starts a pass.
LEMMA SameGenerations ==
    ASSUME GenerationInv,
           UNCHANGED <<cr, status, seenCR, seenStatus>>,
           \/ /\ UNCHANGED <<my, base>>
              /\ InPass' =>
                    InPass /\ \A c \in ComponentConds :
                                 work'.conds[c].gen <= my.gen
           \/ base' = NoStatus /\ ~InPass'
    PROVE  GenerationInv'
BY NoStatusFollows DEF GenerationInv, Follows, CondsFollow, Owned

\* So does the end of a pass.
LEMMA DoneGenerations ==
    ASSUME GenerationInv, UNCHANGED <<cr, status, seenCR, seenStatus>>,
           NEW again, Done(again)
    PROVE  GenerationInv'
<1>1. base' = NoStatus /\ ~InPass'
  BY DEF Done, InPass, ReconcilePcs
<1> QED
  BY <1>1, SameGenerations

\* A pass is about a tenant that is live and has the finalizer in the cache.
LEMMA StartReconcileCopies ==
    ASSUME StartReconcile
    PROVE  InPass' => Owned(seenCR) /\ base' = seenStatus
<1>1. CASE \E again : Done(again)
  BY <1>1 DEF Done, InPass, ReconcilePcs
<1>2. CASE /\ seenCR.present
           /\ ~seenCR.deleting \/ seenCR.fin
           /\ pc' = CASE seenCR.deleting -> "finPatch"
                      [] ~seenCR.deleting /\ ~seenCR.fin -> "addFin"
                      [] OTHER -> "parent"
           /\ base' = seenStatus
  <2>1. seenCR.deleting => pc' = "finPatch"
    BY <1>2
  <2>2. ~seenCR.deleting /\ ~seenCR.fin => pc' = "addFin"
    BY <1>2
  <2> QED
    BY <1>2, <2>1, <2>2 DEF InPass, ReconcilePcs, Owned
<1> QED
  BY <1>1, <1>2 DEF StartReconcile

\* A pass starts from the cached tenant and status.
LEMMA StartReconcileGenerations ==
    ASSUME TypeOK, FinalizerInv, GenerationInv, StartReconcile
    PROVE  GenerationInv'
<1>1. UNCHANGED <<cr, status, seenCR, seenStatus>>
  BY DEF StartReconcile, crVars, seenVars
<1>2. CASE \E again : Done(again)
  BY <1>1, <1>2, DoneGenerations
<1>3. CASE my' = seenCR /\ base' = seenStatus /\ work' = seenStatus
  <2>1. InPass' => Owned(seenCR)
    BY StartReconcileCopies
  <2>2. Owned(seenCR) => cr.fin
    BY DEF FinalizerInv, CacheKnowsFinalizer
  <2>3. CASE ~InPass'
    BY <1>1, <1>3, <2>3 DEF GenerationInv, Follows, CondsFollow, Owned
  <2>4. CASE Owned(seenCR)
    <3>1. cr.fin /\ Follows(seenCR) /\ seenStatus.obs <= status.obs
      BY <2>2, <2>4 DEF GenerationInv
    <3>2. \A c \in ComponentConds : seenStatus.conds[c].gen <= seenCR.gen
      BY <3>1
      DEF GenerationInv, Follows, CondsFollow, TypeOK, CRs, Statuses,
          Conditions, Conds
    <3> QED
      BY <1>1, <1>3, <3>1, <3>2
      DEF GenerationInv, Follows, CondsFollow, Owned, TypeOK, CRs
  <2> QED
    BY <2>1, <2>3, <2>4
<1> QED
  BY <1>2, <1>3 DEF StartReconcile

\* The tenant gets the finalizer before its status claims anything.
LEMMA AddFinalizerGenerations ==
    ASSUME TypeOK, FinalizerInv, GenerationInv, AddFinalizer
    PROVE  GenerationInv'
<1>1. pc = "addFin" /\ Done(TRUE) /\ UNCHANGED <<status, seenCR, seenStatus>>
  BY DEF AddFinalizer, seenVars
<1>2. CASE UNCHANGED cr
  BY <1>1, <1>2, DoneGenerations
<1>3. CASE rvOK /\ cr' = [cr EXCEPT !.fin = TRUE]
  <2>1. /\ cr'.present = cr.present /\ cr'.gen = cr.gen /\ cr'.fin
        /\ cr'.deleting = cr.deleting /\ cr'.susp = cr.susp
    BY <1>3 DEF TypeOK, CRs
  <2>2. base' = NoStatus /\ ~InPass'
    BY <1>1 DEF Done, InPass, ReconcilePcs
  <2> QED
    BY <1>1, <2>1, <2>2, NoStatusFollows
    DEF GenerationInv, Follows, CondsFollow, Owned
<1> QED
  BY <1>2, <1>3 DEF AddFinalizer

\* The fields of a patched status.
LEMMA MergedFields ==
    ASSUME NEW s \in Statuses, NEW from \in Statuses, NEW to \in Statuses,
           NEW sendConds \in BOOLEAN
    PROVE  LET new == Merged(s, from, to, sendConds)
           IN  /\ new.phase = IF to.phase # from.phase THEN to.phase ELSE s.phase
               /\ new.obs = IF to.obs # from.obs THEN to.obs ELSE s.obs
               /\ new.conds = IF sendConds \/ to.conds # from.conds
                              THEN to.conds ELSE s.conds
BY DEF Merged

\* What a status patch can do to the status of a tenant: nothing, or it merges
\* what the pass has edited.
LEMMA PatchStatusMerges ==
    ASSUME PatchStatus
    PROVE  /\ pc = "patch" /\ Done(TRUE)
           /\ UNCHANGED <<cr, seenCR, seenStatus, api>>
           /\ \/ UNCHANGED status
              \/ \E sendConds \in BOOLEAN :
                    status' = Merged(status, base, work, sendConds)
BY DEF PatchStatus, ApplyPatch, seenVars, kubeVars

\* The conditions of the components, and the generation, that a pass writes.
LEMMA PatchFollows ==
    ASSUME TypeOK, GenerationInv, EditsInv, pc = "patch"
    PROVE  /\ work.obs \in {my.gen, base.obs}
           /\ base.obs <= my.gen
           /\ work.phase = "Error" => work.obs = base.obs
           /\ work.phase # "Error" => work.obs = my.gen
BY DEF EditsInv, GenerationInv, InPass, Follows, TypeOK, Statuses, CRs

\* What a status patch leaves of what was there, and sends.
LEMMA PatchSends ==
    ASSUME TypeOK, GenerationInv, EditsInv, PatchStatus, status' # status
    PROVE  /\ pc = "patch" /\ InPass /\ ~InPass'
           /\ UNCHANGED <<cr, seenCR, seenStatus, api>>
           /\ status'.phase = IF work.phase # base.phase
                              THEN work.phase ELSE status.phase
           /\ status'.obs = IF work.phase = "Error" THEN status.obs ELSE my.gen
           /\ \/ status'.conds = work.conds
              \/ status'.conds = status.conds /\ work.conds = base.conds
           /\ my.gen \in Nat /\ base.obs \in Nat /\ status.obs \in Nat
           /\ base.obs <= status.obs /\ status.obs <= my.gen
<1>1. /\ pc = "patch" /\ Done(TRUE)
      /\ UNCHANGED <<cr, seenCR, seenStatus, api>>
      /\ \E sendConds \in BOOLEAN :
            status' = Merged(status, base, work, sendConds)
  BY PatchStatusMerges
<1>2. InPass /\ ~InPass'
  BY <1>1 DEF Done, InPass, ReconcilePcs
<1>3. /\ status'.phase = IF work.phase # base.phase
                         THEN work.phase ELSE status.phase
      /\ status'.obs = IF work.obs # base.obs THEN work.obs ELSE status.obs
      /\ \/ status'.conds = work.conds
         \/ status'.conds = status.conds /\ work.conds = base.conds
  BY <1>1, MergedFields DEF TypeOK
<1>4. /\ my.gen \in Nat /\ base.obs \in Nat /\ status.obs \in Nat
      /\ base.obs <= status.obs /\ status.obs <= my.gen
  BY <1>2 DEF GenerationInv, Follows, TypeOK, CRs, Statuses
<1>5. status'.obs = IF work.phase = "Error" THEN status.obs ELSE my.gen
  BY <1>1, <1>3, <1>4, PatchFollows
<1> QED
  BY <1>1, <1>2, <1>3, <1>4, <1>5

\* The status patch raises the generation the status claims to that of the
\* tenant the pass is about, and sends conditions that are not newer.
LEMMA PatchStatusGenerations ==
    ASSUME TypeOK, GenerationInv, EditsInv, PatchStatus
    PROVE  GenerationInv'
<1>1. /\ pc = "patch" /\ Done(TRUE)
      /\ UNCHANGED <<cr, seenCR, seenStatus>>
  BY PatchStatusMerges
<1>2. CASE UNCHANGED status
  BY <1>1, <1>2, DoneGenerations
<1>3. CASE \E sendConds \in BOOLEAN :
              status' = Merged(status, base, work, sendConds)
  <2> PICK sendConds \in BOOLEAN :
              status' = Merged(status, base, work, sendConds)
    BY <1>3
  <2>1. /\ status'.obs = IF work.obs # base.obs THEN work.obs ELSE status.obs
        /\ status'.conds \in {work.conds, status.conds}
    BY MergedFields DEF TypeOK
  <2>2. /\ cr.fin /\ Follows(my) /\ base.obs <= status.obs
        /\ Owned(seenCR) => my.gen <= seenCR.gen
        /\ \A c \in ComponentConds : work.conds[c].gen <= my.gen
    BY <1>1 DEF GenerationInv, InPass
  <2>3. /\ {status.obs, base.obs, my.gen, cr.gen, seenCR.gen} \subseteq Nat
        /\ \A c \in ComponentConds :
              {work.conds[c].gen, base.conds[c].gen, status.conds[c].gen}
                  \subseteq Nat
    BY DEF TypeOK, CRs, Statuses, Conditions, Conds
  <2>4. /\ status.obs <= status'.obs /\ status'.obs <= my.gen
        /\ work.phase # "Error" => status'.obs = my.gen
    BY <1>1, <2>1, <2>2, <2>3, PatchFollows DEF Follows
  <2>8. status'.obs \in Nat
    BY <2>1, <2>3, PatchFollows, <1>1
  <2>5. work.phase = "Error" =>
           \A c \in ComponentConds : work.conds[c] = base.conds[c]
    BY <1>1 DEF EditsInv
  <2>6. \A c \in ComponentConds : status'.conds[c].gen <= status'.obs
    <3> TAKE c \in ComponentConds
    <3>1. status.conds[c].gen <= status.obs /\ base.conds[c].gen <= base.obs
      BY DEF GenerationInv, CondsFollow
    <3>2. CASE status'.conds = status.conds
      BY <2>3, <2>4, <2>8, <3>1, <3>2
    <3>3. CASE status'.conds = work.conds /\ work.phase = "Error"
      <4>1. work.conds[c] = base.conds[c]
        BY <2>5, <3>3
      <4>2. base.conds[c].gen <= status.obs
        BY <2>2, <2>3, <3>1
      <4> QED
        BY <2>3, <2>4, <2>8, <3>3, <4>1, <4>2
    <3>4. CASE status'.conds = work.conds /\ work.phase # "Error"
      BY <2>2, <2>4, <3>4
    <3> QED
      BY <2>1, <3>2, <3>3, <3>4
  <2>7. base' = NoStatus /\ ~InPass'
    BY <1>1 DEF Done, InPass, ReconcilePcs
  <2>9. CondsFollow(status') /\ CondsFollow(seenStatus') /\ CondsFollow(base')
    BY <1>1, <2>6, <2>7, NoStatusFollows DEF CondsFollow, GenerationInv
  <2> HIDE DEF CondsFollow
  <2>10. cr.present => status'.obs <= cr.gen
    BY <2>2, <2>3, <2>4, <2>8 DEF Follows
  <2>11. Owned(seenCR) => /\ status'.obs <= seenCR.gen
                          /\ seenStatus.obs <= status'.obs
    <3>1. Owned(seenCR) => seenStatus.obs <= status.obs
      BY DEF GenerationInv
    <3>2. seenStatus.obs \in Nat
      BY DEF TypeOK, Statuses
    <3> QED
      BY <2>2, <2>3, <2>4, <2>8, <3>1, <3>2
  <2> QED
    BY <1>1, <2>2, <2>7, <2>9, <2>10, <2>11
    DEF GenerationInv, Follows, Owned, CondsFollow
<1> QED
  BY <1>2, <1>3, PatchStatusMerges

\* A step that ends a pass and leaves generations and conditions alone.
LEMMA RestatedGenerations ==
    ASSUME GenerationInv, UNCHANGED <<cr, seenCR, seenStatus>>,
           status'.obs = status.obs, status'.conds = status.conds,
           base' = NoStatus, ~InPass'
    PROVE  GenerationInv'
BY NoStatusFollows DEF GenerationInv, Follows, CondsFollow, Owned

\* The Deleting phase comes alone.
LEMMA MarkDeletingPatches ==
    ASSUME TypeOK, MarkDeleting
    PROVE  /\ UNCHANGED <<cr, seenCR, seenStatus>>
           /\ base' = NoStatus /\ pc' = "finParent"
           /\ status'.obs = status.obs /\ status'.conds = status.conds
<1> DEFINE deleting == [base EXCEPT !.phase = "Deleting"]
<1>1. /\ UNCHANGED <<cr, seenCR, seenStatus>>
      /\ base' = NoStatus /\ pc' = "finParent"
      /\ status' \in {status, Merged(status, base, deleting, FALSE)}
  BY DEF MarkDeleting, ApplyPatch, seenVars
<1>2. /\ deleting \in Statuses
      /\ deleting.obs = base.obs /\ deleting.conds = base.conds
  <2>1. "Deleting" \in Phases
    BY Zenon DEF Phases
  <2> QED
    BY <2>1 DEF TypeOK, Statuses
<1> HIDE DEF deleting
<1>3. /\ Merged(status, base, deleting, FALSE).obs = status.obs
      /\ Merged(status, base, deleting, FALSE).conds = status.conds
  BY <1>2 DEF Merged
<1> QED
  BY <1>1, <1>3

\* So it keeps generations.
LEMMA MarkDeletingGenerations ==
    ASSUME TypeOK, GenerationInv, MarkDeleting
    PROVE  GenerationInv'
<1>1. ~InPass'
  BY MarkDeletingPatches DEF InPass, ReconcilePcs
<1> QED
  BY <1>1, MarkDeletingPatches, RestatedGenerations

\* Nor does the cleanup touch them.
LEMMA CleanUpGenerations ==
    ASSUME GenerationInv, CleanUp
    PROVE  GenerationInv'
<1>1. UNCHANGED <<cr, status, seenCR, seenStatus>>
  BY CleanUpStep DEF FinalizeFrame, crVars, seenVars
<1>2. CASE Done(TRUE)
  BY <1>1, <1>2, DoneGenerations
<1>3. CASE \E next \in FinalizePcs : GoOn(next)
  <2>1. UNCHANGED <<my, base>> /\ ~InPass'
    BY <1>3 DEF GoOn, InPass, ReconcilePcs, FinalizePcs
  <2> QED
    BY <1>1, <2>1, SameGenerations
<1> QED
  BY <1>2, <1>3, CleanUpStep

\* The tenant that loses the finalizer is being deleted, or new.
LEMMA RemoveFinalizerGenerations ==
    ASSUME TypeOK, FinalizerInv, GenerationInv, RemoveFinalizer
    PROVE  GenerationInv'
<1>1. /\ pc \in FinalizePcs /\ UNCHANGED <<seenCR, seenStatus>>
      /\ base' = NoStatus /\ ~InPass'
  BY DEF RemoveFinalizer, Done, seenVars, FinalizePcs, InPass, ReconcilePcs
<1>2. CASE UNCHANGED crVars
  BY <1>1, <1>2, RestatedGenerations DEF crVars
<1>3. CASE /\ cr' = WithoutFinalizer(cr)
           /\ status' = IF cr'.present THEN status ELSE NoStatus
  <2>1. ~Owned(seenCR) /\ (cr.fin => cr.deleting)
    BY <1>1 DEF FinalizerInv, PassesAreJustified
  <2>2. \/ ~cr'.present
        \/ /\ cr'.present = cr.present /\ cr'.gen = cr.gen
           /\ cr'.deleting = cr.deleting
           /\ status' = status
    BY <1>3 DEF WithoutFinalizer, NoCR, TypeOK, CRs
  <2>3. status' \in {status, NoStatus}
    BY <1>3
  <2>4. CondsFollow(status') /\ CondsFollow(seenStatus') /\ CondsFollow(base')
    BY <1>1, <2>3, NoStatusFollows DEF CondsFollow, GenerationInv
  <2> QED
    BY <1>1, <2>1, <2>2, <2>4 DEF GenerationInv, Owned, CondsFollow
<1> QED
  BY <1>2, <1>3 DEF RemoveFinalizer

\* Provisioning judges conditions for the generation of the pass.
Judged(c, reason) ==
    /\ work'.conds[c] = [reason |-> reason, gen |-> my.gen]
    /\ \A d \in Conds \ {c} : work'.conds[d] = work.conds[d]

\* What SetCondition does to the status the worker edits.
LEMMA SetConditionFields ==
    ASSUME TypeOK, NEW c \in Conds, NEW reason
    PROVE  LET new == SetCondition(c, reason)
           IN  /\ DOMAIN new = {"phase", "conds", "obs", "endpoint"}
               /\ new.conds[c] = [reason |-> reason, gen |-> my.gen]
               /\ \A d \in Conds \ {c} : new.conds[d] = work.conds[d]
BY DEF TypeOK, Statuses, SetCondition

\* A prerequisite that ends the pass.
LEMMA StopProvisioningEdits ==
    ASSUME TypeOK, NEW c \in Conds, NEW reason, StopProvisioning(c, reason)
    PROVE  /\ Judged(c, reason) /\ pc' = "patch"
           /\ work'.phase = "Provisioning" /\ work'.obs = my.gen
BY SetConditionFields DEF StopProvisioning, Judged

\* A service component that ends.
LEMMA EndServiceEdits ==
    ASSUME TypeOK, NEW reason, EndService(reason)
    PROVE  /\ Judged(ServiceReady(at), reason)
           /\ allReady' = (allReady /\ reason = "Ready")
           /\ IF at < NumServices THEN pc' = "deploy" /\ at' = at + 1
                                  ELSE pc' = "route" /\ at' = at
BY SetConditionFields, CondTypes DEF EndService, Judged, TypeOK

\* The end of a full pass.
LEMMA EndRoutingEdits ==
    ASSUME TypeOK, NEW reason, EndRouting(reason)
    PROVE  /\ Judged(RoutingReady, reason) /\ pc' = "patch"
           /\ work'.phase = DerivePhase(reason = "Ready")
           /\ work'.obs = my.gen
BY SetConditionFields, CondTypes DEF EndRouting, Judged

\* A parent that is missing or cannot be read.
LEMMA ResolveParentEdits ==
    ASSUME TypeOK, ResolveParent
    PROVE  /\ pc = "parent" /\ UNCHANGED <<api, at, allReady>>
           /\ \/ pc' = "ns" /\ UNCHANGED work
              \/ /\ pc' = "patch" /\ Judged(ReadyCond, "Error")
                 /\ work'.phase = "Error" /\ work'.obs = work.obs
<1> DEFINE new == SetCondition(ReadyCond, "Error")
<1>1. new.obs = work.obs
  BY DEF TypeOK, Statuses, SetCondition
<1>2. /\ pc = "parent" /\ UNCHANGED <<api, at, allReady>>
      /\ \/ pc' = "ns" /\ UNCHANGED work
         \/ pc' = "patch" /\ work' = [new EXCEPT !.phase = "Error"]
  BY DEF ResolveParent
<1> QED
  BY <1>1, <1>2, SetConditionFields, CondTypes DEF Judged

\* A component that is not ready ends the pass and says so.
Stops(c) ==
    /\ pc' = "patch" /\ work'.phase = "Provisioning" /\ work'.obs = my.gen
    /\ \E reason \in {"NotReady", "Error"} : Judged(c, reason)

\* Creating a prerequisite.
LEMMA CreateIfMissingEdits ==
    ASSUME TypeOK, NEW c \in Conds, NEW k, NEW built, NEW next,
           CreateIfMissing(k, built, next, c)
    PROVE  /\ UNCHANGED <<at, allReady>>
           /\ \/ Stops(c)
              \/ /\ pc' = next /\ UNCHANGED work
                 /\ \/ View(k) # "absent" /\ UNCHANGED api
                    \/ Creatable(k, built.home) /\ Sets(k, built.first)
BY StopProvisioningEdits DEF CreateIfMissing, Stops, Write, Sets

\* The health check of a prerequisite.
LEMMA CheckHealthEdits ==
    ASSUME TypeOK, NEW c \in Conds, NEW healthy, NEW next,
           CheckHealth(healthy, next, c)
    PROVE  /\ UNCHANGED <<api, at, allReady>>
           /\ \/ Stops(c)
              \/ pc' = next /\ healthy /\ Judged(c, "Ready")
<1>1. CASE \E reason \in {"NotReady", "Error"} : StopProvisioning(c, reason)
  BY <1>1, StopProvisioningEdits DEF CheckHealth, Stops
<1>2. CASE healthy /\ pc' = next /\ work' = SetCondition(c, "Ready")
  BY <1>2, SetConditionFields DEF CheckHealth, Judged
<1> QED
  BY <1>1, <1>2 DEF CheckHealth

\* The steps of the services, and of routing.
ServiceStep == \/ ScaleToZero \/ ReconcileDeployment
               \/ ReconcileService \/ ServiceHealthcheck
RouteStep == RoutingReconcile \/ RemoveRoute \/ RoutingHealthcheck

\* A step of a service goes on or ends the component.
LEMMA ServiceStepEnds ==
    ASSUME ServiceStep
    PROVE  /\ pc \in ServicePcs
           /\ \/ pc' \in {"svc", "svcHealth"} /\ UNCHANGED <<at, work, allReady>>
              \/ EndService("Error") \/ EndService("NotReady")
              \/ /\ pc = "svcHealth" /\ UNCHANGED api /\ EndService("Ready")
                 /\ my.susp \/ View(Deploy(at)) = "ready"
<1>1. CASE ScaleToZero
  BY <1>1 DEF ScaleToZero, ServicePcs
<1>2. CASE ReconcileDeployment
  BY <1>2 DEF ReconcileDeployment, ServicePcs
<1>3. CASE ReconcileService
  BY <1>3 DEF ReconcileService, ServicePcs
<1>4. CASE ServiceHealthcheck
  BY <1>4 DEF ServiceHealthcheck, ServicePcs
<1> QED
  BY <1>1, <1>2, <1>3, <1>4 DEF ServiceStep

\* A step of routing goes on or ends the pass.
LEMMA RouteStepEnds ==
    ASSUME RouteStep
    PROVE  /\ pc \in RoutePcs /\ UNCHANGED <<at, allReady>>
           /\ \/ pc' = "routeHealth" /\ UNCHANGED work
              \/ EndRouting("Error") \/ EndRouting("NotReady")
              \/ pc = "routeHealth" /\ UNCHANGED api /\ EndRouting("Ready")
<1>1. CASE RoutingReconcile
  BY <1>1 DEF RoutingReconcile, RoutePcs
<1>2. CASE RemoveRoute
  BY <1>2 DEF RemoveRoute, RoutePcs
<1>3. CASE RoutingHealthcheck
  BY <1>3 DEF RoutingHealthcheck, RoutePcs
<1> QED
  BY <1>1, <1>2, <1>3 DEF RouteStep

\* What provisioning does to the conditions.
LEMMA ProvisionEdits ==
    ASSUME TypeOK, Provision
    PROVE  \/ UNCHANGED work
           \/ \E c \in Conds : \E reason : Judged(c, reason)
<1> USE CondTypes
<1>1. CASE ResolveParent
  BY <1>1, ResolveParentEdits
<1>2. CASE NamespaceReconcile \/ SecretReconcile \/ DatabaseReconcile
  BY <1>2, CreateIfMissingEdits
  DEF NamespaceReconcile, SecretReconcile, DatabaseReconcile, Stops
<1>3. CASE NamespaceHealthcheck \/ SecretHealthcheck \/ DatabaseHealthcheck
  BY <1>3, CheckHealthEdits
  DEF NamespaceHealthcheck, SecretHealthcheck, DatabaseHealthcheck, Stops
<1>4. CASE ServiceStep
  <2>1. ServiceReady(at) \in Conds
    BY DEF TypeOK
  <2> QED
    BY <1>4, <2>1, ServiceStepEnds, EndServiceEdits
<1>5. CASE RouteStep
  BY <1>5, RouteStepEnds, EndRoutingEdits
<1> QED
  BY <1>1, <1>2, <1>3, <1>4, <1>5 DEF Provision, ServiceStep, RouteStep

\* Provisioning keeps generations.
LEMMA ProvisionGenerations ==
    ASSUME TypeOK, GenerationInv, Provision
    PROVE  GenerationInv'
<1>1. /\ UNCHANGED <<cr, status, seenCR, seenStatus, my, base>>
      /\ InPass
  BY ProvisionStep DEF ComponentFrame, crVars, seenVars, InPass
<1>2. \A c \in ComponentConds : work.conds[c].gen <= my.gen
  BY <1>1 DEF GenerationInv
<1>3. \A c \in ComponentConds :
         work'.conds[c] = work.conds[c] \/ work'.conds[c].gen = my.gen
  <2>1. ASSUME NEW c \in Conds, NEW reason, Judged(c, reason),
               NEW d \in ComponentConds
        PROVE  work'.conds[d] = work.conds[d] \/ work'.conds[d].gen = my.gen
    BY <2>1 DEF Judged, Conds
  <2> QED
    BY <2>1, ProvisionEdits
<1>4. my.gen <= my.gen
  BY DEF TypeOK, CRs
<1> QED
  BY <1>1, <1>2, <1>3, <1>4, SameGenerations

\* The informer of tenants delivers what is on the server.
LEMMA QueueGenerations ==
    ASSUME TypeOK, FinalizerInv, GenerationInv,
           \/ TimerFires \/ DeliverTenant \/ Restart
           \/ \E kind \in Lagging : Deliver(kind)
    PROVE  GenerationInv'
<1>1. CASE TimerFires \/ \E kind \in Lagging : Deliver(kind)
  <2>1. UNCHANGED <<cr, status, seenCR, seenStatus, my, base, work, pc>>
    BY <1>1 DEF TimerFires, Deliver, crVars, seenVars, workerVars
  <2>2. InPass' => InPass /\ \A c \in ComponentConds :
                                work'.conds[c].gen <= my.gen
    BY <2>1 DEF GenerationInv, InPass
  <2> QED
    BY <2>1, <2>2, SameGenerations
<1>2. cr.present => Follows(cr) /\ status.obs <= status.obs
  BY DEF GenerationInv, Follows, TypeOK, CRs, Statuses
<1>3. CASE DeliverTenant
  <2>1. UNCHANGED <<cr, status, my, base, work, pc>>
    BY <1>3 DEF DeliverTenant, workerVars
  <2>2. seenCR' = cr /\ seenStatus' = status
    BY <1>3 DEF DeliverTenant
  <2> QED
    BY <1>2, <2>1, <2>2
    DEF GenerationInv, Follows, CondsFollow, Owned, InPass
<1>4. CASE Restart
  <2>1. UNCHANGED <<cr, status>> /\ base' = NoStatus /\ ~InPass'
    BY <1>4 DEF Restart, InPass, ReconcilePcs
  <2>2. seenCR' = cr /\ seenStatus' = status
    BY <1>4 DEF Restart
  <2> QED
    BY <1>2, <2>1, <2>2, NoStatusFollows
    DEF GenerationInv, Follows, CondsFollow, Owned
<1> QED
  BY <1>1, <1>3, <1>4

\* What somebody else does to a tenant: it goes or comes without the
\* finalizer, and takes its status along, or it stays with its status, and its
\* spec does not change without its generation.
TenantStays ==
    /\ status' = status /\ cr'.present = cr.present /\ cr'.fin = cr.fin
    /\ cr.deleting => cr'.deleting
    /\ cr.gen <= cr'.gen /\ (cr'.gen = cr.gen => cr'.susp = cr.susp)

TenantComesOrGoes ==
    /\ ~cr.fin /\ status' = NoStatus
    /\ cr'.present => ~cr.present /\ ~cr'.fin /\ 0 < cr'.gen

\* Users and the garbage collector do nothing else to the tenant.
LEMMA OthersChangeTenant ==
    ASSUME TypeOK, FinalizerInv, User \/ Cluster
    PROVE  /\ UNCHANGED <<seenCR, seenStatus, my, base, work, pc, at, allReady>>
           /\ TenantStays \/ TenantComesOrGoes
<1>1. ASSUME NEW new, ChangeTenant(new)
      PROVE  /\ cr' = new
             /\ UNCHANGED <<seenCR, seenStatus, my, base, work, pc, at, allReady>>
  BY <1>1 DEF ChangeTenant, UserFrame, seenVars
<1>2. ~NoCR.present
  BY Zenon DEF NoCR
<1>3. cr.gen <= cr.gen /\ cr.gen <= cr.gen + 1 /\ cr.gen + 1 # cr.gen
  BY DEF TypeOK, CRs
<1>4. CASE CreateTenant
  <2> DEFINE created(s) == [NoCR EXCEPT !.present = TRUE, !.susp = s, !.gen = 1]
  <2>1. ~cr.present /\ ~cr.fin /\ status' = NoStatus
    BY <1>4 DEF CreateTenant, FinalizerInv, FinalizerGoesOnLive
  <2>2. \A s \in BOOLEAN : ~created(s).fin /\ created(s).gen = 1
    BY DEF NoCR
  <2>3. \E s \in BOOLEAN : ChangeTenant(created(s))
    BY <1>4 DEF CreateTenant
  <2> HIDE DEF created
  <2> QED
    BY <1>1, <2>1, <2>2, <2>3 DEF TenantComesOrGoes
<1>5. CASE DeleteTenant
  <2> DEFINE marked(h) == [cr EXCEPT !.deleting = TRUE, !.hold = h]
  <2>1. \A h \in BOOLEAN :
           /\ marked(h).present = cr.present /\ marked(h).fin = cr.fin
           /\ marked(h).deleting /\ marked(h).gen = cr.gen
           /\ marked(h).susp = cr.susp
    BY DEF TypeOK, CRs
  <2>2. \/ \E h \in BOOLEAN : ChangeTenant(marked(h))
        \/ ~cr.fin /\ ChangeTenant(NoCR)
    BY <1>5 DEF DeleteTenant
  <2>3. cr.present /\ status' = IF cr'.present THEN status ELSE NoStatus
    BY <1>5 DEF DeleteTenant
  <2> HIDE DEF marked
  <2> QED
    BY <1>1, <1>2, <1>3, <2>1, <2>2, <2>3 DEF TenantStays, TenantComesOrGoes
<1>6. CASE ToggleSuspended
  <2> DEFINE toggled == [cr EXCEPT !.susp = ~cr.susp, !.gen = cr.gen + 1]
  <2>1. /\ toggled.present = cr.present /\ toggled.fin = cr.fin
        /\ toggled.deleting = cr.deleting /\ toggled.gen = cr.gen + 1
    BY DEF TypeOK, CRs
  <2>2. ChangeTenant(toggled) /\ status' = status
    BY <1>6 DEF ToggleSuspended
  <2> HIDE DEF toggled
  <2> QED
    BY <1>1, <1>3, <2>1, <2>2 DEF TenantStays
<1>7. CASE ChangeParent
  <2>1. UNCHANGED <<cr, status, seenCR, seenStatus, my, base, work, pc, at,
                    allReady>>
    BY <1>7 DEF ChangeParent, UserFrame, crVars, seenVars
  <2> QED
    BY <1>3, <2>1 DEF TenantStays
<1>8. CASE ReleaseForeground
  <2> DEFINE released == [cr EXCEPT !.hold = FALSE]
  <2>1. /\ released.present = cr.present /\ released.fin = cr.fin
        /\ released.deleting = cr.deleting /\ released.gen = cr.gen
        /\ released.susp = cr.susp
    BY DEF TypeOK, CRs
  <2>2. /\ ChangeTenant(IF cr.fin THEN released ELSE NoCR)
        /\ cr.present /\ status' = IF cr'.present THEN status ELSE NoStatus
    BY <1>8 DEF ReleaseForeground
  <2> HIDE DEF released
  <2>3. CASE cr.fin
    <3>1. cr' = released /\ status' = status
      BY <1>1, <2>1, <2>2, <2>3
    <3> QED
      BY <1>1, <1>3, <2>1, <2>2, <2>3, <3>1 DEF TenantStays
  <2>4. CASE ~cr.fin
    BY <1>1, <1>2, <2>2, <2>4 DEF TenantComesOrGoes
  <2> QED
    BY <2>3, <2>4
<1>9. CASE Cluster /\ ~ReleaseForeground
  <2>1. ClusterFrame
    BY <1>9 DEF Cluster, ClusterIsCollected, DatabaseIsApplied,
                DatabaseIsRefused, DatabaseIsGone, JobEnds, PodsAreReady,
                PodsFail, NamespaceIsGone
  <2>2. UNCHANGED <<cr, status, seenCR, seenStatus, my, base, work, pc, at,
                    allReady>>
    BY <2>1 DEF ClusterFrame, crVars, seenVars, workerVars
  <2> QED
    BY <1>3, <2>2 DEF TenantStays
<1> QED
  BY <1>4, <1>5, <1>6, <1>7, <1>8, <1>9 DEF User

\* Neither outdates a status or a pass.
LEMMA OthersKeepGenerations ==
    ASSUME TypeOK, FinalizerInv, GenerationInv, User \/ Cluster
    PROVE  GenerationInv'
<1>1. /\ UNCHANGED <<seenCR, seenStatus, my, base, work, pc>>
      /\ TenantStays \/ TenantComesOrGoes
  BY OthersChangeTenant
<1>2. CondsFollow(status') /\ CondsFollow(seenStatus') /\ CondsFollow(base')
  BY <1>1, NoStatusFollows
  DEF TenantStays, TenantComesOrGoes, GenerationInv, CondsFollow
<1>3. cr'.gen \in Nat /\ cr.gen \in Nat /\ status.obs \in Nat
  BY NextType DEF TypeOK, CRs, Statuses, Next
<1>4. CASE TenantComesOrGoes
  <2>1. ~InPass' /\ ~Owned(seenCR')
    BY <1>1, <1>4
    DEF TenantComesOrGoes, GenerationInv, FinalizerInv, CacheKnowsFinalizer,
        InPass, Owned
  <2> QED
    BY <1>1, <1>2, <1>3, <1>4, <2>1, NoStatusFollows
    DEF GenerationInv, TenantComesOrGoes, CondsFollow
<1>5. CASE TenantStays
  <2>1. my.gen \in Nat /\ seenCR.gen \in Nat
    BY DEF TypeOK, CRs
  <2>2. InPass' => InPass /\ cr'.fin /\ Follows(my)'
    BY <1>1, <1>3, <1>5, <2>1
    DEF GenerationInv, Follows, TenantStays, InPass
  <2>3. Owned(seenCR') => Owned(seenCR) /\ Follows(seenCR)'
    BY <1>1, <1>3, <1>5, <2>1
    DEF GenerationInv, Follows, TenantStays, Owned
  <2>4. cr'.present => status'.obs <= cr'.gen /\ 0 < cr'.gen
    BY <1>3, <1>5 DEF GenerationInv, TenantStays
  <2>5. cr'.present /\ ~cr'.deleting /\ ~cr'.fin => status'.obs = 0
    BY <1>5 DEF GenerationInv, TenantStays
  <2>6. InPass' => /\ Owned(seenCR') => my'.gen <= seenCR'.gen
                   /\ base'.obs <= status'.obs
                   /\ seenStatus' \in {base', status'}
                   /\ \A c \in ComponentConds : work'.conds[c].gen <= my'.gen
    BY <1>1, <1>5, <2>2, <2>3 DEF GenerationInv, TenantStays
  <2>7. Owned(seenCR') => seenStatus'.obs <= status'.obs
    BY <1>1, <1>5, <2>3 DEF GenerationInv, TenantStays
  <2> QED
    BY <1>2, <2>2, <2>3, <2>4, <2>5, <2>6, <2>7
    DEF GenerationInv, CondsFollow, Owned, Follows
<1> QED
  BY <1>1, <1>4, <1>5

\* Every step keeps generations.
LEMMA NextGenerations ==
    ASSUME TypeOK, FinalizerInv, GenerationInv, EditsInv, [Next]_vars
    PROVE  GenerationInv'
<1>1. CASE WorkerStep
  BY <1>1, AddFinalizerGenerations, ProvisionGenerations,
     PatchStatusGenerations, MarkDeletingGenerations, CleanUpGenerations,
     RemoveFinalizerGenerations
  DEF WorkerStep, Provision, CleanUp
<1>2. CASE UNCHANGED vars
  <2>1. UNCHANGED <<cr, status, seenCR, seenStatus, my, base, work, pc>>
    BY <1>2 DEF vars, crVars, seenVars, workerVars
  <2> QED
    BY <2>1 DEF GenerationInv, Follows, CondsFollow, Owned, InPass
<1> QED
  BY <1>1, <1>2, StartReconcileGenerations, QueueGenerations,
     OthersKeepGenerations DEF Next

-----------------------------------------------------------------------------
(* Progress of a pass. *)

\* Between passes, and at the start of one, there is nothing to keep.
LEMMA FreshProgress ==
    ASSUME api'[ROUTE] \in {"absent", "present"},
           \A i \in Services : api'[Svc(i)] \in {"absent", "present"},
           pc' \in {"idle", "addFin", "parent"} \cup FinalizePcs,
           at' = 1 /\ allReady'
    PROVE  ProgressInv' /\ PatchInv'
<1>1. /\ pc' \notin ReconcilePcs \ {"parent"}
      /\ pc' \notin ServicePcs \cup RoutePcs \cup {"patch", "svc", "svcHealth",
                                                   "routeHealth"}
  BY DEF ReconcilePcs, FinalizePcs, ServicePcs, RoutePcs
<1> QED
  BY <1>1 DEF ProgressInv, PatchInv, WorkerIsFresh, ServicesSoFar, ComponentSoFar

\* A step of somebody else does not undo what the worker has found.
LEMMA KeptProgress ==
    ASSUME TypeOK, FinalizerInv, GenerationInv, Remember, ProgressInv,
           PatchInv, Undisturbed,
           UNCHANGED <<my, base, work, pc, at, allReady>>
    PROVE  ProgressInv' /\ PatchInv'
<1> USE DEF Undisturbed
<1>1. Ended' = Ended /\ \A c : Fails(c)' = Fails(c)
  BY DEF Ended, Fails
<1>2. \A kinds \in SUBSET MisreadKinds : InPass /\ Sure(kinds)' => Sure(kinds)
  BY SureBefore, PassHasFinalizer
<1>3. /\ {"ns"} \in SUBSET MisreadKinds /\ {"deploy"} \in SUBSET MisreadKinds
      /\ {"ns", "deploy"} \in SUBSET MisreadKinds
      /\ {"route"} \in SUBSET MisreadKinds
      /\ {"deploy", "route"} \in SUBSET MisreadKinds
  BY DEF MisreadKinds
<1>4. Sure({"ns", "deploy"})' => Sure({"ns"})'
  BY DEF Sure, Misled
<1>5. Ended \subseteq Services
  BY ServicesAssumption DEF Ended, Services, TypeOK
<1>6. pc \in ServicePcs \cup RoutePcs =>
         InPass /\ (Sure({"ns"})' => api[NS] = "active")
  BY <1>2, <1>3 DEF ProgressInv, ServicePcs, RoutePcs, ReconcilePcs, InPass
<1>7. pc \in ServicePcs \cup RoutePcs =>
         \A i \in Services : Scaled(i) => Scaled(i)'
  <2> SUFFICES ASSUME pc \in ServicePcs \cup RoutePcs,
                      NEW i \in Services, Scaled(i)
               PROVE  Scaled(i)'
    OBVIOUS
  <2>1. ~my.susp /\ Sure({"ns", "deploy"})' => Runs(api'[Deploy(i)])
    BY <1>2, <1>3, <1>4, <1>6 DEF Scaled
  <2>2. my.susp /\ Sure({"deploy"})' => ~Runs(api'[Deploy(i)])
    BY <1>2, <1>3, <1>6 DEF Scaled
  <2> QED
    BY <2>1, <2>2 DEF Scaled
<1>8. pc \in ServicePcs \cup RoutePcs =>
         \A i \in Services : Served(i) => Served(i)'
  BY <1>2, <1>3, <1>6, <1>7 DEF Served
<1>9. ServicesSoFar'
  BY <1>1, <1>5, <1>8 DEF ServicesSoFar, ProgressInv
<1>10. ComponentSoFar'
  <2>1. RouteIsAsAsked /\ InPass => RouteIsAsAsked'
    BY <1>2, <1>3 DEF RouteIsAsAsked
  <2>2. PICK s \in Services : s = at
    BY DEF TypeOK
  <2>3. pc = "svc" => ~my.susp /\ Scaled(at)'
    BY <1>7, <2>2 DEF ProgressInv, ComponentSoFar, ServicePcs
  <2>4. pc = "svcHealth" => Served(at)'
    BY <1>8, <2>2 DEF ProgressInv, ComponentSoFar, ServicePcs
  <2>5. pc = "routeHealth" => RouteIsAsAsked'
    BY <1>6, <2>1 DEF ProgressInv, ComponentSoFar, RoutePcs
  <2> QED
    BY <2>3, <2>4, <2>5 DEF ComponentSoFar
<1>11. WorkerIsFresh'
  BY DEF WorkerIsFresh, ProgressInv
<1>12. pc \in ReconcilePcs \ {"parent", "ns", "np", "nsHealth"} /\ Sure({"ns"})'
          => api'[NS] = "active"
  BY <1>2, <1>3 DEF ProgressInv, InPass
<1>13. ProgressInv'
  BY <1>9, <1>10, <1>11, <1>12 DEF ProgressInv
<1>14. (Deployed => Deployed') /\ (ScaledDown => ScaledDown')
  BY DEF Deployed, ScaledDown
<1>15. PatchInv'
  <2> SUFFICES ASSUME pc = "patch" PROVE PatchInv'
    BY DEF PatchInv
  <2> USE <1>1, <1>14
  <2>0. /\ Sure({"ns", "deploy"})' => Sure({"ns", "deploy"})
        /\ Sure({"deploy", "route"})' => Sure({"deploy", "route"})
    BY <1>2, <1>3 DEF InPass
  <2>1. CASE /\ work.phase = "Error" /\ work.obs = base.obs
             /\ \A c \in ComponentConds : work.conds[c] = base.conds[c]
    BY <2>1 DEF PatchInv
  <2>2. CASE /\ work.phase = "Provisioning" /\ work.obs = my.gen
             /\ \E c \in ComponentConds : Fails(c)
    BY <2>2 DEF PatchInv
  <2>3. CASE /\ work.phase = "Ready" /\ work.obs = my.gen
             /\ ~my.susp /\ work.conds[RoutingReady].gen = my.gen
             /\ Sure({"ns", "deploy"}) => Deployed
    BY <2>0, <2>3, Zenon DEF PatchInv
  <2>4. CASE /\ work.phase = "Suspended" /\ work.obs = my.gen
             /\ my.susp /\ work.conds[RoutingReady].gen = my.gen
             /\ Sure({"deploy", "route"})
                /\ (\A c \in ComponentConds : ~Fails(c))
                    => ScaledDown
    BY <2>0, <2>4, Zenon DEF PatchInv
  <2> QED
    BY <2>1, <2>2, <2>3, <2>4, Zenon DEF PatchInv
<1> QED
  BY <1>13, <1>15

\* The steps up to the services.
PrerequisiteStep == \/ NamespaceReconcile \/ NamespaceHealthcheck
                    \/ SecretReconcile \/ SecretHealthcheck
                    \/ DatabaseReconcile \/ DatabaseHealthcheck

EarlyPcs == {"ns", "np", "nsHealth"}
LatePcs == {"jwt", "dbc", "secretHealth", "database", "job", "dbHealth"}

\* They go on in order, or stop; the health check of the namespace lets the
\* pass go on only when the namespace is there.
LEMMA PrerequisiteMoves ==
    ASSUME TypeOK, PrerequisiteStep
    PROVE  /\ UNCHANGED <<at, allReady>>
           /\ \/ \E c \in ComponentConds : Stops(c)
              \/ pc \in EarlyPcs /\ pc' \in EarlyPcs
              \/ /\ pc = "nsHealth" /\ pc' = "jwt"
                 /\ View(NS) = "active" /\ UNCHANGED api
              \/ pc \in LatePcs /\ pc' \in LatePcs \cup {"deploy"}
           /\ pc \in EarlyPcs \cup LatePcs
<1>1. {NamespaceReady, SecretsReady, DatabaseReady} \subseteq ComponentConds
  BY DEF ComponentConds
<1>2. ComponentConds \subseteq Conds
  BY DEF Conds
<1>3. CASE NamespaceReconcile
  BY <1>1, <1>2, <1>3, CreateIfMissingEdits DEF NamespaceReconcile, EarlyPcs
<1>4. CASE NamespaceHealthcheck
  BY <1>1, <1>2, <1>4, CheckHealthEdits DEF NamespaceHealthcheck, EarlyPcs
<1>5. CASE SecretReconcile
  BY <1>1, <1>2, <1>5, CreateIfMissingEdits DEF SecretReconcile, LatePcs
<1>6. CASE SecretHealthcheck
  BY <1>1, <1>2, <1>6, CheckHealthEdits DEF SecretHealthcheck, LatePcs
<1>7. CASE DatabaseReconcile
  BY <1>1, <1>2, <1>7, CreateIfMissingEdits DEF DatabaseReconcile, LatePcs
<1>8. CASE DatabaseHealthcheck
  BY <1>1, <1>2, <1>8, CheckHealthEdits DEF DatabaseHealthcheck, LatePcs
<1> QED
  BY <1>3, <1>4, <1>5, <1>6, <1>7, <1>8 DEF PrerequisiteStep

\* A pass that stops says which component did not make it.
LEMMA StopsSays ==
    ASSUME NEW c \in ComponentConds, Stops(c), UNCHANGED my
    PROVE  PatchInv'
<1>1. \A r \in {"NotReady", "Error"} : r # "Ready"
  OBVIOUS
<1>2. Fails(c)'
  BY <1>1 DEF Stops, Judged, Fails
<1> QED
  BY <1>2, Zenon DEF Stops, PatchInv

\* Every provisioning step keeps to the states that routes and Services have,
\* to the pass it belongs to, and to what stays from the last one.
LEMMA ProvisionKeeps ==
    ASSUME TypeOK, ProgressInv, Provision
    PROVE  /\ UNCHANGED <<my, base>> /\ my.susp \in BOOLEAN
           /\ api'[ROUTE] \in {"absent", "present"}
           /\ \A i \in Services : api'[Svc(i)] \in {"absent", "present"}
           /\ \A i \in Services :
                 api[Svc(i)] = "present" => api'[Svc(i)] = "present"
           /\ \A i \in Services :
                 pc # "deploy" \/ i # at => api'[Deploy(i)] = api[Deploy(i)]
           /\ pc' # "parent" /\ (pc' = "patch" \/ pc' \in ReconcilePcs)
           /\ api[NS] = "active" => api'[NS] = "active"
<1>1. UNCHANGED <<my, base>>
  BY ProvisionStep DEF ComponentFrame
<1>2. my.susp \in BOOLEAN
  BY DEF TypeOK, CRs
<1>3. pc' # "parent" /\ (pc' = "patch" \/ pc' \in ReconcilePcs)
  <2>1. CASE ResolveParent
    BY <2>1 DEF ResolveParent, ReconcilePcs
  <2>2. CASE PrerequisiteStep
    BY <2>2, PrerequisiteMoves
    DEF EarlyPcs, LatePcs, Stops, ReconcilePcs
  <2>3. CASE ServiceStep
    BY <2>3, ServiceStepEnds DEF EndService, ReconcilePcs
  <2>4. CASE RouteStep
    BY <2>4, RouteStepEnds DEF EndRouting, ReconcilePcs
  <2> QED
    BY <2>1, <2>2, <2>3, <2>4
    DEF Provision, PrerequisiteStep, ServiceStep, RouteStep
<1> QED
  BY <1>1, <1>2, <1>3, ProvisionObjects DEF ProgressInv

\* Progress up to the services.
LEMMA PrerequisiteProgress ==
    ASSUME TypeOK, cr.fin, Remember, ProgressInv, PrerequisiteStep
    PROVE  ProgressInv' /\ PatchInv'
<1>1. Provision
  BY DEF Provision, PrerequisiteStep
<1>2. at' = 1 /\ allReady'
  BY PrerequisiteMoves
  DEF ProgressInv, WorkerIsFresh, EarlyPcs, LatePcs, ServicePcs, RoutePcs
<1>3. CASE \E c \in ComponentConds : Stops(c)
  <2>1. pc' = "patch"
    BY <1>3 DEF Stops
  <2>2. PatchInv'
    BY <1>1, <1>3, ProvisionKeeps, StopsSays
  <2> QED
    BY <1>1, <2>1, <2>2, ProvisionKeeps
    DEF ProgressInv, WorkerIsFresh, ServicesSoFar, ComponentSoFar,
        ReconcilePcs, ServicePcs, RoutePcs
<1>4. CASE pc' \in EarlyPcs \cup LatePcs \cup {"deploy"}
  <2>1. pc' \notin EarlyPcs /\ Sure({"ns"})' => api'[NS] = "active"
    <3> SUFFICES ASSUME pc' \notin EarlyPcs, Sure({"ns"})'
                 PROVE  api'[NS] = "active"
      OBVIOUS
    <3>1. Sure({"ns"}) /\ ~Misreads("ns")
      BY <1>1, SureBefore, ProvisionKeeps DEF MisreadKinds
    <3>2. CASE pc \in LatePcs
      <4>1. api[NS] = "active"
        BY <3>1, <3>2 DEF ProgressInv, LatePcs, ReconcilePcs
      <4> QED
        BY <1>1, <4>1, ProvisionKeeps
    <3>3. CASE pc \notin LatePcs
      <4>1. /\ pc = "nsHealth" /\ pc' = "jwt"
            /\ View(NS) = "active" /\ UNCHANGED api
        BY <1>4, <3>3, PrerequisiteMoves DEF Stops, LatePcs, EarlyPcs
      <4> QED
        BY <3>1, <4>1 DEF Misreads
    <3> QED
      BY <3>2, <3>3
  <2>2. pc' = "deploy" => Ended' = {}
    BY <1>2 DEF Ended, ServicePcs
  <2>3. pc' \notin {"patch", "parent", "svc", "svcHealth", "route", "routeHealth"}
    BY <1>4 DEF EarlyPcs, LatePcs
  <2>4. PatchInv'
    BY <2>3 DEF PatchInv
  <2>5. ServicesSoFar'
    BY <1>2, <2>2, <2>3 DEF ServicesSoFar, ServicePcs, RoutePcs
  <2>6. WorkerIsFresh' /\ ComponentSoFar'
    BY <1>2, <2>3 DEF WorkerIsFresh, ComponentSoFar
  <2>7. pc' \in ReconcilePcs \ {"parent", "ns", "np", "nsHealth"}
           /\ Sure({"ns"})' => api'[NS] = "active"
    BY <2>1 DEF EarlyPcs
  <2> QED
    BY <1>1, <2>4, <2>5, <2>6, <2>7, ProvisionKeeps DEF ProgressInv
<1> QED
  BY <1>3, <1>4, PrerequisiteMoves DEF LatePcs

\* An error of the parent leaves the conditions of the components alone.
LEMMA ResolveParentProgress ==
    ASSUME TypeOK, EditsInv, ProgressInv, ResolveParent
    PROVE  ProgressInv' /\ PatchInv'
<1>1. Provision
  BY DEF Provision
<1>2. /\ at' = 1 /\ allReady' /\ work = base
      /\ pc = "parent" /\ pc' \in {"ns", "patch"}
  BY ResolveParentEdits
  DEF EditsInv, ProgressInv, WorkerIsFresh, ServicePcs, RoutePcs
<1>3. ProgressInv'
  BY <1>1, <1>2, ProvisionKeeps
  DEF ProgressInv, WorkerIsFresh, ServicesSoFar, ComponentSoFar, ServicePcs,
      RoutePcs, ReconcilePcs
<1>4. CASE pc' = "ns"
  BY <1>3, <1>4 DEF PatchInv
<1>5. CASE pc' = "patch"
  <2>1. /\ Judged(ReadyCond, "Error")
        /\ work'.phase = "Error" /\ work'.obs = work.obs
    BY <1>5, ResolveParentEdits
  <2>2. ComponentConds \subseteq Conds \ {ReadyCond}
    BY DEF ComponentConds, Conds, ReadyCond, ServiceReady, NamespaceReady,
           SecretsReady, DatabaseReady, RoutingReady
  <2>3. \A c \in ComponentConds : work'.conds[c] = base'.conds[c]
    BY <1>1, <1>2, <2>1, <2>2, ProvisionKeeps DEF Judged
  <2>4. work'.obs = base'.obs
    BY <1>1, <1>2, <2>1, ProvisionKeeps
  <2> QED
    BY <1>3, <2>1, <2>3, <2>4, Zenon DEF PatchInv
<1> QED
  BY <1>2, <1>4, <1>5

\* What a service that goes on has found or done.
LEMMA ServiceFinds ==
    ASSUME TypeOK, cr.fin, Remember, ProgressInv, ServiceStep,
           pc' \in {"svc", "svcHealth"}, UNCHANGED <<at, work, allReady>>
    PROVE  ComponentSoFar'
<1> USE ObjectKeys
<1>0. Provision
  BY DEF Provision, ServiceStep
<1>1. at \in Services /\ UNCHANGED my
  BY <1>0, ProvisionStep DEF TypeOK, ComponentFrame
<1> PICK s \in Services : s = at
  BY <1>1
<1>2. \A k \in Keys : \A v : Sets(k, v) => api'[k] = v
  BY DEF TypeOK, Sets
<1>3. \A kinds \in SUBSET MisreadKinds :
         Sure(kinds)' => Sure(kinds) /\ \A kind \in kinds : ~Misreads(kind)
  BY <1>1, SureBefore
<1>4. {"deploy"} \in SUBSET MisreadKinds /\ {"ns", "deploy"} \in SUBSET MisreadKinds
  BY DEF MisreadKinds
<1>5. CASE ScaleToZero
  <2>1. pc = "deploy" /\ my.susp /\ pc' = "svcHealth"
    BY <1>5 DEF ScaleToZero, EndService
  <2>2. Sure({"deploy"})' => ~Runs(api'[Deploy(s)])
    <3> SUFFICES ASSUME Sure({"deploy"})' PROVE ~Runs(api'[Deploy(s)])
      OBVIOUS
    <3> PICK out \in Outcomes :
           LET seen == View(Deploy(at))
               sent == seen # "absent" /\ out \notin {"unread", "undone"}
               hit  == sent /\ api[Deploy(at)] # "absent"
           IN  /\ Spend(out)
               /\ IF hit /\ seen # "zero"
                  THEN Write([api EXCEPT ![Deploy(at)] = "zero"])
                  ELSE UNCHANGED <<api, queued>>
               /\ IF \/ out = "unread" \/ seen = "absent"
                     \/ out = "ok" /\ hit
                  THEN pc' = "svcHealth" /\ UNCHANGED <<at, work, allReady>>
                  ELSE EndService("Error")
      BY <1>5 DEF ScaleToZero
    <3>1. UNCHANGED api \/ Sets(Deploy(s), "zero")
      BY DEF Write, Sets
    <3>2. ~EndService("Error")
      BY DEF EndService
    <3>3. CASE ~Runs(api[Deploy(s)])
      BY <1>2, <3>1, <3>3 DEF Runs
    <3>4. CASE Runs(api[Deploy(s)])
      <4>1. Runs(View(Deploy(s))) /\ faults' = faults
        BY <1>3, <1>4, <2>1, <3>4 DEF Misreads
      <4>2. out # "unread"
        BY <4>1 DEF Spend, TypeOK
      <4>3. Sets(Deploy(s), "zero")
        BY <3>2, <3>4, <4>1, <4>2 DEF Runs, Write, Sets
      <4> QED
        BY <1>2, <4>3 DEF Runs
    <3> QED
      BY <3>3, <3>4
  <2> QED
    BY <1>1, <2>1, <2>2 DEF ComponentSoFar, Served, Scaled
<1>6. CASE ReconcileDeployment
  <2>1. pc = "deploy" /\ ~my.susp /\ pc' = "svc"
    BY <1>6 DEF ReconcileDeployment, EndService
  <2>2. \/ Sets(Deploy(s), "pending")
        \/ /\ UNCHANGED api /\ api[Deploy(s)] # "absent"
           /\ View(Deploy(s)) # "absent"
           /\ View(Deploy(s)) # "zero" \/ api[Deploy(s)] # "zero"
    BY <1>6, <2>1
    DEF ReconcileDeployment, EndService, BuildDeployment, Write, Sets
  <2>3. Sure({"ns", "deploy"})' => Runs(api'[Deploy(s)])
    <3> SUFFICES ASSUME Sure({"ns", "deploy"})', ~Sets(Deploy(s), "pending")
                 PROVE  Runs(api'[Deploy(s)])
      BY <1>2 DEF Runs
    <3>1. ~Misreads("deploy")
      BY <1>3, <1>4
    <3> QED
      BY <2>1, <2>2, <3>1 DEF Misreads, Runs
  <2> QED
    BY <1>1, <2>1, <2>3 DEF ComponentSoFar, Scaled
<1>7. CASE ReconcileService
  <2>1. pc = "svc" /\ pc' = "svcHealth" /\ ~my.susp /\ Scaled(s)
    BY <1>7 DEF ReconcileService, EndService, ProgressInv, ComponentSoFar
  <2>2. \/ Sets(Svc(s), "present")
        \/ UNCHANGED api /\ api[Svc(s)] # "absent"
    BY <1>7, <2>1
    DEF ReconcileService, EndService, BuildService, Write, Sets
  <2>3. api'[Svc(s)] = "present" /\ api'[Deploy(s)] = api[Deploy(s)]
    BY <1>0, <1>2, <2>1, <2>2, ProvisionKeeps DEF ProgressInv
  <2>4. Scaled(s)'
    BY <1>1, <1>3, <1>4, <2>1, <2>3 DEF Scaled
  <2> QED
    BY <1>1, <2>1, <2>3, <2>4 DEF ComponentSoFar, Served
<1>8. CASE ServiceHealthcheck
  <2>1. \E reason : EndService(reason)
    BY <1>8 DEF ServiceHealthcheck
  <2> QED
    BY <2>1 DEF EndService
<1> QED
  BY <1>5, <1>6, <1>7, <1>8 DEF ServiceStep

\* What the services that have ended were found to be stays, and so do the
\* conditions of those that failed, while others are worked on.
LEMMA EndedKeep ==
    ASSUME TypeOK, cr.fin, Remember, ProgressInv, Provision, NEW i \in Services,
           pc = "deploy" => i # at
    PROVE  /\ Served(i) => Served(i)'
           /\ \A c \in Conds : \A reason :
                 /\ Judged(c, reason) /\ c # ServiceReady(i)
                 /\ Fails(ServiceReady(i))
                 => Fails(ServiceReady(i))'
<1>1. UNCHANGED my
  BY ProvisionKeeps
<1>2. \A kinds \in SUBSET MisreadKinds : Sure(kinds)' => Sure(kinds)
  BY <1>1, SureBefore
<1>3. /\ Sure({"ns", "deploy"})' => Sure({"ns", "deploy"})
      /\ Sure({"deploy"})' => Sure({"deploy"})
      /\ Sure({"ns"})' => Sure({"ns"})
  BY <1>2 DEF MisreadKinds
<1>4. Served(i) => Served(i)'
  BY <1>1, <1>3, ProvisionKeeps DEF Served, Scaled
<1> QED
  BY <1>1, <1>4, CondTypes DEF Judged, Fails

\* The conditions of different components are different.
LEMMA ServiceConds ==
    \A i \in Services : /\ ServiceReady(i) \in ComponentConds
                        /\ ServiceReady(i) # RoutingReady
                        /\ \A j \in Services : ServiceReady(i) = ServiceReady(j)
                                                   => i = j
BY DEF ServiceReady, RoutingReady, ComponentConds

\* Progress from service to service.
LEMMA ServiceProgress ==
    ASSUME TypeOK, cr.fin, Remember, ProgressInv, ServiceStep
    PROVE  ProgressInv' /\ PatchInv'
<1>1. Provision
  BY DEF Provision, ServiceStep
<1>2. pc \in ServicePcs /\ at \in 1 .. NumServices /\ NumServices \in Nat
  BY ServiceStepEnds, ServicesAssumption DEF TypeOK, Services
<1>3. Ended = 1 .. at - 1 /\ \A i \in Ended : i \in Services /\ i # at
  BY <1>2 DEF Ended, Services
<1>4. Sure({"ns"})' => api'[NS] = "active"
  <2>1. Sure({"ns"})' => Sure({"ns"})
    BY <1>1, SureBefore, ProvisionKeeps DEF MisreadKinds
  <2> QED
    BY <1>1, <1>2, <2>1, ProvisionKeeps DEF ProgressInv, ServicePcs, ReconcilePcs
<1>5. \A i \in Ended : Served(i) => Served(i)'
  BY <1>1, <1>3, EndedKeep
<1>6. CASE pc' \in {"svc", "svcHealth"} /\ UNCHANGED <<at, work, allReady>>
  <2>1. Ended' = Ended
    BY <1>3, <1>6 DEF Ended, ServicePcs
  <2>2. \A c : Fails(c)' = Fails(c)
    BY <1>1, <1>6, ProvisionKeeps DEF Fails
  <2>3. ServicesSoFar'
    BY <1>2, <1>5, <1>6, <2>1, <2>2
    DEF ProgressInv, ServicesSoFar, ServicePcs
  <2>4. ComponentSoFar'
    BY <1>6, ServiceFinds
  <2>5. WorkerIsFresh' /\ PatchInv'
    BY <1>6 DEF WorkerIsFresh, PatchInv, ServicePcs
  <2> QED
    BY <1>1, <1>4, <2>3, <2>4, <2>5, ProvisionKeeps DEF ProgressInv
<1>7. ASSUME NEW reason, EndService(reason),
             reason = "Ready" =>
                /\ pc = "svcHealth" /\ UNCHANGED api
                /\ my.susp \/ View(Deploy(at)) = "ready"
      PROVE  ProgressInv' /\ PatchInv'
  <2>1. /\ Judged(ServiceReady(at), reason)
        /\ allReady' = (allReady /\ reason = "Ready")
        /\ pc' \in {"deploy", "route"}
        /\ Ended' = Ended \cup {at}
    <3>1. Ended' = IF at < NumServices THEN 1 .. at ELSE 1 .. NumServices
      BY <1>2, <1>7 DEF EndService, Ended, ServicePcs, Services
    <3>2. Ended' = Ended \cup {at}
      BY <1>2, <1>3, <3>1
    <3> QED
      BY <1>7, <3>2, EndServiceEdits
  <2>2. \A i \in Ended : Fails(ServiceReady(i)) => Fails(ServiceReady(i))'
    BY <1>1, <1>2, <1>3, <2>1, EndedKeep, ServiceConds, CondTypes DEF Services
  <2> PICK s \in Services : s = at
    BY <1>2 DEF Services
  <2>3. reason # "Ready" => Fails(ServiceReady(s))'
    BY <1>1, <2>1, ProvisionKeeps DEF Judged, Fails
  <2>4. reason = "Ready" => Served(s)'
    <3> SUFFICES ASSUME reason = "Ready" PROVE Served(s)'
      OBVIOUS
    <3>1. pc = "svcHealth" /\ Served(s)
      BY <1>7 DEF ProgressInv, ComponentSoFar
    <3> QED
      BY <1>1, <3>1, EndedKeep
  <2>5. IF allReady THEN \A i \in Ended : Served(i)
                    ELSE \E i \in Ended : Fails(ServiceReady(i))
    BY <1>2 DEF ProgressInv, ServicesSoFar
  <2>6. ServicesSoFar'
    <3>1. CASE reason # "Ready"
      BY <2>1, <2>3, <3>1 DEF ServicesSoFar
    <3>2. CASE reason = "Ready" /\ allReady
      BY <1>5, <2>1, <2>4, <2>5, <3>2 DEF ServicesSoFar
    <3>3. CASE reason = "Ready" /\ ~allReady
      BY <2>1, <2>2, <2>5, <3>3 DEF ServicesSoFar
    <3> QED
      BY <3>1, <3>2, <3>3
  <2>7. WorkerIsFresh' /\ ComponentSoFar' /\ PatchInv'
    BY <2>1 DEF WorkerIsFresh, ComponentSoFar, PatchInv, ServicePcs, RoutePcs
  <2> QED
    BY <1>1, <1>4, <2>6, <2>7, ProvisionKeeps DEF ProgressInv
<1> QED
  BY <1>6, <1>7, ServiceStepEnds

\* A route that was reconciled is there, one that was removed is not.
LEMMA RouteFinds ==
    ASSUME TypeOK, cr.fin, Remember, ProgressInv, RouteStep,
           pc' = "routeHealth"
    PROVE  RouteIsAsAsked'
<1> USE ObjectKeys DEF RouteIsAsAsked
<1> UNCHANGED my
  BY ProvisionKeeps DEF Provision, RouteStep
<1>1. \A v : Sets(ROUTE, v) => api'[ROUTE] = v
  BY DEF TypeOK, Sets
<1>2. CASE RoutingReconcile
  <2>1. /\ ~my.susp
        /\ \/ Sets(ROUTE, "present")
           \/ UNCHANGED api /\ api[ROUTE] # "absent"
    BY <1>2 DEF RoutingReconcile, EndRouting, buildHTTPRoute, Write, Sets
  <2> QED
    BY <1>1, <2>1 DEF ProgressInv
<1>3. CASE RemoveRoute
  <2>1. /\ my.susp /\ pc = "route"
        /\ \/ Sets(ROUTE, "absent")
           \/ UNCHANGED api /\ View(ROUTE) = "absent"
    BY <1>3
    DEF RemoveRoute, EndRouting, deleteHTTPRoute, RouteDeleted, Write, Sets
  <2>2. Sure({"route"})' => ~Misreads("route")
    BY SureBefore DEF MisreadKinds
  <2>3. Sure({"route"})' => api'[ROUTE] = "absent"
    BY <1>1, <2>1, <2>2 DEF Misreads
  <2> QED
    BY <2>1, <2>3
<1>4. CASE RoutingHealthcheck
  BY <1>4 DEF RoutingHealthcheck, EndRouting
<1> QED
  BY <1>2, <1>3, <1>4 DEF RouteStep

\* The phase of a full pass.
LEMMA DerivedPhase ==
    ASSUME NEW r \in BOOLEAN
    PROVE  \/ my.susp /\ DerivePhase(r) = "Suspended"
           \/ ~my.susp /\ allReady /\ r /\ DerivePhase(r) = "Ready"
           \/ ~my.susp /\ ~(allReady /\ r) /\ DerivePhase(r) = "Provisioning"
<1>1. CASE my.susp
  BY <1>1, Zenon DEF DerivePhase
<1>2. CASE ~my.susp /\ allReady /\ r
  BY <1>2, Zenon DEF DerivePhase
<1>3. CASE ~my.susp /\ ~(allReady /\ r)
  BY <1>3, Zenon DEF DerivePhase
<1> QED
  BY <1>1, <1>2, <1>3

\* Progress through routing: what a full pass is about to write is so.
LEMMA RouteProgress ==
    ASSUME TypeOK, cr.fin, Remember, ProgressInv, RouteStep
    PROVE  ProgressInv' /\ PatchInv'
<1>1. Provision
  BY DEF Provision, RouteStep
<1>2. /\ pc \in RoutePcs /\ UNCHANGED <<my, at, allReady>>
      /\ Ended = Services
  BY <1>1, RouteStepEnds, ProvisionKeeps DEF Ended, ServicePcs, RoutePcs
<1>3. Sure({"ns"})' => api'[NS] = "active"
  <2>1. Sure({"ns"})' => Sure({"ns"})
    BY <1>2, SureBefore DEF MisreadKinds
  <2> QED
    BY <1>1, <1>2, <2>1, ProvisionKeeps DEF ProgressInv, RoutePcs, ReconcilePcs
<1>4. \A i \in Services : Served(i) => Served(i)'
  BY <1>1, <1>2, EndedKeep DEF RoutePcs
<1>5. IF allReady THEN \A i \in Services : Served(i)
                  ELSE \E i \in Services : Fails(ServiceReady(i))
  BY <1>2 DEF ProgressInv, ServicesSoFar
<1>6. CASE pc' = "routeHealth" /\ UNCHANGED work
  <2>1. Ended' = Services /\ \A c : Fails(c)' = Fails(c)
    BY <1>2, <1>6 DEF Ended, ServicePcs, Fails
  <2>2. ServicesSoFar'
    BY <1>2, <1>4, <1>5, <2>1 DEF ServicesSoFar
  <2>3. ComponentSoFar'
    BY <1>2, <1>6, RouteFinds DEF ComponentSoFar
  <2>4. WorkerIsFresh' /\ PatchInv'
    BY <1>6 DEF WorkerIsFresh, PatchInv, RoutePcs
  <2> QED
    BY <1>1, <1>3, <2>2, <2>3, <2>4, ProvisionKeeps DEF ProgressInv
<1>7. ASSUME NEW reason, EndRouting(reason),
             reason = "Ready" => pc = "routeHealth" /\ UNCHANGED api
      PROVE  ProgressInv' /\ PatchInv'
  <2>1. /\ Judged(RoutingReady, reason) /\ pc' = "patch"
        /\ work'.phase = DerivePhase(reason = "Ready")
        /\ work'.obs = my'.gen
    BY <1>2, <1>7, EndRoutingEdits
  <2>2. \A i \in Services : Fails(ServiceReady(i)) => Fails(ServiceReady(i))'
    BY <1>1, <1>2, <2>1, EndedKeep, ServiceConds, CondTypes DEF RoutePcs
  <2>3. RoutingReady \in ComponentConds /\ work'.conds[RoutingReady].gen = my'.gen
    BY <1>2, <2>1 DEF Judged, ComponentConds
  <2>4. ~(allReady /\ reason = "Ready") => \E c \in ComponentConds : Fails(c)'
    <3>1. reason # "Ready" => Fails(RoutingReady)'
      BY <1>2, <2>1 DEF Judged, Fails
    <3>2. ~allReady => \E i \in Services : Fails(ServiceReady(i))'
      BY <1>5, <2>2
    <3> QED
      BY <2>3, <3>1, <3>2, ServiceConds
  <2>5. allReady /\ reason = "Ready" =>
           /\ RouteIsAsAsked'
           /\ \A i \in Services : Served(i)'
    <3> SUFFICES ASSUME allReady, reason = "Ready"
                 PROVE  RouteIsAsAsked' /\ \A i \in Services : Served(i)'
      OBVIOUS
    <3>1. RouteIsAsAsked /\ UNCHANGED api
      BY <1>7 DEF ProgressInv, ComponentSoFar
    <3>2. Sure({"route"})' => Sure({"route"})
      BY <1>2, SureBefore DEF MisreadKinds
    <3>3. RouteIsAsAsked'
      BY <1>2, <3>1, <3>2 DEF RouteIsAsAsked
    <3> QED
      BY <1>4, <1>5, <3>3
  <2>6. PatchInv'
    <3>1. CASE my.susp /\ DerivePhase(reason = "Ready") = "Suspended"
      <4>1. Sure({"deploy", "route"})' => Sure({"deploy"})' /\ Sure({"route"})'
        BY DEF Sure, Misled
      <4>2. Sure({"deploy", "route"})' /\ (\A c \in ComponentConds : ~Fails(c)')
               => ScaledDown'
        <5> SUFFICES ASSUME Sure({"deploy", "route"})',
                            \A c \in ComponentConds : ~Fails(c)'
                     PROVE  ScaledDown'
          OBVIOUS
        <5>1. RouteIsAsAsked' /\ \A i \in Services : Served(i)'
          BY <2>4, <2>5
        <5>2. my'.susp
          BY <1>2, <3>1
        <5> QED
          BY <4>1, <5>1, <5>2 DEF Served, Scaled, ScaledDown, RouteIsAsAsked
      <4> QED
        BY <1>2, <2>1, <2>3, <3>1, <4>2, Zenon DEF PatchInv
    <3>2. CASE /\ ~my.susp /\ allReady /\ reason = "Ready"
               /\ DerivePhase(reason = "Ready") = "Ready"
      <4>1. Sure({"ns", "deploy"})' => Sure({"ns"})'
        BY DEF Sure, Misled
      <4>2. ~my'.susp
        BY <1>2, <3>2
      <4>3. Sure({"ns", "deploy"})' => Deployed'
        BY <1>3, <2>5, <3>2, <4>1, <4>2
        DEF Served, Scaled, Deployed, RouteIsAsAsked
      <4>4. /\ work'.phase = "Ready" /\ work'.obs = my'.gen
            /\ work'.conds[RoutingReady].gen = my'.gen
        BY <2>1, <2>3, <3>2
      <4> QED
        BY <4>2, <4>3, <4>4, Zenon DEF PatchInv
    <3>3. CASE /\ ~(allReady /\ reason = "Ready")
               /\ DerivePhase(reason = "Ready") = "Provisioning"
      BY <2>1, <2>4, <3>3, Zenon DEF PatchInv
    <3> QED
      BY <3>1, <3>2, <3>3, DerivedPhase
  <2> QED
    BY <1>1, <2>1, <2>6, ProvisionKeeps
    DEF ProgressInv, WorkerIsFresh, ServicesSoFar, ComponentSoFar, ServicePcs,
        RoutePcs, ReconcilePcs
<1> QED
  BY <1>6, <1>7, RouteStepEnds

\* The cleanup deletes the route and touches no Service.
LEMMA CleanUpObjects ==
    ASSUME TypeOK, CleanUp
    PROVE  /\ api'[ROUTE] \in {api[ROUTE], "absent"}
           /\ \A i \in Services : api'[Svc(i)] = api[Svc(i)]
<1> USE ObjectKeys
<1>1. \A k \in Keys : \A v : Sets(k, v) =>
         /\ api'[k] = v
         /\ \A o \in Keys \ {k} : api'[o] = api[o]
  BY DEF TypeOK, Sets
<1>2. \/ UNCHANGED api
      \/ Sets(ROUTE, "absent")
      \/ \E k \in {DATABASE, JOB, NS} : \E v : Sets(k, v)
  <2>1. CASE FinalizeParent
    BY <2>1 DEF FinalizeParent
  <2>2. CASE FinalizeRouting
    BY <2>2 DEF FinalizeRouting, deleteHTTPRoute, Write, Sets
  <2>3. CASE DatabaseFinalize
    BY <2>3 DEF DatabaseFinalize, FinalizeDelete, Write, Sets
  <2>4. CASE NamespaceFinalize
    BY <2>4 DEF NamespaceFinalize, Write, Sets
  <2> QED
    BY <2>1, <2>2, <2>3, <2>4 DEF CleanUp
<1> QED
  BY <1>1, <1>2

\* Initially there is nothing to keep.
LEMMA InitProgress == Init => ProgressInv /\ PatchInv
<1> SUFFICES ASSUME Init PROVE ProgressInv /\ PatchInv
  OBVIOUS
<1>1. /\ api[ROUTE] = "absent"
      /\ \A i \in Services : api[Svc(i)] = "absent"
  BY ObjectKeys DEF Init
<1>2. pc = "idle" /\ at = 1 /\ allReady
  BY Zenon DEF Init
<1> QED
  BY <1>1, <1>2
  DEF ProgressInv, PatchInv, WorkerIsFresh, ServicesSoFar, ComponentSoFar,
      ReconcilePcs, ServicePcs, RoutePcs

\* So does a step that moves nothing of it.
LEMMA Unmoved ==
    ASSUME ProgressInv, PatchInv,
           UNCHANGED <<my, base, work, pc, at, allReady, api, misread>>
    PROVE  ProgressInv' /\ PatchInv'
<1>1. ProgressInv'
  BY DEF ProgressInv, WorkerIsFresh, ServicesSoFar, ComponentSoFar, Ended,
         Served, Scaled, Fails, RouteIsAsAsked, Sure, Misled
<1>2. PatchInv'
  BY Zenon DEF PatchInv, Fails, Sure, Misled, Deployed, ScaledDown
<1> QED
  BY <1>1, <1>2

\* Every step keeps progress.
LEMMA NextProgress ==
    ASSUME TypeOK, FinalizerInv, GenerationInv, EditsInv, ProgressInv,
           PatchInv, [HistoryNext]_hvars
    PROVE  ProgressInv' /\ PatchInv'
<1>0. CASE UNCHANGED hvars
  <2>1. UNCHANGED <<my, base, work, pc, at, allReady, api, misread>>
    BY <1>0 DEF hvars, vars, workerVars, kubeVars
  <2> QED
    BY <2>1, Unmoved
<1> SUFFICES ASSUME Next, Remember PROVE ProgressInv' /\ PatchInv'
  BY <1>0 DEF HistoryNext
<1>1. CASE Provision
  BY <1>1, PassHasFinalizer, ResolveParentProgress, PrerequisiteProgress,
     ServiceProgress, RouteProgress
  DEF Provision, PrerequisiteStep, ServiceStep, RouteStep
<1>2. /\ api[ROUTE] \in {"absent", "present"}
      /\ \A i \in Services : api[Svc(i)] \in {"absent", "present"}
  BY DEF ProgressInv
<1>3. ASSUME NEW again, Done(again), UNCHANGED api
      PROVE  ProgressInv' /\ PatchInv'
  <2>1. pc' = "idle" /\ at' = 1 /\ allReady'
    BY <1>3 DEF Done
  <2> QED
    BY <1>2, <1>3, <2>1, FreshProgress
<1>4. CASE StartReconcile
  <2>1. UNCHANGED api /\ pc = "idle"
    BY <1>4, OthersKeep DEF StartReconcile
  <2>2. \/ \E again : Done(again)
        \/ /\ pc' \in {"finPatch", "addFin", "parent"}
           /\ base' = seenStatus /\ work' = seenStatus
           /\ UNCHANGED <<at, allReady>>
    BY <1>4 DEF StartReconcile
  <2>3. at = 1 /\ allReady
    BY <2>1 DEF ProgressInv, WorkerIsFresh, ServicePcs, RoutePcs
  <2>4. {"finPatch", "addFin", "parent"} \subseteq
           {"idle", "addFin", "parent"} \cup FinalizePcs
    BY DEF FinalizePcs
  <2>5. CASE \E again : Done(again)
    BY <1>3, <2>1, <2>5
  <2>6. CASE /\ pc' \in {"finPatch", "addFin", "parent"}
             /\ base' = seenStatus /\ work' = seenStatus
             /\ UNCHANGED <<at, allReady>>
    BY <1>2, <2>1, <2>3, <2>4, <2>6, FreshProgress
  <2> QED
    BY <2>2, <2>5, <2>6
<1>5. CASE AddFinalizer \/ PatchStatus \/ RemoveFinalizer
  <2>1. \E again : Done(again)
    BY <1>5 DEF AddFinalizer, PatchStatus, RemoveFinalizer
  <2> QED
    BY <1>3, <1>5, <2>1, OthersKeep
<1>6. CASE Restart
  <2>1. pc' = "idle" /\ at' = 1 /\ allReady'
    BY <1>6 DEF Restart
  <2> QED
    BY <1>2, <1>6, <2>1, OthersKeep, FreshProgress
<1>7. CASE MarkDeleting
  <2>1. pc = "finPatch" /\ pc' = "finParent" /\ UNCHANGED <<at, allReady>>
    BY <1>7 DEF MarkDeleting
  <2>2. at' = 1 /\ allReady'
    BY <2>1 DEF ProgressInv, WorkerIsFresh, ServicePcs, RoutePcs
  <2>3. pc' \in FinalizePcs /\ pc' # "parent"
    BY <2>1 DEF FinalizePcs
  <2> QED
    BY <1>2, <1>7, <2>2, <2>3, OthersKeep, FreshProgress
<1>8. CASE CleanUp
  <2>1. pc \in FinalizePcs /\ at = 1 /\ allReady
    BY <1>8, CleanUpStep
    DEF ProgressInv, WorkerIsFresh, ServicePcs, RoutePcs, FinalizePcs
  <2>2. /\ pc' \in {"idle"} \cup FinalizePcs
        /\ at' = 1 /\ allReady'
    BY <1>8, <2>1, CleanUpStep DEF Done, GoOn
  <2>3. pc' # "parent"
    BY <2>2 DEF FinalizePcs
  <2>4. /\ api'[ROUTE] \in {"absent", "present"}
        /\ \A i \in Services : api'[Svc(i)] \in {"absent", "present"}
    BY <1>2, <1>8, CleanUpObjects
  <2> QED
    BY <2>2, <2>3, <2>4, FreshProgress
<1>9. CASE \/ TimerFires \/ DeliverTenant
           \/ \E kind \in Lagging : Deliver(kind)
  <2>1. UNCHANGED <<my, base, work, pc, at, allReady>>
    BY <1>9 DEF TimerFires, DeliverTenant, Deliver, workerVars
  <2>2. Undisturbed
    BY <1>9, OthersKeep DEF Undisturbed
  <2> QED
    BY <2>1, <2>2, KeptProgress
<1>10. CASE User \/ Cluster
  BY <1>10, SurroundingsUndisturbed, OthersChangeTenant, KeptProgress
<1> QED
  BY <1>1, <1>4, <1>5, <1>6, <1>7, <1>8, <1>9, <1>10
  DEF Next, WorkerStep, Provision, CleanUp

-----------------------------------------------------------------------------
(* Generations only go up. *)

\* A pass claims the generation it is about, or leaves generation and
\* conditions as it found them: what provisioning edits.
LEMMA ProvisionEditsStatus ==
    ASSUME TypeOK, EditsInv, Provision
    PROVE  EditsInv'
<1>1. UNCHANGED <<my, base>>
  BY ProvisionStep DEF ComponentFrame
<1>2. \A phase \in {"Provisioning", "Ready", "Suspended"} : phase # "Error"
  OBVIOUS
<1>3. CASE ResolveParent
  <2>1. CASE pc' = "ns"
    BY <2>1 DEF EditsInv
  <2>2. CASE /\ pc' = "patch" /\ Judged(ReadyCond, "Error")
             /\ work'.phase = "Error" /\ work'.obs = work.obs
    <3>1. work = base
      BY <1>3, ResolveParentEdits DEF EditsInv
    <3>2. ComponentConds \subseteq Conds \ {ReadyCond}
      BY DEF ComponentConds, Conds, ReadyCond, ServiceReady, NamespaceReady,
             SecretsReady, DatabaseReady, RoutingReady
    <3> QED
      BY <1>1, <2>2, <3>1, <3>2 DEF Judged, EditsInv
  <2> QED
    BY <1>3, <2>1, <2>2, ResolveParentEdits
<1>4. CASE PrerequisiteStep
  <2>1. CASE \E c \in ComponentConds : Stops(c)
    BY <1>1, <1>2, <2>1 DEF Stops, EditsInv
  <2>2. CASE pc' \in EarlyPcs \cup LatePcs \cup {"deploy"}
    BY <2>2 DEF EarlyPcs, LatePcs, EditsInv
  <2> QED
    BY <1>4, <2>1, <2>2, PrerequisiteMoves DEF LatePcs
<1>5. CASE ServiceStep
  <2>1. pc' \in {"deploy", "svc", "svcHealth", "route"}
    BY <1>5, ServiceStepEnds DEF EndService
  <2> QED
    BY <2>1 DEF EditsInv
<1>6. CASE RouteStep
  <2>1. CASE pc' = "routeHealth"
    BY <2>1 DEF EditsInv
  <2>2. CASE \E reason : EndRouting(reason)
    <3> PICK reason : EndRouting(reason)
      BY <2>2
    <3>1. work'.phase = DerivePhase(reason = "Ready") /\ work'.obs = my.gen
      BY EndRoutingEdits
    <3>2. DerivePhase(reason = "Ready") \in {"Provisioning", "Ready", "Suspended"}
      BY DerivedPhase
    <3> QED
      BY <1>1, <1>2, <2>2, <3>1, <3>2 DEF EndRouting, EditsInv
  <2> QED
    BY <1>6, <2>1, <2>2, RouteStepEnds
<1> QED
  BY <1>3, <1>4, <1>5, <1>6
  DEF Provision, PrerequisiteStep, ServiceStep, RouteStep

\* Every step keeps it, however old the caches are.
LEMMA NextEdits ==
    ASSUME TypeOK, FinalizerInv, EditsInv, [Next]_vars
    PROVE  EditsInv'
<1>1. CASE StartReconcile
  BY <1>1 DEF StartReconcile, Done, EditsInv
<1>2. CASE pc' = "idle" \/ pc' \in FinalizePcs
  BY <1>2 DEF EditsInv, FinalizePcs
<1>3. CASE \/ AddFinalizer \/ PatchStatus \/ MarkDeleting \/ CleanUp
           \/ RemoveFinalizer \/ Restart
  <2>1. CASE CleanUp
    BY <1>2, <2>1, CleanUpStep DEF Done, GoOn
  <2>2. CASE MarkDeleting
    BY <1>2, <2>2 DEF MarkDeleting, FinalizePcs
  <2> QED
    BY <1>2, <1>3, <2>1, <2>2
    DEF AddFinalizer, PatchStatus, RemoveFinalizer, Restart, Done
<1>4. CASE \/ TimerFires \/ DeliverTenant
           \/ \E kind \in Lagging : Deliver(kind)
           \/ User \/ Cluster \/ UNCHANGED vars
  <2>1. UNCHANGED <<my, base, work, pc>>
    BY <1>4, OthersChangeTenant
    DEF TimerFires, DeliverTenant, Deliver, vars, workerVars
  <2> QED
    BY <2>1 DEF EditsInv
<1> QED
  BY <1>1, <1>3, <1>4, ProvisionEditsStatus
  DEF Next, WorkerStep, Provision, CleanUp

\* The initial states satisfy both: there is no pass.
LEMMA InitGenerations == Init => GenerationInv /\ EditsInv
<1>1. Init => EditsInv
  BY Zenon DEF Init, EditsInv
<1> QED
  BY <1>1, InitGeneration

\* Passes, patches and statuses go by generation, whatever is written, lost or
\* changed meanwhile and however old the caches are.
THEOREM GenerationsInvariant == Spec => [](GenerationInv /\ EditsInv)
<1> DEFINE IInv == TypeOK /\ FinalizerInv /\ GenerationInv /\ EditsInv
<1>1. Init => IInv
  BY InitType, InitFinalizerInv, InitGenerations
<1>2. IInv /\ [Next]_vars => IInv'
  BY NextType, NextFinalizerInv, NextGenerations, NextEdits
<1>3. IInv => GenerationInv /\ EditsInv
  OBVIOUS
<1> QED
  BY <1>1, <1>2, <1>3, PTL DEF Spec

\* As long as the tenant lives its ObservedGeneration only goes up, and never
\* beyond the generation of its spec: a patch computed from an old tenant, one
\* that comes late and one that hits a recreated tenant included.
THEOREM TenantGenerationNeverGoesBack == Spec => GenerationNeverGoesBack
<1> DEFINE Known == TypeOK /\ FinalizerInv /\ GenerationInv /\ EditsInv
<1>1. Spec => []Known
  BY TypeCorrect, FinalizerInvariant, GenerationsInvariant, PTL
<1>2. Known /\ Known' /\ [Next]_vars =>
         [cr.present /\ cr'.present =>
             status.obs <= status'.obs /\ status'.obs <= cr'.gen]_vars
  <2> SUFFICES ASSUME Known, Known', [Next]_vars, cr.present, cr'.present
               PROVE  status.obs <= status'.obs /\ status'.obs <= cr'.gen
    OBVIOUS
  <2>1. status'.obs <= cr'.gen
    BY DEF GenerationInv
  <2>2. status.obs \in Nat
    BY DEF TypeOK, Statuses
  <2>3. CASE status'.obs = status.obs
    BY <2>1, <2>2, <2>3
  <2>4. CASE PatchStatus
    BY <2>1, <2>2, <2>3, <2>4, PatchSends
  <2>5. CASE MarkDeleting
    BY <2>3, <2>5, MarkDeletingPatches
  <2>6. CASE RemoveFinalizer
    BY <2>3, <2>6 DEF RemoveFinalizer, crVars
  <2>7. CASE User \/ Cluster
    BY <2>3, <2>7, OthersChangeTenant DEF TenantStays, TenantComesOrGoes
  <2>8. CASE \/ StartReconcile \/ AddFinalizer \/ Provision \/ CleanUp
             \/ TimerFires \/ DeliverTenant \/ Restart
             \/ \E kind \in Lagging : Deliver(kind)
             \/ UNCHANGED vars
    <3>1. UNCHANGED status
      BY <2>8, ProvisionStep, CleanUpStep
      DEF StartReconcile, AddFinalizer, TimerFires, DeliverTenant, Restart,
          Deliver, ComponentFrame, FinalizeFrame, vars, crVars
    <3> QED
      BY <2>3, <3>1
  <2> QED
    BY <2>4, <2>5, <2>6, <2>7, <2>8 DEF Next, WorkerStep, Provision, CleanUp
<1> QED
  BY <1>1, <1>2, PTL DEF Spec, GenerationNeverGoesBack

-----------------------------------------------------------------------------
(* A status that claims the current generation. *)

\* Where the statuses of the next state come from: the cached one and the base
\* of a patch are copies of earlier ones, of a tenant with the finalizer.
CopiesOfStatus ==
    /\ status' = status
    /\ seenStatus' = status \/ UNCHANGED <<seenCR, seenStatus>>
    /\ InPass' => \/ InPass /\ base' = base
                  \/ Owned(seenCR) /\ base' = seenStatus

\* The pass about a tenant whose status claims the current generation is
\* about that generation.
LEMMA PassIsCurrent ==
    ASSUME TypeOK, GenerationInv, InPass, status.obs = cr.gen
    PROVE  my.gen = cr.gen /\ my.susp = cr.susp
BY DEF GenerationInv, Follows, TypeOK, CRs, Statuses

\* In a step after which the status of a live tenant claims the current
\* generation, it did so before, for the same spec, unless the step patched it.
LEMMA ClaimIsOld ==
    ASSUME TypeOK, FinalizerInv, GenerationInv, [Next]_vars, ~PatchStatus,
           cr'.fin, ~cr'.deleting, status'.obs = cr'.gen
    PROVE  /\ cr.fin /\ ~cr.deleting
           /\ cr'.gen = cr.gen /\ cr'.susp = cr.susp
           /\ CopiesOfStatus
<1> USE DEF CopiesOfStatus
<1>1. CASE StartReconcile
  BY <1>1, StartReconcileCopies DEF StartReconcile, crVars, seenVars
<1>2. CASE AddFinalizer
  <2>1. /\ pc = "addFin" /\ Done(TRUE)
        /\ UNCHANGED <<status, seenCR, seenStatus>>
        /\ \/ UNCHANGED cr
           \/ rvOK /\ cr' = [cr EXCEPT !.fin = TRUE]
    BY <1>2 DEF AddFinalizer, seenVars
  <2>2. ~InPass'
    BY <2>1 DEF Done, InPass, ReconcilePcs
  <2>3. /\ cr'.gen = cr.gen /\ cr'.susp = cr.susp
        /\ cr'.deleting = cr.deleting /\ cr'.present = cr.present
    BY <2>1 DEF TypeOK, CRs
  <2>4. cr.fin
    <3>1. CASE UNCHANGED cr
      BY <3>1
    <3>2. CASE rvOK
      <4>1. cr.present
        BY <2>1, <3>2
        DEF FinalizerInv, FinalizerGoesOnLive, CopiesAreCurrent
      <4>2. status.obs = cr.gen
        BY <2>1, <2>3
      <4> QED
        BY <2>3, <4>1, <4>2 DEF GenerationInv
    <3> QED
      BY <2>1, <3>1, <3>2
  <2> QED
    BY <2>1, <2>2, <2>3, <2>4
<1>3. CASE Provision
  BY <1>3, ProvisionStep DEF ComponentFrame, crVars, seenVars, InPass
<1>4. CASE MarkDeleting
  <2>1. pc \in FinalizePcs /\ UNCHANGED cr
    BY <1>4 DEF MarkDeleting, FinalizePcs
  <2> QED
    BY <2>1 DEF FinalizerInv, PassesAreJustified
<1>5. CASE CleanUp
  <2>1. pc \in FinalizePcs /\ UNCHANGED cr
    BY <1>5, CleanUpStep DEF FinalizeFrame, crVars
  <2> QED
    BY <2>1 DEF FinalizerInv, PassesAreJustified
<1>6. CASE RemoveFinalizer
  <2>1. pc \in FinalizePcs /\ (UNCHANGED crVars \/ cr' = WithoutFinalizer(cr))
    BY <1>6 DEF RemoveFinalizer, FinalizePcs
  <2>2. ~WithoutFinalizer(cr).fin
    BY DEF WithoutFinalizer, NoCR, TypeOK, CRs
  <2> QED
    BY <2>1, <2>2 DEF FinalizerInv, PassesAreJustified, crVars
<1>7. CASE TimerFires \/ \E kind \in Lagging : Deliver(kind)
  BY <1>7 DEF TimerFires, Deliver, crVars, seenVars, workerVars, InPass
<1>8. CASE DeliverTenant
  BY <1>8 DEF DeliverTenant, workerVars, InPass
<1>9. CASE Restart
  BY <1>9 DEF Restart, InPass, ReconcilePcs
<1>10. CASE User \/ Cluster
  <2>1. /\ UNCHANGED <<seenCR, seenStatus, base, pc>>
        /\ TenantStays \/ TenantComesOrGoes
    BY <1>10, OthersChangeTenant
  <2>2. FinalizerInv'
    BY NextFinalizerInv
  <2>3. ~TenantComesOrGoes
    BY <2>2 DEF FinalizerInv, FinalizerGoesOnLive, TenantComesOrGoes
  <2>4. /\ status' = status /\ cr.fin /\ ~cr.deleting
        /\ cr.gen <= cr'.gen /\ (cr'.gen = cr.gen => cr'.susp = cr.susp)
    BY <2>1, <2>3 DEF TenantStays
  <2>5. status.obs <= cr.gen
    BY <2>4 DEF GenerationInv, FinalizerInv, FinalizerGoesOnLive
  <2>6. cr.gen \in Nat /\ cr'.gen \in Nat
    BY NextType DEF TypeOK, CRs
  <2> QED
    BY <2>1, <2>4, <2>5, <2>6 DEF InPass
<1>11. CASE UNCHANGED vars
  BY <1>11 DEF vars, crVars, seenVars, workerVars, InPass
<1> QED
  BY <1>1, <1>2, <1>3, <1>4, <1>5, <1>6, <1>7, <1>8, <1>9, <1>10, <1>11
  DEF Next, WorkerStep, Provision, CleanUp

\* What such a status says of the objects stays so: the worker is about the
\* same generation, and nobody else undoes it.
LEMMA ObjectsKeep ==
    ASSUME TypeOK, FinalizerInv, GenerationInv, [Next]_vars,
           cr.fin, ~cr.deleting, status.obs = cr.gen
    PROVE  /\ ~cr.susp /\ Deployed => Deployed'
           /\ cr.susp /\ ScaledDown => ScaledDown'
<1> USE ObjectKeys
<1>1. CASE Provision
  <2>1. my.susp = cr.susp
    BY <1>1, ProvisionStep, PassIsCurrent DEF InPass
  <2> QED
    BY <1>1, <2>1, ProvisionObjects DEF Deployed, ScaledDown, Runs
<1>2. CASE CleanUp
  BY <1>2, CleanUpStep DEF FinalizerInv, PassesAreJustified
<1>3. CASE User \/ Cluster
  BY <1>3, SurroundingsUndisturbed DEF Undisturbed, Deployed, ScaledDown
<1>4. CASE UNCHANGED api
  BY <1>4 DEF Deployed, ScaledDown
<1> QED
  BY <1>1, <1>2, <1>3, <1>4, OthersKeep
  DEF Next, WorkerStep, Provision, CleanUp

\* A condition of the generation of a pass comes with a status that claims it.
LEMMA BaseIsOlder ==
    ASSUME TypeOK, GenerationInv, InPass,
           NEW c \in ComponentConds, base.conds[c].gen = my.gen
    PROVE  status.obs = my.gen
BY DEF GenerationInv, CondsFollow, Follows, TypeOK, CRs, Statuses

-----------------------------------------------------------------------------
(* A tenant that reports Ready is deployed. *)

\* The status patch keeps the invariant: a phase that is not sent because the
\* base has it already leaves a Ready phase only next to a failed condition.
LEMMA PatchStatusReady ==
    ASSUME Remember, TypeOK, GenerationInv, EditsInv, PatchInv, ReadyInv, PatchStatus,
           status' # status
    PROVE  ReadyInv'
<1>0. UNCHANGED <<cr, seenStatus, api>> /\ ~InPass' /\ cr.fin
  BY PatchSends DEF GenerationInv
<1> SUFFICES ASSUME Live(FALSE), status'.phase = "Ready", status'.obs = cr.gen,
                    ~Deployed, ~Misled({"ns", "deploy"}, cr.gen)
             PROVE  /\ \E c \in ComponentConds :
                          status'.conds[c].reason # "Ready"
                    /\ seenStatus.phase # "Error"
  BY <1>0, MisledAfter DEF ReadyInv, Live, Deployed
<1> USE PatchSends
<1>1. my.gen = cr.gen => my.susp = cr.susp
  BY DEF GenerationInv, Follows
<1>2. status.phase = "Ready" /\ status.obs = cr.gen =>
         /\ \E c \in ComponentConds : status.conds[c].reason # "Ready"
         /\ base.phase # "Error"
  BY DEF ReadyInv
<1>3. CASE work.phase = "Error"
  BY <1>2, <1>3
<1>4. CASE /\ work.phase = "Provisioning"
           /\ \E c \in ComponentConds : Fails(c)
  <2> PICK c \in ComponentConds : Fails(c)
    BY <1>4
  <2>1. status'.obs = my.gen /\ base.phase = "Provisioning" /\ status.phase = "Ready"
    BY <1>4
  <2>2. seenStatus.phase # "Error"
    BY <2>1 DEF GenerationInv
  <2>3. CASE status'.conds = work.conds
    BY <2>2, <2>3 DEF Fails
  <2>4. CASE status'.conds = status.conds /\ work.conds = base.conds
    <3>1. status.obs = my.gen
      BY <2>4, BaseIsOlder DEF Fails
    <3> QED
      BY <1>2, <2>1, <2>2, <2>4, <3>1
  <2> QED
    BY <2>3, <2>4
<1>5. CASE work.phase = "Suspended" /\ my.susp
  <2>1. status'.obs = my.gen
    BY <1>5
  <2> QED
    BY <1>1, <1>5, <2>1 DEF Live
<1>6. PatchInv => \/ work.phase = "Error"
                  \/ /\ work.phase = "Provisioning"
                     /\ \E c \in ComponentConds : Fails(c)
                  \/ work.phase = "Suspended" /\ my.susp
                  \/ /\ work.phase = "Ready" /\ work.obs = my.gen
                     /\ Sure({"ns", "deploy"}) => Deployed
  BY DEF PatchInv
<1>7. CASE /\ work.phase = "Ready" /\ work.obs = my.gen
           /\ Sure({"ns", "deploy"}) => Deployed
  <2>1. my.gen = cr.gen
    BY <1>7
  <2> QED
    BY <1>7, <2>1 DEF Sure
<1> QED
  BY <1>3, <1>4, <1>5, <1>6, <1>7

\* Every step keeps the invariant.
LEMMA NextReady ==
    ASSUME TypeOK, FinalizerInv, GenerationInv, EditsInv, PatchInv, ReadyInv,
           [HistoryNext]_hvars
    PROVE  ReadyInv'
<1>0. CASE UNCHANGED hvars
  <2>1. UNCHANGED <<cr, status, seenStatus, api, pc, base, misread>>
    BY <1>0 DEF hvars, vars, crVars, seenVars, kubeVars, workerVars
  <2> QED
    BY <2>1 DEF ReadyInv, Live, Deployed, Misled, InPass
<1> SUFFICES ASSUME Next, Remember PROVE ReadyInv'
  BY <1>0 DEF HistoryNext
<1>1. CASE PatchStatus /\ status' # status
  BY <1>1, PatchStatusReady
<1>2. CASE PatchStatus /\ status' = status
  <2>1. /\ UNCHANGED <<cr, seenStatus, api>> /\ ~InPass'
    BY <1>2, PatchStatusMerges DEF Done, InPass, ReconcilePcs
  <2>2. cr.fin
    BY <1>2, PatchStatusMerges, PassHasFinalizer DEF InPass
  <2> QED
    BY <1>2, <2>1, <2>2, MisledAfter DEF ReadyInv, Live, Deployed
<1>3. CASE ~PatchStatus
  <2> SUFFICES ASSUME Live(FALSE)', status'.phase = "Ready",
                      status'.obs = cr'.gen, ~Deployed',
                      ~Misled({"ns", "deploy"}, cr.gen)'
               PROVE  /\ \E c \in ComponentConds :
                            status'.conds[c].reason # "Ready"
                      /\ seenStatus'.phase # "Error"
                      /\ InPass' => base'.phase # "Error"
    BY DEF ReadyInv
  <2>1. /\ cr.fin /\ ~cr.deleting
        /\ cr'.gen = cr.gen /\ cr'.susp = cr.susp
        /\ CopiesOfStatus
    BY <1>3, ClaimIsOld DEF Live
  <2>2. Live(FALSE) /\ status.phase = "Ready" /\ status.obs = cr.gen
    BY <2>1 DEF Live, CopiesOfStatus
  <2>3. ~Deployed /\ ~Misled({"ns", "deploy"}, cr.gen)
    BY <2>1, <2>2, ObjectsKeep, MisledAfter DEF Live
  <2>4. /\ \E c \in ComponentConds : status.conds[c].reason # "Ready"
        /\ seenStatus.phase # "Error"
        /\ InPass => base.phase # "Error"
    BY <2>2, <2>3 DEF ReadyInv
  <2> QED
    BY <2>1, <2>2, <2>4 DEF CopiesOfStatus
<1> QED
  BY <1>1, <1>2, <1>3

\* The initial states satisfy it: there is no tenant.
LEMMA InitReport == Init => ReportInv /\ SuspendedInv
<1> SUFFICES ASSUME Init PROVE ReportInv /\ SuspendedInv
  OBVIOUS
<1>1. ~cr.fin
  <2>1. ~NoCR.fin
    BY Zenon DEF NoCR
  <2> QED
    BY <2>1, Zenon DEF Init
<1> QED
  BY <1>1, InitGenerations, InitProgress
  DEF ReportInv, ReadyInv, SuspendedInv, Live

\* Passes, patches and statuses keep to what they claim, whatever is written,
\* lost or changed meanwhile, but for what a pass has misread.
THEOREM ReportInvariant == HistorySpec => []ReportInv
<1> DEFINE IInv == TypeOK /\ FinalizerInv /\ ReportInv
<1>1. HistoryInit => IInv
  BY InitType, InitFinalizerInv, InitReport, HistoryIsOfSpec
<1>2. IInv /\ [HistoryNext]_hvars => IInv'
  <2> SUFFICES ASSUME IInv, [HistoryNext]_hvars PROVE IInv'
    OBVIOUS
  <2>1. TypeOK' /\ FinalizerInv'
    BY NextType, NextFinalizerInv, HistoryIsOfSpec
  <2>2. GenerationInv' /\ EditsInv'
    BY NextGenerations, NextEdits, HistoryIsOfSpec DEF ReportInv
  <2>3. ProgressInv' /\ PatchInv'
    BY NextProgress DEF ReportInv
  <2>4. ReadyInv'
    BY NextReady DEF ReportInv
  <2> QED
    BY <2>1, <2>2, <2>3, <2>4 DEF ReportInv
<1>3. IInv => ReportInv
  OBVIOUS
<1> QED
  BY <1>1, <1>2, <1>3, PTL DEF HistorySpec

\* A tenant that reports the current generation as Ready, with every condition
\* True, is deployed, whatever the merge patch was computed from and whoever
\* changes what in between, unless a pass for this generation took an old
\* namespace or Deployment in a cache for what is on the server.
THEOREM TenantReadyIsDeployed == HistorySpec => []ReadyIsDeployed
<1>1. TypeOK /\ ReportInv => ReadyIsDeployed
  <2> SUFFICES ASSUME TypeOK, ReportInv, Reported("Ready")
               PROVE  Deployed \/ Misled({"ns", "deploy"}, cr.gen)
    BY DEF ReadyIsDeployed
  <2>1. /\ cr.present /\ ~cr.deleting /\ cr.susp = FALSE
        /\ status.phase = "Ready" /\ status.obs = cr.gen
        /\ \A c \in ComponentConds : status.conds[c].reason = "Ready"
    BY DEF Reported
  <2>2. cr.fin
    BY <2>1 DEF ReportInv, GenerationInv
  <2> QED
    BY <2>1, <2>2 DEF ReportInv, ReadyInv, Live
<1> QED
  BY <1>1, AlwaysTidy, ReportInvariant, PTL

-----------------------------------------------------------------------------
(* A suspended tenant whose conditions are all True is scaled down. *)

\* Some status of a tenant with the finalizer says that all is well now.
Claimed == \/ AllReadyNow(status)
           \/ Owned(seenCR) /\ AllReadyNow(seenStatus)
           \/ InPass /\ AllReadyNow(base)

\* Conditions of the current generation come with a status that claims it.
LEMMA ListIsCurrent ==
    ASSUME NEW obs \in Nat, NEW gen \in Nat, NEW s \in Statuses,
           CondsFollow(s), s.obs <= obs, obs <= gen,
           \A c \in ComponentConds :
              s.conds[c] = [reason |-> "Ready", gen |-> gen]
    PROVE  obs = gen
BY DEF CondsFollow, Statuses, ComponentConds

\* A claim comes with a status of the current generation.
LEMMA ClaimIsCurrent ==
    /\ TypeOK /\ GenerationInv /\ cr.present /\ Claimed
           => status.obs = cr.gen
    /\ TypeOK' /\ GenerationInv' /\ cr'.present /\ Claimed'
           => status'.obs = cr'.gen
<1>1. ASSUME TypeOK, GenerationInv, cr.present, Claimed
      PROVE  status.obs = cr.gen
  <2>1. /\ status.obs \in Nat /\ cr.gen \in Nat /\ status.obs <= cr.gen
        /\ status.obs <= status.obs
        /\ {status, seenStatus, base} \subseteq Statuses
    BY <1>1 DEF GenerationInv, TypeOK, CRs, Statuses
  <2>2. \E s \in {status, seenStatus, base} :
           s.obs <= status.obs /\ CondsFollow(s) /\ AllReadyNow(s)
    BY <1>1, <2>1 DEF Claimed, GenerationInv
  <2> QED
    BY <2>1, <2>2, ListIsCurrent DEF AllReadyNow
<1>2. ASSUME TypeOK', GenerationInv', cr'.present, Claimed'
      PROVE  status'.obs = cr'.gen
  <2>1. /\ status'.obs \in Nat /\ cr'.gen \in Nat /\ status'.obs <= cr'.gen
        /\ status'.obs <= status'.obs
        /\ {status', seenStatus', base'} \subseteq Statuses
    BY <1>2 DEF GenerationInv, TypeOK, CRs, Statuses
  <2>2. \E s \in {status', seenStatus', base'} :
           /\ s.obs <= status'.obs /\ CondsFollow(s)
           /\ \A c \in ComponentConds :
                 s.conds[c] = [reason |-> "Ready", gen |-> cr'.gen]
    BY <1>2, <2>1 DEF Claimed, GenerationInv, AllReadyNow
  <2> QED
    BY <2>1, <2>2, ListIsCurrent
<1> QED
  BY <1>1, <1>2

\* The status patch keeps the invariant: it sends the conditions of a pass
\* that found the tenant scaled down, or old ones that do not say so.
LEMMA PatchStatusSuspended ==
    ASSUME TypeOK, GenerationInv, EditsInv, PatchInv, SuspendedInv,
           PatchStatus, status' # status, Live(TRUE), Claimed'
    PROVE  ScaledDown \/ Misled({"deploy", "route"}, cr.gen)
<1> USE PatchSends
<1>1. SUFFICES ASSUME ~ScaledDown, ~Misled({"deploy", "route"}, cr.gen)
               PROVE  FALSE
  OBVIOUS
<1>2. ~Claimed
  BY <1>1 DEF SuspendedInv, Claimed
<1>3. ~AllReadyNow(status) /\ ~AllReadyNow(base)
  BY <1>2 DEF Claimed
<1>4. /\ status'.conds = work.conds
      /\ \A c \in ComponentConds :
            work.conds[c] = [reason |-> "Ready", gen |-> cr.gen]
  BY <1>2 DEF Claimed, AllReadyNow, Owned
<1>5. my.gen = cr.gen => my.susp = cr.susp
  BY DEF GenerationInv, Follows
<1>6. RoutingReady \in ComponentConds
  BY DEF ComponentConds
<1>7. CASE \A c \in ComponentConds : work.conds[c] = base.conds[c]
  BY <1>3, <1>4, <1>7 DEF AllReadyNow
<1>8. \A c \in ComponentConds : ~Fails(c)
  BY <1>4 DEF Fails
<1>9. CASE ~my.susp /\ work.conds[RoutingReady].gen = my.gen
  BY <1>4, <1>5, <1>6, <1>9 DEF Live
<1>10. PatchInv => \/ \A c \in ComponentConds : work.conds[c] = base.conds[c]
                   \/ \E c \in ComponentConds : Fails(c)
                   \/ ~my.susp /\ work.conds[RoutingReady].gen = my.gen
                   \/ /\ work.conds[RoutingReady].gen = my.gen
                      /\ Sure({"deploy", "route"})
                         /\ (\A c \in ComponentConds : ~Fails(c)) => ScaledDown
  BY Zenon, PatchSends DEF PatchInv
<1>11. CASE /\ work.conds[RoutingReady].gen = my.gen
            /\ Sure({"deploy", "route"})
               /\ (\A c \in ComponentConds : ~Fails(c)) => ScaledDown
  <2>1. my.gen = cr.gen
    BY <1>4, <1>6, <1>11
  <2> QED
    BY <1>1, <1>8, <1>11, <2>1 DEF Sure
<1> QED
  BY <1>7, <1>8, <1>9, <1>10, <1>11

\* Every step keeps the invariant.
LEMMA NextSuspended ==
    ASSUME TypeOK, FinalizerInv, ReportInv, SuspendedInv,
           [HistoryNext]_hvars, TypeOK', FinalizerInv', ReportInv'
    PROVE  SuspendedInv'
<1> USE DEF ReportInv
<1>0. CASE UNCHANGED hvars
  <2>1. UNCHANGED <<cr, status, seenCR, seenStatus, api, pc, base, misread>>
    BY <1>0 DEF hvars, vars, crVars, seenVars, kubeVars, workerVars
  <2> QED
    BY <2>1
    DEF SuspendedInv, Live, ScaledDown, Misled, InPass, AllReadyNow, Owned
<1> SUFFICES ASSUME Next, Remember, Live(TRUE)', Claimed'
             PROVE  ScaledDown' \/ Misled({"deploy", "route"}, cr.gen)'
  BY <1>0 DEF HistoryNext, SuspendedInv, Claimed
<1>1. CASE PatchStatus
  <2>1. UNCHANGED <<cr, seenCR, seenStatus, api>> /\ ~InPass'
    BY <1>1, PatchStatusMerges DEF Done, InPass, ReconcilePcs
  <2>2. Live(TRUE)
    BY <2>1 DEF Live
  <2>3. ScaledDown \/ Misled({"deploy", "route"}, cr.gen)
    <3>1. CASE status' # status
      BY <1>1, <2>2, <3>1, PatchStatusSuspended
    <3>2. CASE status' = status
      <4>1. Claimed
        BY <2>1, <3>2 DEF Claimed, AllReadyNow, Owned
      <4> QED
        BY <2>2, <4>1 DEF SuspendedInv, Claimed
    <3> QED
      BY <3>1, <3>2
  <2> QED
    BY <2>1, <2>2, <2>3, MisledAfter DEF ScaledDown, Live
<1>2. CASE ~PatchStatus
  <2>1. cr'.fin /\ ~cr'.deleting /\ cr'.susp /\ status'.obs = cr'.gen
    BY ClaimIsCurrent DEF Live, FinalizerInv, FinalizerGoesOnLive
  <2>2. /\ cr.fin /\ ~cr.deleting
        /\ cr'.gen = cr.gen /\ cr'.susp = cr.susp
        /\ CopiesOfStatus
    BY <1>2, <2>1, ClaimIsOld
  <2>3. Live(TRUE) /\ status.obs = cr.gen
    BY <2>1, <2>2 DEF Live, CopiesOfStatus
  <2>4. Claimed
    BY <2>2 DEF Claimed, CopiesOfStatus, AllReadyNow, Owned
  <2>5. ScaledDown \/ Misled({"deploy", "route"}, cr.gen)
    BY <2>3, <2>4 DEF SuspendedInv, Claimed
  <2> QED
    BY <2>2, <2>3, <2>5, ObjectsKeep, MisledAfter DEF Live
<1> QED
  BY <1>1, <1>2

\* A suspended tenant all of whose conditions are True for the current
\* generation has no replicas and no route, whatever is written, lost or
\* changed meanwhile, unless a pass for this generation took a Deployment or
\* the route for absent that was there: not in the cache, or not read.
THEOREM TenantSuspendedIsScaledDown == HistorySpec => []SuspendedIsScaledDown
<1> DEFINE Known == TypeOK /\ FinalizerInv /\ ReportInv
<1>1. HistorySpec => []Known
  BY AlwaysTidy, ReportInvariant, PTL
<1>2. HistoryInit => SuspendedInv
  BY InitReport, HistoryIsOfSpec
<1>3. Known /\ Known' /\ SuspendedInv /\ [HistoryNext]_hvars => SuspendedInv'
  BY NextSuspended
<1>4. Known /\ SuspendedInv => SuspendedIsScaledDown
  <2> SUFFICES ASSUME Known, SuspendedInv, cr.present, ~cr.deleting, cr.susp,
                      AllReadyNow(status)
               PROVE  ScaledDown \/ Misled({"deploy", "route"}, cr.gen)
    BY DEF SuspendedIsScaledDown
  <2>1. Claimed
    BY DEF Claimed
  <2>2. cr.fin
    BY <2>1, ClaimIsCurrent DEF ReportInv, GenerationInv
  <2> QED
    BY <2>1, <2>2 DEF SuspendedInv, Claimed, Live, TypeOK, CRs
<1> QED
  BY <1>1, <1>2, <1>3, <1>4, PTL DEF HistorySpec
=============================================================================
