------------------------ MODULE TenantOutcomeProofs ------------------------
(***************************************************************************)
(* Theorems about TenantReconciler and TenantHistory: services start after *)
(* the database, nothing outlives the tenant but what finalize passes      *)
(* over, and the controller implements TenantLifecycle.                    *)
(***************************************************************************)
EXTENDS TenantReconcilerProofs, TenantHistory

-----------------------------------------------------------------------------
(* No workload before its database, whatever caches are behind. *)

\* The keys that the gate is about are different ones.
LEMMA GateKeys ==
    /\ JOB \in Keys /\ DATABASE \in Keys /\ NS \in Keys
    /\ \A i \in Services : Deploy(i) \in Keys /\ Deploy(i) # JOB
    /\ \A i \in Services : /\ Deploy(i) \notin {NS, NP, JWT, DBC, DATABASE,
                                                ROUTE, SUPABASE}
                           /\ \A j \in Services : Deploy(i) # Svc(j)
    /\ JOB \notin {NS, NP, JWT, DBC, DATABASE, ROUTE, SUPABASE}
    /\ \A j \in Services : Svc(j) # JOB
BY DEF Keys, JOB, DATABASE, NS, NP, JWT, DBC, ROUTE, SUPABASE, Deploy, Svc

Gated == {"deploy", "svc", "svcHealth", "route", "routeHealth"}

\* A step that writes one object, none of them a Job that has succeeded, keeps
\* the gate when it is behind it, or touches no Deployment.
LEMMA GatedStep ==
    ASSUME TypeOK, DatabaseGate,
           DatabaseExisted => DatabaseExisted',
           api'[JOB] = "succeeded" => api[JOB] = "succeeded" \/ DatabaseExisted,
           cache'[JOB] = "succeeded" =>
               cache[JOB] = "succeeded" \/ api[JOB] = "succeeded",
           pc' \in Gated => DatabaseExisted \/ pc \in Gated,
           \/ DatabaseExisted
           \/ \A i \in Services : api'[Deploy(i)] \in {api[Deploy(i)], "absent"}
    PROVE  DatabaseGate'
BY DEF DatabaseGate, ServicesNeedDatabase, DatabaseExisted, Gated

\* Provisioning keeps the gate.
LEMMA ProvisionGate ==
    TypeOK /\ DatabaseGate /\ Provision => DatabaseGate'
<1> SUFFICES ASSUME TypeOK, DatabaseGate, Provision PROVE DatabaseGate'
  OBVIOUS
<1> USE GateKeys DEF DatabaseExisted
<1>1. UNCHANGED <<pgdb, cache>>
  BY ProvisionStep DEF ComponentFrame
<1>2. at \in Services
  BY DEF TypeOK
<1>3. ASSUME NEW k \in Keys, NEW built, NEW next, NEW c,
             CreateIfMissing(k, built, next, c),
             built.first # "succeeded", next \notin Gated,
             \A i \in Services : k # Deploy(i)
      PROVE  DatabaseGate'
  <2>1. UNCHANGED api \/ api' = [api EXCEPT ![k] = built.first]
    BY <1>3 DEF CreateIfMissing, Write
  <2>2. pc' \notin Gated
    BY <1>3 DEF CreateIfMissing, StopProvisioning, Gated
  <2>3. api'[JOB] = "succeeded" => api[JOB] = "succeeded"
    BY <1>3, <2>1 DEF TypeOK
  <2>4. \A i \in Services : api'[Deploy(i)] = api[Deploy(i)]
    BY <1>3, <2>1 DEF TypeOK
  <2> QED
    BY <1>1, <2>2, <2>3, <2>4, GatedStep
<1>4. CASE NamespaceReconcile \/ SecretReconcile \/ DatabaseReconcile
  <2>1. /\ {NS, NP, JWT, DBC, DATABASE, JOB} \subseteq Keys
        /\ \A k \in {NS, NP, JWT, DBC, DATABASE, JOB}, i \in Services :
              k # Deploy(i)
    BY KeyTypes
  <2> QED
    BY <1>3, <1>4, <2>1
    DEF NamespaceReconcile, SecretReconcile, DatabaseReconcile, Gated,
        buildNamespace, buildNetworkPolicy, buildJWTSecret,
        buildDBCredentialsSecret, buildCNPGDatabase, buildInitJob
<1>5. CASE NamespaceHealthcheck \/ SecretHealthcheck \/ ResolveParent
  <2>1. UNCHANGED api /\ pc' \notin Gated
    BY <1>5 DEF NamespaceHealthcheck, SecretHealthcheck, ResolveParent,
                CheckHealth, StopProvisioning, Gated
  <2> QED
    BY <1>1, <2>1, GatedStep
<1>6. CASE DatabaseHealthcheck
  <2>1. UNCHANGED api
    BY <1>6 DEF DatabaseHealthcheck, CheckHealth
  <2>2. pc' \in Gated => View(JOB) = "succeeded"
    BY <1>6 DEF DatabaseHealthcheck, CheckHealth, DatabaseHealthy,
                StopProvisioning, Gated
  <2>3. View(JOB) = "succeeded" => DatabaseExisted
    BY DEF View, DatabaseGate
  <2> QED
    BY <1>1, <2>1, <2>2, <2>3, GatedStep
<1>7. CASE /\ pc \in Gated
           /\ \/ UNCHANGED api
              \/ \E k \in Keys \ {JOB} : \E v : Write([api EXCEPT ![k] = v])
  <2>1. DatabaseExisted
    BY <1>7 DEF DatabaseGate, Gated
  <2>2. api'[JOB] = api[JOB]
    BY <1>7 DEF Write, TypeOK
  <2> QED
    BY <1>1, <2>1, <2>2, GatedStep
<1>8. CASE ScaleToZero \/ ReconcileDeployment
  <2>1. /\ pc \in Gated
        /\ UNCHANGED api \/ \E v : Write([api EXCEPT ![Deploy(at)] = v])
    BY <1>8 DEF ScaleToZero, ReconcileDeployment, Gated
  <2> QED
    BY <1>2, <1>7, <2>1
<1>9. CASE ReconcileService
  <2>1. /\ pc \in Gated
        /\ UNCHANGED api \/ \E v : Write([api EXCEPT ![Svc(at)] = v])
    BY <1>9 DEF ReconcileService, Gated
  <2> QED
    BY <1>2, <1>7, <2>1, KeyTypes
<1>10. CASE RoutingReconcile \/ RemoveRoute
  <2>1. /\ pc \in Gated
        /\ UNCHANGED api \/ \E v : Write([api EXCEPT ![ROUTE] = v])
    BY <1>10 DEF RoutingReconcile, RemoveRoute, deleteHTTPRoute, Gated
  <2> QED
    BY <1>7, <2>1, KeyTypes
<1>11. CASE ServiceHealthcheck \/ RoutingHealthcheck
  BY <1>7, <1>11 DEF ServiceHealthcheck, RoutingHealthcheck, Gated
<1> QED
  BY <1>4, <1>5, <1>6, <1>8, <1>9, <1>10, <1>11 DEF Provision

\* The rest of the worker, the workqueue and restarts keep the gate.
LEMMA WorkerGate ==
    ASSUME TypeOK, DatabaseGate,
           \/ StartReconcile \/ AddFinalizer \/ PatchStatus \/ MarkDeleting
           \/ CleanUp \/ RemoveFinalizer \/ TimerFires \/ DeliverTenant
           \/ Restart \/ \E kind \in Lagging : Deliver(kind)
    PROVE  DatabaseGate'
<1> USE GateKeys DEF DatabaseExisted
<1>1. CASE \/ StartReconcile \/ AddFinalizer \/ PatchStatus
           \/ MarkDeleting \/ RemoveFinalizer \/ TimerFires \/ DeliverTenant
  <2>1. UNCHANGED <<api, cache, pgdb>>
    BY <1>1 DEF StartReconcile, AddFinalizer, PatchStatus, MarkDeleting,
                RemoveFinalizer, TimerFires, DeliverTenant, kubeVars
  <2>2. pc' \in Gated => pc \in Gated
    BY <1>1 DEF StartReconcile, AddFinalizer, PatchStatus, MarkDeleting,
                RemoveFinalizer, TimerFires, DeliverTenant, Done, workerVars,
                Gated
  <2> QED
    BY <2>1, <2>2, GatedStep
<1>2. CASE Restart
  <2>1. UNCHANGED <<api, pgdb>> /\ pc' = "idle"
        /\ cache'[JOB] \in {cache[JOB], api[JOB]}
    BY <1>2 DEF Restart
  <2> QED
    BY <2>1, GatedStep DEF Gated
<1>3. CASE \E kind \in Lagging : Deliver(kind)
  <2>1. /\ UNCHANGED <<api, pgdb, pc>>
        /\ cache'[JOB] \in {cache[JOB], api[JOB]}
    BY <1>3 DEF Deliver, workerVars
  <2> QED
    BY <2>1, GatedStep
<1>4. CASE CleanUp
  <2>1. UNCHANGED <<cache, pgdb>> /\ pc' \notin Gated
    BY <1>4, CleanUpStep DEF FinalizeFrame, Done, GoOn, FinalizePcs, Gated
  <2>2. \/ UNCHANGED api
        \/ \E k \in {ROUTE, DATABASE, JOB, NS}, v \in {"absent", "terminating"} :
              Write([api EXCEPT ![k] = v])
    BY <1>4 DEF CleanUp, FinalizeParent, FinalizeRouting, deleteHTTPRoute,
                DatabaseFinalize, FinalizeDelete, NamespaceFinalize
  <2>3. \A i \in Services : api'[Deploy(i)] = api[Deploy(i)]
    BY <2>2 DEF Write, TypeOK
  <2>4. api'[JOB] = "succeeded" => api[JOB] = "succeeded"
    BY <2>2 DEF Write, TypeOK
  <2> QED
    BY <2>1, <2>3, <2>4, GatedStep
<1> QED
  BY <1>1, <1>2, <1>3, <1>4

\* Users and the other controllers of the cluster keep the gate: psql needs
\* the database, which was there although its Cluster may go.
LEMMA SurroundingsGate ==
    ASSUME TypeOK, DatabaseGate, User \/ Cluster
    PROVE  DatabaseGate'
<1> USE GateKeys DEF DatabaseExisted
<1>1. UNCHANGED <<cache, pc>> /\ (DatabaseExisted => DatabaseExisted')
  <2>1. CASE UserFrame
    BY <2>1 DEF UserFrame
  <2>2. CASE ClusterFrame /\ (DatabaseExisted => DatabaseExisted')
    BY <2>2 DEF ClusterFrame, workerVars
  <2>3. CASE User
    BY <2>1, <2>3 DEF User, CreateTenant, DeleteTenant, ToggleSuspended,
                      ChangeParent, ChangeTenant
  <2>4. CASE Cluster
    <3>1. CASE ReleaseForeground
      BY <2>1, <3>1 DEF ReleaseForeground, ChangeTenant
    <3>2. CASE DatabaseIsApplied \/ DatabaseIsRefused \/ DatabaseIsGone
      BY <2>2, <3>2
      DEF DatabaseIsApplied, DatabaseIsRefused, DatabaseIsGone
    <3>3. CASE JobEnds \/ NamespaceIsGone
      BY <2>2, <3>3 DEF JobEnds, NamespaceIsGone
    <3>4. CASE \E i \in Services : PodsAreReady(i) \/ PodsFail(i)
      BY <2>2, <3>4 DEF PodsAreReady, PodsFail
    <3>5. CASE ClusterIsCollected
      BY <2>2, <3>5 DEF ClusterIsCollected
    <3> QED
      BY <2>4, <3>1, <3>2, <3>3, <3>4, <3>5 DEF Cluster
  <2> QED
    BY <2>3, <2>4
<1>2. CASE UNCHANGED api
  BY <1>1, <1>2, GatedStep
<1>3. CASE ChangeParent
  <2>1. \E v : Write([api EXCEPT ![SUPABASE] = v])
    BY <1>3 DEF ChangeParent
  <2>2. /\ api'[JOB] = api[JOB]
        /\ \A i \in Services : api'[Deploy(i)] = api[Deploy(i)]
    BY <2>1 DEF Write, TypeOK
  <2> QED
    BY <1>1, <2>2, GatedStep
<1>4. CASE DatabaseIsApplied \/ DatabaseIsRefused \/ DatabaseIsGone
  <2>1. \E v : Write([api EXCEPT ![DATABASE] = v])
    BY <1>4 DEF DatabaseIsApplied, DatabaseIsRefused, DatabaseIsGone
  <2>2. /\ api'[JOB] = api[JOB]
        /\ \A i \in Services : api'[Deploy(i)] = api[Deploy(i)]
    BY <2>1 DEF Write, TypeOK
  <2> QED
    BY <1>1, <2>2, GatedStep
<1>5. CASE JobEnds
  <2>1. \A i \in Services : api'[Deploy(i)] = api[Deploy(i)]
    BY <1>5 DEF JobEnds, Write, TypeOK
  <2>2. api'[JOB] = "succeeded" => DatabaseExisted
    BY <1>5 DEF JobEnds, Write, TypeOK
  <2> QED
    BY <1>1, <2>1, <2>2, GatedStep
<1>6. CASE \E i \in Services : PodsAreReady(i) \/ PodsFail(i)
  <2>1. PICK i \in Services : PodsAreReady(i) \/ PodsFail(i)
    BY <1>6
  <2>2. /\ api[Deploy(i)] # "absent"
        /\ \E v : Write([api EXCEPT ![Deploy(i)] = v])
    BY <2>1 DEF PodsAreReady, PodsFail
  <2>3. DatabaseExisted
    BY <2>2 DEF DatabaseGate, ServicesNeedDatabase
  <2>4. api'[JOB] = api[JOB]
    BY <2>2 DEF Write, TypeOK
  <2> QED
    BY <1>1, <2>3, <2>4, GatedStep
<1>7. CASE NamespaceIsGone
  <2>1. \A k \in Keys : api'[k] \in {api[k], "absent"}
    BY <1>7 DEF NamespaceIsGone, Write
  <2> QED
    BY <1>1, <2>1, GatedStep
<1>8. CASE ClusterIsCollected
  <2>1. UNCHANGED api \/ \E v : Write([api EXCEPT ![DATABASE] = v])
    BY <1>8 DEF ClusterIsCollected
  <2>2. /\ api'[JOB] = api[JOB]
        /\ \A i \in Services : api'[Deploy(i)] = api[Deploy(i)]
    BY <2>1 DEF Write, TypeOK
  <2> QED
    BY <1>1, <2>2, GatedStep
<1>9. CASE CreateTenant \/ DeleteTenant \/ ToggleSuspended \/ ReleaseForeground
  BY <1>2, <1>9 DEF CreateTenant, DeleteTenant, ToggleSuspended,
                    ReleaseForeground, ChangeTenant
<1> QED
  BY <1>3, <1>4, <1>5, <1>6, <1>7, <1>8, <1>9 DEF User, Cluster

\* Every step keeps the gate.
LEMMA NextGate == TypeOK /\ DatabaseGate /\ [Next]_vars => DatabaseGate'
<1> SUFFICES ASSUME TypeOK, DatabaseGate, [Next]_vars PROVE DatabaseGate'
  OBVIOUS
<1>1. CASE UNCHANGED vars
  BY <1>1, GatedStep DEF vars, kubeVars, workerVars, DatabaseExisted
<1> QED
  BY <1>1, ProvisionGate, WorkerGate, SurroundingsGate
  DEF Next, WorkerStep, Provision, CleanUp

\* No Deployment of a tenant exists before its database does, whichever caches
\* are behind, in every life of the tenant, whatever fails.
THEOREM ServicesAfterDatabase == Spec => []ServicesNeedDatabase
<1>1. Init => DatabaseGate
  BY GateKeys DEF Init, DatabaseGate, ServicesNeedDatabase
<1>2. DatabaseGate => ServicesNeedDatabase
  BY DEF DatabaseGate
<1> QED
  BY <1>1, <1>2, NextGate, TypeCorrect, PTL DEF Spec

-----------------------------------------------------------------------------
(* Nothing outlives the tenant but what finalize passes over. *)

\* The keys that a tenant's cleanup is about.
LEMMA CleanupKeys ==
    /\ Belongings \subseteq Keys /\ SUPABASE \in Keys \ Belongings
    /\ ROUTE \notin {DATABASE, JOB, NS} /\ DATABASE \notin {JOB, NS} /\ JOB # NS
    /\ {NP, JWT, DBC} \subseteq Keys \ (Belongings \cup {SUPABASE})
    /\ \A i \in Services : /\ Deploy(i) \in Keys \ (Belongings \cup {SUPABASE})
                           /\ Svc(i) \in Keys \ (Belongings \cup {SUPABASE})
    /\ SUPABASE[1] = "supabase"
BY DEF Keys, Belongings, JOB, DATABASE, NS, NP, JWT, DBC, ROUTE, SUPABASE,
       Deploy, Svc

\* A write of one object.
Puts(k, v) == api' = [api EXCEPT ![k] = v]

\* Provisioning creates belongings, and deletes the route at most.
LEMMA ProvisionPuts ==
    ASSUME TypeOK, Provision
    PROVE  \/ UNCHANGED api
           \/ \E k \in Keys \ {SUPABASE} : \E v :
                 /\ Puts(k, v)
                 /\ k \in Belongings => \/ api[k] = "absent" /\ ~Gone(v)
                                        \/ k = ROUTE /\ v = "absent"
<1> USE CleanupKeys
<1> DEFINE conclusion ==
           \/ UNCHANGED api
           \/ \E k \in Keys \ {SUPABASE} : \E v :
                 /\ Puts(k, v)
                 /\ k \in Belongings => \/ api[k] = "absent" /\ ~Gone(v)
                                        \/ k = ROUTE /\ v = "absent"
<1>1. ASSUME NEW k \in Keys \ {SUPABASE}, NEW built, NEW next, NEW c,
             CreateIfMissing(k, built, next, c), ~Gone(built.first)
      PROVE  conclusion
  <2>1. \/ UNCHANGED api
        \/ api[k] = "absent" /\ Puts(k, built.first)
    BY <1>1 DEF CreateIfMissing, Creatable, Write, Puts
  <2> QED
    BY <1>1, <2>1
<1>2. CASE NamespaceReconcile \/ SecretReconcile \/ DatabaseReconcile
  <2>1. {NS, NP, JWT, DBC, DATABASE, JOB} \subseteq Keys \ {SUPABASE}
    BY DEF Belongings
  <2> QED
    BY <1>1, <1>2, <2>1
    DEF NamespaceReconcile, SecretReconcile, DatabaseReconcile, Gone,
        buildNamespace, buildNetworkPolicy, buildJWTSecret,
        buildDBCredentialsSecret, buildCNPGDatabase, buildInitJob
<1>3. CASE \/ NamespaceHealthcheck \/ SecretHealthcheck \/ ResolveParent
           \/ DatabaseHealthcheck \/ ServiceHealthcheck \/ RoutingHealthcheck
  BY <1>3 DEF NamespaceHealthcheck, SecretHealthcheck, ResolveParent,
              DatabaseHealthcheck, CheckHealth, ServiceHealthcheck,
              RoutingHealthcheck
<1>4. CASE ScaleToZero \/ ReconcileDeployment
  <2>1. UNCHANGED api \/ \E v : Puts(Deploy(at), v)
    BY <1>4 DEF ScaleToZero, ReconcileDeployment, Write, Puts
  <2> QED
    BY <2>1 DEF TypeOK
<1>5. CASE ReconcileService
  <2>1. UNCHANGED api \/ \E v : Puts(Svc(at), v)
    BY <1>5 DEF ReconcileService, Write, Puts
  <2> QED
    BY <2>1 DEF TypeOK
<1>6. CASE RoutingReconcile
  <2>1. \/ UNCHANGED api
        \/ /\ Creatable(ROUTE, buildHTTPRoute.home)
           /\ Puts(ROUTE, buildHTTPRoute.first)
    BY <1>6 DEF RoutingReconcile, Write, Puts
  <2>2. /\ ROUTE \in Keys \ {SUPABASE} /\ ~Gone(buildHTTPRoute.first)
        /\ Creatable(ROUTE, buildHTTPRoute.home) => api[ROUTE] = "absent"
    BY DEF Belongings, Gone, buildHTTPRoute, Creatable
  <2> QED
    BY <2>1, <2>2
<1>7. CASE RemoveRoute
  <2>1. UNCHANGED api \/ Puts(ROUTE, "absent")
    BY <1>7 DEF RemoveRoute, deleteHTTPRoute, Write, Puts
  <2> QED
    BY <2>1 DEF Belongings
<1> QED
  BY <1>2, <1>3, <1>4, <1>5, <1>6, <1>7 DEF Provision

\* The other controllers of the cluster neither create belongings nor bring
\* one back that is on its way out.
LEMMA ClusterPuts ==
    ASSUME TypeOK, Cluster
    PROVE  \A k \in Belongings : Gone(api'[k]) <=> Gone(api[k])
<1> USE CleanupKeys DEF TypeOK
<1>1. CASE ReleaseForeground
  BY <1>1 DEF ReleaseForeground, ChangeTenant
<1>2. CASE DatabaseIsApplied \/ DatabaseIsRefused \/ DatabaseIsGone
  <2>1. PICK v : Puts(DATABASE, v) /\ (Gone(v) <=> Gone(api[DATABASE]))
    BY <1>2 DEF DatabaseIsApplied, DatabaseIsRefused, DatabaseIsGone, Write,
                Puts, Gone
  <2> QED
    BY <2>1 DEF Puts, Belongings
<1>3. CASE JobEnds
  <2>1. PICK v : Puts(JOB, v) /\ (Gone(v) <=> Gone(api[JOB]))
    BY <1>3 DEF JobEnds, Write, Puts, Gone
  <2> QED
    BY <2>1 DEF Puts, Belongings
<1>4. CASE \E i \in Services : PodsAreReady(i) \/ PodsFail(i)
  <2>1. \E i \in Services : \E v : Puts(Deploy(i), v)
    BY <1>4 DEF PodsAreReady, PodsFail, Write, Puts
  <2> QED
    BY <2>1 DEF Puts
<1>5. CASE NamespaceIsGone
  <2>1. /\ SUPABASE[1] = "supabase" /\ ROUTE[1] = "route"
        /\ DATABASE[1] = "database" /\ JOB[1] = "job" /\ NS[1] = "ns"
    BY DEF SUPABASE, ROUTE, DATABASE, JOB, NS
  <2>2. /\ \A k \in {SUPABASE, ROUTE, DATABASE, JOB} : api'[k] = api[k]
        /\ api[NS] = "terminating" /\ api'[NS] = "absent"
    BY <1>5, <2>1 DEF NamespaceIsGone, Write, NamespacedKinds, Belongings
  <2> QED
    BY <2>2 DEF Belongings, Gone
<1>6. CASE ClusterIsCollected
  <2>1. \/ UNCHANGED api
        \/ \E v : Puts(DATABASE, v) /\ ~Gone(v) /\ ~Gone(api[DATABASE])
    BY <1>6 DEF ClusterIsCollected, Write, Puts, Gone
  <2>2. CASE UNCHANGED api
    BY <2>2 DEF Belongings
  <2> QED
    BY <2>1, <2>2 DEF Puts, Belongings
<1> QED
  BY <1>1, <1>2, <1>3, <1>4, <1>5, <1>6 DEF Cluster

\* The steps of finalize that leave a belonging behind.
LEMMA Turns ==
    /\ Turn(ROUTE) = <<"finRoute", "finDatabase">>
    /\ Turn(DATABASE) = <<"finDatabase", "finJob">>
    /\ Turn(JOB) = <<"finJob", "finNs">>
    /\ Turn(NS) = <<"finNs", "finRemove">>
BY CleanupKeys, Zenon DEF Turn

\* Only finalize overlooks anything.
LEMMA NoOverlook ==
    ASSUME NEW k \in Belongings,
           \/ pc' = pc
           \/ pc' \notin {"finAbandon", "finDatabase", "finJob", "finNs",
                          "finRemove"}
    PROVE  ~Overlooks(k)
BY Turns DEF Overlooks, Belongings

\* In the life of a tenant, a belonging stays settled, and becomes so when
\* finalize has overlooked it or it is gone.
LEMMA SettledStep ==
    ASSUME Remember, ~NewLife, NEW k \in Belongings,
           Gone(api[k]) => Gone(api'[k]),
           Settled(k) \/ Overlooks(k) \/ Gone(api'[k])
    PROVE  Settled(k)'
BY DEF Remember, Settled

\* A step that brings nothing back, keeps the finalizer as it is, and leaves
\* the worker before the cleanup, where it is in it, or outside.
LEMMA TidyStep ==
    ASSUME Remember, CleanupInv,
           \A k \in Belongings : Gone(api[k]) => Gone(api'[k]),
           cr'.fin <=> cr.fin,
           \/ pc' = pc
           \/ pc' \notin {"finAbandon", "finDatabase", "finJob", "finNs",
                          "finRemove"}
    PROVE  CleanupInv'
<1>1. ~NewLife
  BY DEF NewLife
<1>2. \A k \in Belongings : Settled(k) => Settled(k)'
  BY <1>1, SettledStep
<1>3. missed' \subseteq {k \in Belongings : ~Gone(api'[k])}
  BY <1>1 DEF Remember
<1>4. CleanedSoFar'
  BY <1>2, CleanupKeys DEF CleanupInv, CleanedSoFar, Belongings
<1>5. ~cr'.fin \/ pc' = "finAbandon" => \A k \in Belongings : Settled(k)'
  BY <1>2 DEF CleanupInv
<1> QED
  BY <1>3, <1>4, <1>5 DEF CleanupInv

\* Provisioning keeps the invariant: it creates under the finalizer.
LEMMA ProvisionTidy ==
    ASSUME Remember, TypeOK, FinalizerInv, Provision
    PROVE  CleanupInv'
<1>1. /\ pc' \in ReconcilePcs \cup {"patch"}
      /\ cr.fin /\ UNCHANGED cr
  BY ProvisionStep DEF FinalizerInv, PassesAreJustified, ComponentFrame, crVars
<1>2. missed' \subseteq {k \in Belongings : ~Gone(api'[k])}
  BY DEF Remember
<1> QED
  BY <1>1, <1>2 DEF CleanupInv, CleanedSoFar, ReconcilePcs

\* A cleanup step that goes on has seen gone what it is about, or overlooks it
\* and leaves everything as it is.
LEMMA CleanUpPuts ==
    ASSUME TypeOK, CleanUp
    PROVE  /\ \/ UNCHANGED api
              \/ /\ \E k \in Belongings : \E v : Puts(k, v) /\ Gone(v)
                 /\ \A k \in Belongings : ~Overlooks(k)
           /\ \/ pc' \in {"idle", "finRoute"}
              \/ pc = "finParent" /\ pc' = "finAbandon"
              \/ \E k \in Belongings : /\ <<pc, pc'>> = Turn(k)
                                       /\ Gone(api'[k]) \/ Overlooks(k)
<1> USE CleanupKeys, Turns
<1>1. {ROUTE, DATABASE, JOB, NS} = Belongings
  BY DEF Belongings
<1>2. \A out : Spend(out) /\ out # "ok" => faults' # faults
  BY DEF Spend, TypeOK
<1>3. CASE FinalizeParent
  BY <1>3 DEF FinalizeParent, GoOn
<1>4. CASE FinalizeRouting
  <2>1. PICK out \in Outcomes :
           /\ deleteHTTPRoute(out)
           /\ IF RouteDeleted(out) THEN GoOn("finDatabase") ELSE Done(TRUE)
    BY <1>4 DEF FinalizeRouting
  <2>2. pc = "finRoute" /\ (pc' = "idle" \/ (pc' = "finDatabase" /\ RouteDeleted(out)))
    BY <1>4, <2>1 DEF FinalizeRouting, GoOn, Done
  <2>3. UNCHANGED api \/ (Puts(ROUTE, "absent") /\ View(ROUTE) # "absent")
    BY <2>1 DEF deleteHTTPRoute, Write, Puts
  <2>4. RouteDeleted(out) => api'[ROUTE] = "absent" \/ View(ROUTE) = "absent"
    BY <1>1, <2>1 DEF RouteDeleted, deleteHTTPRoute, Write, TypeOK
  <2>5. View(ROUTE) # "absent" => \A k \in Belongings : ~Overlooks(k)
    BY <1>1, <2>2 DEF Overlooks
  <2>6. View(ROUTE) = "absent" /\ pc' = "finDatabase" => Overlooks(ROUTE)
    BY <2>2 DEF Overlooks
  <2> QED
    BY <1>1, <2>2, <2>3, <2>4, <2>5, <2>6 DEF Gone
<1>5. ASSUME NEW k \in {DATABASE, JOB}, NEW left, NEW next, Gone(left),
             FinalizeDelete(k, left, next), <<pc, next>> = Turn(k)
      PROVE  /\ \/ UNCHANGED api
                \/ Puts(k, left) /\ \A j \in Belongings : ~Overlooks(j)
             /\ \/ pc' = "idle"
                \/ <<pc, pc'>> = Turn(k) /\ (Gone(api'[k]) \/ Overlooks(k))
  <2>1. PICK out \in Outcomes :
          LET seen == View(k) # "absent" /\ out # "unread"
              hit  == seen /\ api[k] # "absent"
          IN  /\ out \in {"undone", "lost"} => seen
              /\ Spend(out)
              /\ IF hit /\ out \in {"ok", "lost"}
                 THEN Write([api EXCEPT ![k] = left])
                 ELSE UNCHANGED <<api, queued>>
              /\ IF ~seen \/ (out = "ok" /\ hit) THEN GoOn(next)
                                                ELSE Done(TRUE)
    BY <1>5 DEF FinalizeDelete
  <2>2. CASE ~(View(k) # "absent" /\ out # "unread")
    <3>1. UNCHANGED api /\ pc' = next
      BY <2>1, <2>2 DEF GoOn
    <3>2. Overlooks(k)
      BY <1>2, <1>5, <2>1, <2>2, <3>1 DEF Overlooks
    <3> QED
      BY <1>5, <3>1, <3>2
  <2>3. CASE View(k) # "absent" /\ out # "unread" /\ api[k] = "absent"
    <3>1. UNCHANGED api /\ pc' = "idle"
      BY <2>1, <2>3 DEF Done
    <3> QED
      BY <3>1
  <2>4. CASE View(k) # "absent" /\ out # "unread" /\ api[k] # "absent"
    <3>1. CASE out = "ok"
      <4>1. Puts(k, left) /\ pc' = next /\ faults' = faults
        BY <2>1, <2>4, <3>1 DEF Write, Puts, GoOn, Spend
      <4>2. \A j \in Belongings : ~Overlooks(j)
        BY <1>1, <1>5, <2>4, <4>1 DEF Overlooks
      <4>3. Gone(api'[k])
        BY <1>1, <1>5, <4>1 DEF Puts, TypeOK
      <4> QED
        BY <1>5, <4>1, <4>2, <4>3
    <3>2. CASE out # "ok"
      <4>1. pc' = "idle" /\ (UNCHANGED api \/ Puts(k, left))
        BY <2>1, <2>4, <3>2 DEF Write, Puts, Done
      <4> QED
        BY <4>1, NoOverlook
    <3> QED
      BY <3>1, <3>2
  <2> QED
    BY <2>2, <2>3, <2>4
<1>6. CASE DatabaseFinalize
  <2>1. CASE pc = "finDatabase"
    <3>1. PICK left \in {"absent", "terminating"} :
             FinalizeDelete(DATABASE, left, "finJob")
      BY <1>6, <2>1 DEF DatabaseFinalize
    <3>2. Gone(left)
      BY DEF Gone
    <3> QED
      BY <1>1, <1>5, <2>1, <3>1, <3>2
  <2>2. CASE pc # "finDatabase"
    <3>1. pc = "finJob" /\ FinalizeDelete(JOB, "absent", "finNs")
      BY <1>6, <2>2 DEF DatabaseFinalize
    <3>2. Gone("absent")
      BY DEF Gone
    <3> QED
      BY <1>1, <1>5, <3>1, <3>2
  <2> QED
    BY <2>1, <2>2
<1>7. CASE NamespaceFinalize
  <2>1. /\ pc = "finNs"
        /\ \/ pc' = "idle"
           \/ /\ pc' = "finRemove"
              /\ View(NS) = "absent" \/ api'[NS] = "terminating"
        /\ UNCHANGED api \/ (Puts(NS, "terminating") /\ View(NS) # "absent")
    BY <1>1, <1>7 DEF NamespaceFinalize, Write, Puts, GoOn, Done, TypeOK
  <2>2. View(NS) # "absent" => \A k \in Belongings : ~Overlooks(k)
    BY <1>1, <2>1 DEF Overlooks
  <2>3. View(NS) = "absent" /\ pc' = "finRemove" => Overlooks(NS)
    BY <2>1 DEF Overlooks
  <2> QED
    BY <1>1, <2>1, <2>2, <2>3 DEF Gone
<1> QED
  BY <1>3, <1>4, <1>6, <1>7 DEF CleanUp

\* Finalization keeps the invariant.
LEMMA CleanUpTidy ==
    ASSUME Remember, TypeOK, CleanupInv, CleanUp
    PROVE  CleanupInv'
<1> USE CleanupKeys, Turns
<1>1. UNCHANGED cr /\ ~NewLife
  BY CleanUpStep DEF FinalizeFrame, crVars, NewLife
<1>2. \A k \in Belongings : Gone(api[k]) => Gone(api'[k])
  BY CleanUpPuts DEF Puts, TypeOK
<1>3. CASE pc' \in {"idle", "finRoute"}
  BY <1>1, <1>2, <1>3, TidyStep
<1>4. missed' \subseteq {k \in Belongings : ~Gone(api'[k])}
  BY <1>1 DEF Remember
<1>5. \A k \in Belongings : Settled(k) => Settled(k)'
  BY <1>1, <1>2, SettledStep
<1>6. CASE pc = "finParent" /\ pc' = "finAbandon"
  <2>1. \A k \in Belongings : Settled(k)'
    BY <1>1, <1>2, <1>6, SettledStep DEF Overlooks
  <2> QED
    BY <1>4, <1>6, <2>1 DEF CleanupInv, CleanedSoFar
<1>7. CASE \E k \in Belongings : /\ <<pc, pc'>> = Turn(k)
                                 /\ Gone(api'[k]) \/ Overlooks(k)
  <2>1. PICK k \in Belongings : /\ <<pc, pc'>> = Turn(k)
                                /\ Gone(api'[k]) \/ Overlooks(k)
    BY <1>7
  <2>2. Settled(k)'
    BY <1>1, <1>2, <2>1, SettledStep
  <2>3. {ROUTE, DATABASE, JOB, NS} = Belongings
    BY DEF Belongings
  <2>4. CleanedSoFar'
    BY <1>5, <2>1, <2>2, <2>3 DEF CleanupInv, CleanedSoFar
  <2>5. pc' # "finAbandon"
    BY <2>1, <2>3
  <2>6. ~cr'.fin => \A j \in Belongings : Settled(j)'
    BY <1>1, <1>5 DEF CleanupInv
  <2> QED
    BY <1>4, <2>4, <2>5, <2>6 DEF CleanupInv
<1> QED
  BY <1>3, <1>6, <1>7, CleanUpPuts

\* The rest of the worker, the workqueue and restarts keep it.
LEMMA WorkerTidy ==
    ASSUME Remember, TypeOK, CleanupInv,
           \/ StartReconcile \/ AddFinalizer \/ PatchStatus \/ MarkDeleting
           \/ RemoveFinalizer \/ TimerFires \/ DeliverTenant \/ Restart
           \/ \E kind \in Lagging : Deliver(kind)
    PROVE  CleanupInv'
<1>1. UNCHANGED api
  BY DEF StartReconcile, AddFinalizer, PatchStatus, MarkDeleting,
         RemoveFinalizer, TimerFires, DeliverTenant, Restart, Deliver, kubeVars
<1>2. missed' \subseteq {k \in Belongings : ~Gone(api'[k])}
  BY DEF Remember
<1>3. CASE RemoveFinalizer
  <2>1. pc' = "idle"
    BY <1>3 DEF RemoveFinalizer, Done
  <2>2. \A k \in Belongings : Settled(k)
    BY <1>3 DEF RemoveFinalizer, CleanupInv, CleanedSoFar, Belongings
  <2>3. ~NewLife
    BY <1>3 DEF RemoveFinalizer, WithoutFinalizer, NoCR, NewLife, crVars,
                TypeOK, CRs
  <2>4. \A k \in Belongings : Settled(k)'
    BY <1>1, <2>2, <2>3, SettledStep
  <2> QED
    BY <1>2, <2>1, <2>4 DEF CleanupInv, CleanedSoFar
<1>4. CASE AddFinalizer
  <2>1. pc' = "idle"
    BY <1>4 DEF AddFinalizer, Done
  <2>2. CASE UNCHANGED cr
    BY <1>1, <2>1, <2>2, TidyStep
  <2>3. CASE cr'.fin
    BY <1>2, <2>1, <2>3 DEF CleanupInv, CleanedSoFar
  <2>4. UNCHANGED cr \/ cr'.fin
    BY <1>4 DEF AddFinalizer, TypeOK, CRs
  <2> QED
    BY <2>2, <2>3, <2>4
<1>5. CASE \/ StartReconcile \/ PatchStatus \/ MarkDeleting \/ TimerFires
           \/ DeliverTenant \/ Restart \/ \E kind \in Lagging : Deliver(kind)
  <2>1. UNCHANGED cr
    BY <1>5 DEF StartReconcile, PatchStatus, MarkDeleting, TimerFires,
                DeliverTenant, Restart, Deliver, crVars
  <2>2. pc' = pc \/ pc' \in {"idle", "addFin", "parent", "finPatch", "finParent"}
    BY <1>5 DEF StartReconcile, PatchStatus, MarkDeleting,
                TimerFires, DeliverTenant, Restart, Deliver, Done, workerVars
  <2> QED
    BY <1>1, <2>1, <2>2, TidyStep
<1> QED
  BY <1>3, <1>4, <1>5

\* Users and the other controllers of the cluster leave the worker and the
\* operator's finalizer alone.
LEMMA SurroundingsFin ==
    ASSUME TypeOK, FinalizerInv, User \/ Cluster
    PROVE  UNCHANGED pc /\ (cr'.fin <=> cr.fin)
<1>1. UNCHANGED pc
  BY DEF User, CreateTenant, DeleteTenant, ToggleSuspended, ChangeParent,
         ChangeTenant, UserFrame, Cluster, ReleaseForeground,
         ClusterIsCollected, DatabaseIsApplied, DatabaseIsRefused,
         DatabaseIsGone, JobEnds, PodsAreReady, PodsFail, NamespaceIsGone,
         ClusterFrame, workerVars
<1>2. CASE CreateTenant
  BY <1>1, <1>2
  DEF CreateTenant, ChangeTenant, NoCR, FinalizerInv, FinalizerGoesOnLive
<1>3. CASE DeleteTenant
  BY <1>1, <1>3 DEF DeleteTenant, ChangeTenant, NoCR, TypeOK, CRs
<1>4. CASE ToggleSuspended \/ ReleaseForeground
  <2>1. CASE ToggleSuspended
    BY <1>1, <2>1 DEF ToggleSuspended, ChangeTenant, TypeOK, CRs
  <2>2. CASE ReleaseForeground
    BY <1>1, <2>2 DEF ReleaseForeground, ChangeTenant, NoCR, TypeOK, CRs
  <2> QED
    BY <1>4, <2>1, <2>2
<1>5. CASE UNCHANGED cr
  BY <1>1, <1>5
<1>6. CASE ChangeParent
  BY <1>5, <1>6 DEF ChangeParent, crVars
<1>7. CASE Cluster /\ ~ReleaseForeground
  BY <1>5, <1>7
  DEF Cluster, ClusterIsCollected, DatabaseIsApplied, DatabaseIsRefused,
      DatabaseIsGone, JobEnds, PodsAreReady, PodsFail, NamespaceIsGone,
      ClusterFrame, crVars
<1> QED
  BY <1>2, <1>3, <1>4, <1>6, <1>7 DEF User

\* Users bring no belonging back.
LEMMA UserPuts ==
    ASSUME TypeOK, User
    PROVE  \A k \in Belongings : api'[k] = api[k]
<1>1. CASE ChangeParent
  BY <1>1, CleanupKeys DEF ChangeParent, Write, TypeOK
<1> QED
  BY <1>1 DEF User, CreateTenant, DeleteTenant, ToggleSuspended, ChangeTenant

\* They keep the invariant.
LEMMA SurroundingsTidy ==
    ASSUME Remember, TypeOK, FinalizerInv, CleanupInv, User \/ Cluster
    PROVE  CleanupInv'
BY SurroundingsFin, UserPuts, ClusterPuts, TidyStep

\* A step that changes nothing forgets nothing.
LEMMA IdleTidy == CleanupInv /\ UNCHANGED hvars => CleanupInv'
BY DEF hvars, vars, crVars, kubeVars, workerVars, CleanupInv, CleanedSoFar,
       Settled, Gone

\* Every step keeps it.
LEMMA NextTidy ==
    TypeOK /\ FinalizerInv /\ CleanupInv /\ [HistoryNext]_hvars => CleanupInv'
<1> SUFFICES ASSUME TypeOK, FinalizerInv, CleanupInv, Next, Remember
             PROVE  CleanupInv'
  BY IdleTidy DEF HistoryNext
<1> QED
  BY ProvisionTidy, CleanUpTidy, WorkerTidy, SurroundingsTidy
  DEF Next, WorkerStep, Provision, CleanUp

\* Initially there is nothing to clean up.
LEMMA InitTidy == HistoryInit => CleanupInv
BY CleanupKeys
DEF HistoryInit, Init, CleanupInv, CleanedSoFar, Settled, Gone

\* The history is one of the controller.
LEMMA HistoryIsOfSpec ==
    /\ HistoryInit => Init
    /\ [HistoryNext]_hvars => [Next]_vars
BY DEF HistoryInit, HistoryNext, hvars

\* The invariant holds in every reachable state.
LEMMA AlwaysTidy == HistorySpec => [](TypeOK /\ FinalizerInv /\ CleanupInv)
<1> DEFINE I == TypeOK /\ FinalizerInv /\ CleanupInv
<1>1. HistoryInit => I
  BY InitType, InitFinalizerInv, InitTidy, HistoryIsOfSpec
<1>2. I /\ [HistoryNext]_hvars => I'
  BY NextType, NextFinalizerInv, NextTidy, HistoryIsOfSpec
<1> QED
  BY <1>1, <1>2, PTL DEF HistorySpec

\* Nothing outlives a tenant but what finalize has passed over, whatever calls
\* fail, answers are lost, caches lag, conflicts and restarts happen, and
\* whoever comes and goes meanwhile.
THEOREM NothingOutlivesTenant == HistorySpec => []NoOrphans
<1>1. FinalizerInv /\ CleanupInv => NoOrphans
  BY DEF FinalizerInv, FinalizerGoesOnLive, CleanupInv, Settled, NoOrphans
<1> QED
  BY <1>1, AlwaysTidy, PTL

-----------------------------------------------------------------------------
(* The controller implements TenantLifecycle. *)

Present == {k \in Belongings : ~Gone(api[k])}

\* A step that overlooks nothing and belongs to the life of a tenant only
\* forgets what has gone.
LEMMA Forgets ==
    ASSUME Remember, ~NewLife, \A k \in Belongings : ~Overlooks(k), CleanupInv
    PROVE  missed' = missed \cap Present'
BY DEF Remember, CleanupInv, Present

\* The abstract step, if any, of a step that leaves the tenant alone and
\* writes one object at most.
LEMMA ObjectStep ==
    ASSUME Remember, CleanupInv, \A k \in Belongings : ~Overlooks(k),
           TypeOK, UNCHANGED cr, NEW k \in Keys, NEW v, Puts(k, v),
           k \in Belongings /\ ~Gone(v) => ~Gone(api[k]) \/ cr.fin,
           k \in Belongings /\ Gone(v) =>
               \/ Gone(api[k]) \/ k \in missed
               \/ LifecycleOf(cr) = "deleting" \/ k = ROUTE
    PROVE  [Lifecycle!Next]_(Lifecycle!vars)
<1>1. \A b \in Belongings \ {k} : api'[b] = api[b]
  BY CleanupKeys DEF Puts, TypeOK
<1>2. api'[k] = v
  BY DEF Puts, TypeOK
<1>3. LifecycleOf(cr)' = LifecycleOf(cr) /\ cr.fin' = cr.fin
  BY DEF LifecycleOf
<1>4. missed' = missed \cap Present' /\ missed \subseteq Present
  BY Forgets DEF NewLife, CleanupInv, Present
<1>5. CASE k \notin Belongings \/ (Gone(v) <=> Gone(api[k]))
  <2>1. Present' = Present
    BY <1>1, <1>2, <1>5 DEF Present, Gone
  <2> QED
    BY <1>3, <1>4, <2>1 DEF Lifecycle!vars, Present
<1>6. CASE k \in Belongings /\ ~Gone(v) /\ Gone(api[k])
  <2>1. Present' = Present \cup {k} /\ k \notin Present
    BY <1>1, <1>2, <1>6 DEF Present, Gone
  <2>2. missed' = missed /\ (Present \ missed)' = (Present \ missed) \cup {k}
    BY <1>4, <2>1
  <2>3. Lifecycle!Acquire(k)
    BY <1>3, <1>6, <2>1, <2>2 DEF Lifecycle!Acquire, Present
  <2> QED
    BY <1>6, <2>3 DEF Lifecycle!Next
<1>7. CASE k \in Belongings /\ Gone(v) /\ ~Gone(api[k])
  <2>1. Present' = Present \ {k} /\ k \in Present
    BY <1>1, <1>2, <1>7 DEF Present, Gone
  <2>2. missed' = missed \ {k} /\ (Present \ missed)' = (Present \ missed) \ {k}
    BY <1>4, <2>1
  <2>3. k \in missed \/ k \in Present \ missed
    BY <2>1
  <2>4. Lifecycle!CleanUp(k)
    BY <1>3, <1>7, <2>1, <2>2, <2>3 DEF Lifecycle!CleanUp, Present
  <2> QED
    BY <1>7, <2>4 DEF Lifecycle!Next
<1> QED
  BY <1>5, <1>6, <1>7

\* A step that leaves the tenant and its belongings alone is a stutter.
LEMMA Stutter ==
    ASSUME Remember, CleanupInv, \A k \in Belongings : ~Overlooks(k),
           LifecycleOf(cr)' = LifecycleOf(cr), cr'.fin = cr.fin,
           \A k \in Belongings : Gone(api'[k]) <=> Gone(api[k])
    PROVE  UNCHANGED Lifecycle!vars
<1>1. Present' = Present
  BY DEF Present, Gone
<1>2. missed' = missed
  BY <1>1, Forgets DEF NewLife, CleanupInv, Present
<1> QED
  BY <1>1, <1>2 DEF Lifecycle!vars, Present

\* Provisioning acquires belongings under the finalizer, or drops the route.
LEMMA ProvisionRefines ==
    ASSUME Remember, CleanupInv, TypeOK, FinalizerInv, Provision
    PROVE  [Lifecycle!Next]_(Lifecycle!vars)
<1>1. /\ UNCHANGED cr /\ cr.fin
      /\ \A k \in Belongings : ~Overlooks(k)
  BY ProvisionStep, NoOverlook
  DEF ComponentFrame, crVars, FinalizerInv, PassesAreJustified, ReconcilePcs
<1>2. CASE UNCHANGED api
  BY <1>1, <1>2, Stutter DEF LifecycleOf
<1>3. CASE ~UNCHANGED api
  <2>1. PICK k \in Keys \ {SUPABASE} : \E v :
           /\ Puts(k, v)
           /\ k \in Belongings => \/ api[k] = "absent" /\ ~Gone(v)
                                  \/ k = ROUTE /\ v = "absent"
    BY <1>3, ProvisionPuts
  <2>2. PICK v :
           /\ Puts(k, v)
           /\ k \in Belongings => \/ api[k] = "absent" /\ ~Gone(v)
                                  \/ k = ROUTE /\ v = "absent"
    BY <2>1
  <2> QED
    BY <1>1, <2>2, ObjectStep DEF Gone
<1> QED
  BY <1>2, <1>3

\* Finalization overlooks or cleans up belongings of a tenant that is being
\* deleted; for another one there is nothing left to do.
LEMMA CleanUpRefines ==
    ASSUME Remember, CleanupInv, TypeOK, FinalizerInv, CleanUp
    PROVE  [Lifecycle!Next]_(Lifecycle!vars)
<1>1. UNCHANGED cr /\ pc \in FinalizePcs /\ ~NewLife
  BY CleanUpStep DEF FinalizeFrame, crVars, NewLife
<1>2. LifecycleOf(cr)' = LifecycleOf(cr) /\ cr.fin' = cr.fin
  BY <1>1 DEF LifecycleOf
<1>3. cr.fin => LifecycleOf(cr) = "deleting"
  BY <1>1 DEF FinalizerInv, FinalizerGoesOnLive, PassesAreJustified,
              LifecycleOf
<1>4. ~cr.fin => Present \subseteq missed
  BY DEF CleanupInv, Settled, Present
<1>5. CASE UNCHANGED api
  <2> DEFINE B == {k \in Present \ missed : Overlooks(k)}
  <2>1. Present' = Present
    BY <1>5 DEF Present, Gone
  <2>2. missed' = {k \in Present : k \in missed \/ Overlooks(k)}
    BY <1>1, <1>5 DEF Remember, Present
  <2>3. missed \subseteq Present
    BY DEF CleanupInv, Present
  <2>4. missed' = missed \cup B /\ (Present \ missed)' = (Present \ missed) \ B
    BY <2>1, <2>2, <2>3
  <2>5. CASE cr.fin
    <3>1. Lifecycle!Overlook(B)
      BY <1>2, <1>3, <2>4, <2>5 DEF Lifecycle!Overlook, Present
    <3>2. B \in SUBSET ({k \in Belongings : ~Gone(api[k])} \ missed)
      BY DEF Present
    <3> QED
      BY <3>1, <3>2 DEF Lifecycle!Next
  <2>6. CASE ~cr.fin
    <3>1. B = {}
      BY <1>4, <2>6
    <3>2. missed' = missed /\ (Present \ missed)' = Present \ missed
      BY <2>4, <3>1
    <3> QED
      BY <1>2, <3>2 DEF Lifecycle!vars, Present
  <2> QED
    BY <2>5, <2>6
<1>6. CASE ~UNCHANGED api
  <2>1. /\ \E k \in Belongings : \E v : Puts(k, v) /\ Gone(v)
        /\ \A k \in Belongings : ~Overlooks(k)
    BY <1>6, CleanUpPuts
  <2>2. PICK k \in Belongings : \E v : Puts(k, v) /\ Gone(v)
    BY <2>1
  <2>3. PICK v : Puts(k, v) /\ Gone(v)
    BY <2>2
  <2>4. k \in missed \/ Gone(api[k]) \/ LifecycleOf(cr) = "deleting"
    BY <1>3, <1>4 DEF Present
  <2> QED
    BY <1>1, <2>1, <2>3, <2>4, CleanupKeys, ObjectStep
<1> QED
  BY <1>5, <1>6

\* The finalizer goes on a live tenant: it takes hold, of what an earlier
\* tenant has left too.
LEMMA AddFinalizerRefines ==
    ASSUME Remember, CleanupInv, TypeOK, FinalizerInv, AddFinalizer
    PROVE  [Lifecycle!Next]_(Lifecycle!vars)
<1>1. UNCHANGED api /\ pc' = "idle"
  BY DEF AddFinalizer, kubeVars, Done
<1>2. \A k \in Belongings : ~Overlooks(k)
  BY <1>1, NoOverlook
<1>3. CASE UNCHANGED cr
  BY <1>1, <1>2, <1>3, Stutter DEF LifecycleOf
<1>4. CASE ~UNCHANGED cr
  <2>1. pc = "addFin" /\ rvOK /\ cr' = [cr EXCEPT !.fin = TRUE]
    BY <1>4 DEF AddFinalizer
  <2>2. LifecycleOf(cr) = "live"
    BY <2>1 DEF FinalizerInv, FinalizerGoesOnLive, CopiesAreCurrent,
                LifecycleOf
  <2>3. cr'.fin = TRUE /\ cr'.present = cr.present /\ cr'.deleting = cr.deleting
    BY <2>1 DEF TypeOK, CRs
  <2>4. LifecycleOf(cr)' = LifecycleOf(cr)
    BY <2>3 DEF LifecycleOf
  <2>5. CASE cr.fin
    <3>1. cr.fin = TRUE
      BY <2>5 DEF TypeOK, CRs
    <3> QED
      BY <1>1, <1>2, <2>3, <2>4, <3>1, Stutter
  <2>6. CASE ~cr.fin
    <3>1. missed' = {} /\ Present' = Present /\ missed \subseteq Present
      BY <1>1, <2>3, <2>6 DEF Remember, NewLife, CleanupInv, Present, Gone
    <3>2. (Present \ missed)' = (Present \ missed) \cup missed
      BY <3>1
    <3>3. Lifecycle!Hold
      BY <2>2, <2>3, <2>4, <2>6, <3>1, <3>2 DEF Lifecycle!Hold, Present
    <3> QED
      BY <3>3 DEF Lifecycle!Next
  <2> QED
    BY <2>5, <2>6
<1> QED
  BY <1>3, <1>4

\* The finalizer comes off a tenant that is settled: it is released.
LEMMA RemoveFinalizerRefines ==
    ASSUME Remember, CleanupInv, TypeOK, FinalizerInv, RemoveFinalizer
    PROVE  [Lifecycle!Next]_(Lifecycle!vars)
<1>1. UNCHANGED api /\ pc' = "idle"
  BY DEF RemoveFinalizer, kubeVars, Done
<1>2. \A k \in Belongings : ~Overlooks(k)
  BY <1>1, NoOverlook
<1>3. CASE UNCHANGED cr
  BY <1>1, <1>2, <1>3, Stutter DEF LifecycleOf
<1>4. CASE ~UNCHANGED cr
  <2>1. /\ pc \in {"finRemove", "finAbandon"}
        /\ rvOK /\ my.fin /\ cr' = WithoutFinalizer(cr)
    BY <1>4 DEF RemoveFinalizer, crVars
  <2>2. cr.fin /\ cr.present /\ cr.deleting
    BY <2>1 DEF FinalizerInv, CopiesAreCurrent, FinalizerGoesOnLive,
                PassesAreJustified, FinalizePcs
  <2>3. Present \subseteq missed
    BY <2>1 DEF CleanupInv, CleanedSoFar, Settled, Belongings, Present
  <2>4. cr'.fin = FALSE /\ (cr'.present => cr'.deleting)
    BY <2>1, <2>2 DEF WithoutFinalizer, NoCR, TypeOK, CRs
  <2>5. LifecycleOf(cr) = "deleting" /\ LifecycleOf(cr)' \in {"deleting", "none"}
    BY <2>2, <2>4 DEF LifecycleOf
  <2>6. Present' = Present
    BY <1>1 DEF Present, Gone
  <2>7. missed' = missed
    BY <1>2, <2>4, <2>6, Forgets DEF NewLife, CleanupInv, Present
  <2>8. Lifecycle!Release
    BY <2>2, <2>3, <2>4, <2>5, <2>6, <2>7 DEF Lifecycle!Release, Present
  <2> QED
    BY <2>8 DEF Lifecycle!Next
<1> QED
  BY <1>3, <1>4

\* What users and the other controllers do overlooks nothing and begins no
\* life: the abstract tenant owns what it owned.
LEMMA SurroundingsKeep ==
    ASSUME Remember, CleanupInv, TypeOK, FinalizerInv, User \/ Cluster
    PROVE  /\ \A k \in Belongings : ~Overlooks(k)
           /\ cr'.fin = cr.fin
           /\ \A k \in Belongings : Gone(api'[k]) <=> Gone(api[k])
           /\ missed' = missed /\ Present' = Present
<1>1. UNCHANGED pc /\ (cr'.fin <=> cr.fin)
  BY SurroundingsFin
<1>2. \A k \in Belongings : ~Overlooks(k)
  BY <1>1, NoOverlook
<1>3. \A k \in Belongings : Gone(api'[k]) <=> Gone(api[k])
  BY UserPuts, ClusterPuts DEF Gone
<1>4. Present' = Present
  BY <1>3 DEF Present, Gone
<1>5. missed' = missed
  BY <1>1, <1>2, <1>4, Forgets DEF NewLife, CleanupInv, Present
<1>6. cr \in CRs /\ cr' \in CRs
  BY UserType, ClusterType DEF TypeOK
<1>7. cr'.fin = cr.fin
  BY <1>1, <1>6 DEF CRs
<1> QED
  BY <1>2, <1>3, <1>4, <1>5, <1>7

\* Users create, delete and edit the tenant.
LEMMA UserRefines ==
    ASSUME Remember, CleanupInv, TypeOK, FinalizerInv, User
    PROVE  [Lifecycle!Next]_(Lifecycle!vars)
<1>1. /\ \A k \in Belongings : ~Overlooks(k)
      /\ cr'.fin = cr.fin
      /\ \A k \in Belongings : Gone(api'[k]) <=> Gone(api[k])
      /\ missed' = missed /\ Present' = Present
  BY SurroundingsKeep
<1>2. CASE CreateTenant
  <2>1. ~cr.present /\ cr'.present /\ ~cr'.deleting
    BY <1>2 DEF CreateTenant, ChangeTenant, NoCR
  <2>2. Lifecycle!Create
    BY <1>1, <2>1 DEF Lifecycle!Create, LifecycleOf, Present
  <2> QED
    BY <2>2 DEF Lifecycle!Next
<1>3. CASE DeleteTenant
  <2>1. /\ cr.present /\ ~cr.deleting
        /\ \/ cr' = NoCR /\ ~cr.fin
           \/ \E hold : cr' = [cr EXCEPT !.deleting = TRUE, !.hold = hold]
    BY <1>3 DEF DeleteTenant, ChangeTenant
  <2>2. LifecycleOf(cr) = "live"
    BY <2>1 DEF LifecycleOf
  <2>3. LifecycleOf(cr)' \in IF cr.fin THEN {"deleting"}
                                       ELSE {"deleting", "none"}
    <3>1. CASE cr' = NoCR /\ ~cr.fin
      BY <3>1 DEF LifecycleOf, NoCR
    <3>2. CASE \E hold : cr' = [cr EXCEPT !.deleting = TRUE, !.hold = hold]
      <4>1. cr'.present /\ cr'.deleting
        BY <2>1, <3>2 DEF TypeOK, CRs
      <4> QED
        BY <4>1 DEF LifecycleOf
    <3> QED
      BY <2>1, <3>1, <3>2
  <2>4. Lifecycle!Delete
    BY <1>1, <2>2, <2>3 DEF Lifecycle!Delete, Present
  <2> QED
    BY <2>4 DEF Lifecycle!Next
<1>4. CASE ToggleSuspended
  <2>1. LifecycleOf(cr)' = LifecycleOf(cr)
    BY <1>4 DEF ToggleSuspended, ChangeTenant, LifecycleOf, TypeOK, CRs
  <2> QED
    BY <1>1, <2>1, Stutter
<1>5. CASE ChangeParent
  <2>1. LifecycleOf(cr)' = LifecycleOf(cr)
    BY <1>5 DEF ChangeParent, crVars, LifecycleOf
  <2> QED
    BY <1>1, <2>1, Stutter
<1> QED
  BY <1>2, <1>3, <1>4, <1>5 DEF User

\* The other controllers let a tenant go that nobody holds any more.
LEMMA ClusterRefines ==
    ASSUME Remember, CleanupInv, TypeOK, FinalizerInv, Cluster
    PROVE  [Lifecycle!Next]_(Lifecycle!vars)
<1>1. /\ \A k \in Belongings : ~Overlooks(k)
      /\ cr'.fin = cr.fin
      /\ \A k \in Belongings : Gone(api'[k]) <=> Gone(api[k])
      /\ missed' = missed /\ Present' = Present
  BY SurroundingsKeep
<1>2. CASE ReleaseForeground /\ cr.fin
  <2>1. cr' = [cr EXCEPT !.hold = FALSE]
    BY <1>2 DEF ReleaseForeground, ChangeTenant
  <2>2. LifecycleOf(cr)' = LifecycleOf(cr)
    BY <2>1 DEF LifecycleOf, TypeOK, CRs
  <2> QED
    BY <1>1, <2>2, Stutter
<1>3. CASE ReleaseForeground /\ ~cr.fin
  <2>1. cr' = NoCR /\ cr.present
    BY <1>3 DEF ReleaseForeground, ChangeTenant
  <2>2. LifecycleOf(cr)' = "none"
    BY <2>1 DEF LifecycleOf, NoCR
  <2>3. Lifecycle!Delete \/ Lifecycle!Disappear
    BY <1>1, <1>3, <2>1, <2>2
    DEF Lifecycle!Delete, Lifecycle!Disappear, LifecycleOf, Present
  <2> QED
    BY <2>3 DEF Lifecycle!Next
<1>4. CASE ~ReleaseForeground
  <2>1. UNCHANGED cr
    BY <1>4 DEF Cluster, ClusterIsCollected, DatabaseIsApplied,
                DatabaseIsRefused, DatabaseIsGone, JobEnds, PodsAreReady,
                PodsFail, NamespaceIsGone, ClusterFrame, crVars
  <2> QED
    BY <1>1, <2>1, Stutter DEF LifecycleOf
<1> QED
  BY <1>2, <1>3, <1>4

\* Every step is an abstract step or a stutter.
LEMMA StepRefines ==
    TypeOK /\ FinalizerInv /\ CleanupInv /\ [HistoryNext]_hvars
        => [Lifecycle!Next]_(Lifecycle!vars)
<1> SUFFICES ASSUME TypeOK, FinalizerInv, CleanupInv, [HistoryNext]_hvars
             PROVE  [Lifecycle!Next]_(Lifecycle!vars)
  OBVIOUS
<1>1. CASE UNCHANGED hvars
  BY <1>1 DEF hvars, vars, crVars, kubeVars, Lifecycle!vars, LifecycleOf, Gone
<1>2. CASE Remember /\ \/ StartReconcile \/ PatchStatus \/ MarkDeleting
                       \/ TimerFires \/ DeliverTenant \/ Restart
                       \/ \E kind \in Lagging : Deliver(kind)
  <2>1. UNCHANGED <<cr, api>>
    BY <1>2 DEF StartReconcile, PatchStatus, MarkDeleting, TimerFires,
                DeliverTenant, Restart, Deliver, crVars, kubeVars
  <2>2. pc' = pc \/ pc' \in {"idle", "addFin", "parent", "finPatch", "finParent"}
    BY <1>2 DEF StartReconcile, PatchStatus, MarkDeleting, TimerFires,
                DeliverTenant, Restart, Deliver, Done, workerVars
  <2>3. \A k \in Belongings : ~Overlooks(k)
    BY <2>2, NoOverlook
  <2> QED
    BY <1>2, <2>1, <2>3, Stutter DEF LifecycleOf
<1> QED
  BY <1>1, <1>2, ProvisionRefines, CleanUpRefines, AddFinalizerRefines,
     RemoveFinalizerRefines, UserRefines, ClusterRefines
  DEF HistoryNext, Next, WorkerStep, Provision, CleanUp

\* The initial states are abstract initial states.
LEMMA InitRefines == HistoryInit => Lifecycle!Init
BY CleanupKeys
DEF HistoryInit, Init, Lifecycle!Init, LifecycleOf, NoCR, Gone

\* The controller keeps the promises of TenantLifecycle: it holds a tenant
\* before it creates anything for it, and lets go of a deleted tenant only
\* when everything is cleaned up or has been passed over, whatever fails and
\* however old the caches are.
THEOREM LifecycleIsImplemented == HistorySpec => ImplementsLifecycle
<1>1. HistoryInit => Lifecycle!Init
  BY InitRefines
<1>2. TypeOK /\ FinalizerInv /\ CleanupInv /\ [HistoryNext]_hvars
          => [Lifecycle!Next]_(Lifecycle!vars)
  BY StepRefines
<1> QED
  BY <1>1, <1>2, AlwaysTidy, PTL
  DEF HistorySpec, ImplementsLifecycle, Lifecycle!Spec
=============================================================================
