-------------------------- MODULE TenantReconciler --------------------------
(***************************************************************************)
(* The SupabaseTenant controller (internal/controller/                     *)
(* supabasetenant_controller.go) and the tenant components it drives       *)
(* (internal/components/tenant), for one SupabaseTenant key.               *)
(*                                                                         *)
(* One worker at most runs for a key: the workqueue of controller-runtime  *)
(* never hands a key to two workers.  Every other actor interleaves with   *)
(* its API calls: users, the informers that fill the cache the worker      *)
(* reads, the kubelet and the other controllers of the cluster, timers     *)
(* and restarts of the operator.                                           *)
(*                                                                         *)
(* Simplifications.  A step is one Get with the write that depends on it:  *)
(* a cached Get may be arbitrarily old, so a gap between the two adds no   *)
(* behaviour.  A health check is one step.  An informer that catches up    *)
(* jumps to the newest version.  Deleting a namespace drops its content at *)
(* once, when the namespace goes.  Names, images, SQL and messages are     *)
(* left out; what remains of a built object is where it lives and what     *)
(* state it starts in.                                                     *)
(***************************************************************************)
EXTENDS Integers, FiniteSets

CONSTANTS
    NumServices,   \* how many service components run after the prerequisites
    Lagging,       \* kinds of objects read through a cache that can be behind
    Policies,      \* deletion policies users ask for; none: nobody deletes
    JobsExhaust,   \* TRUE: the init Job can run out of retries
    ParentGoes,    \* TRUE: users may delete the parent Supabase
    Failures,      \* the ways in which things fail, see Outcomes
    MaxFaults,     \* bound: failed API calls and failing pods
    MaxEdits,      \* bound: spec edits, parent creations and deletions
    MaxLives,      \* bound: creations of the SupabaseTenant
    MaxCrashes     \* bound: restarts of the operator

PlatformKinds == {"supabase", "database", "job", "route"}
NamespacedKinds == {"np", "jwt", "dbc", "deploy", "svc"}
Kinds == PlatformKinds \cup NamespacedKinds \cup {"ns"}

ASSUME ServicesAssumption == NumServices \in Nat \ {0}
ASSUME LaggingAssumption == Lagging \subseteq Kinds
ASSUME PoliciesAssumption == Policies \subseteq {"background", "foreground"}
ASSUME FailuresAssumption ==
    Failures \subseteq {"unread", "undone", "lost", "unhealthy"}
ASSUME SwitchesAssumption == JobsExhaust \in BOOLEAN /\ ParentGoes \in BOOLEAN
ASSUME BoundsAssumption ==
    /\ MaxFaults \in Nat /\ MaxEdits \in Nat
    /\ MaxLives \in Nat /\ MaxCrashes \in Nat

-----------------------------------------------------------------------------
(* Objects of the API server, and the states they can be in. *)

Services == 1 .. NumServices

SUPABASE == <<"supabase", 0>>
NS       == <<"ns", 0>>
NP       == <<"np", 0>>
JWT      == <<"jwt", 0>>
DBC      == <<"dbc", 0>>
DATABASE == <<"database", 0>>
JOB      == <<"job", 0>>
ROUTE    == <<"route", 0>>
Deploy(i) == <<"deploy", i>>
Svc(i)    == <<"svc", i>>

Keys == {SUPABASE, NS, NP, JWT, DBC, DATABASE, JOB, ROUTE}
            \cup {Deploy(i) : i \in Services} \cup {Svc(i) : i \in Services}

\* "pending" is a Database whose Status.Applied is nil, a Job that is still
\* running and a Deployment whose pods are not ready; "zero" is a Deployment
\* scaled to no replicas.
ObjStates == {"absent", "present", "pending", "active", "terminating",
              "applied", "refused", "succeeded", "failed", "ready", "zero"}

\* The builders: the namespace an object lives in and its first state.
buildNamespace           == [home |-> "cluster",  first |-> "active"]
buildNetworkPolicy       == [home |-> "tenant",   first |-> "present"]
buildJWTSecret           == [home |-> "tenant",   first |-> "present"]
buildDBCredentialsSecret == [home |-> "tenant",   first |-> "present"]
buildCNPGDatabase        == [home |-> "platform", first |-> "pending"]
buildInitJob             == [home |-> "platform", first |-> "pending"]
BuildDeployment          == [home |-> "tenant",   first |-> "pending"]
BuildService             == [home |-> "tenant",   first |-> "present"]
buildHTTPRoute           == [home |-> "platform", first |-> "present"]

Watched == {"deploy", "svc", "database", "route"}

-----------------------------------------------------------------------------
(* The SupabaseTenant: its metadata and spec, and its status. *)

CRs == [present : BOOLEAN,    \* the object exists
        deleting : BOOLEAN,   \* DeletionTimestamp is set
        fin : BOOLEAN,        \* it carries the operator's finalizer
        hold : BOOLEAN,       \* it carries somebody else's finalizer
        susp : BOOLEAN,       \* spec.suspended
        gen : Nat]            \* metadata.generation

NoCR == [present |-> FALSE, deleting |-> FALSE, fin |-> FALSE,
         hold |-> FALSE, susp |-> FALSE, gen |-> 0]

Phases == {"", "Provisioning", "Ready", "Suspended", "Error", "Deleting"}

ServiceReady(i) == <<"ServiceReady", i>>
NamespaceReady  == <<"NamespaceReady", 0>>
SecretsReady    == <<"SecretsReady", 0>>
DatabaseReady   == <<"DatabaseReady", 0>>
RoutingReady    == <<"RoutingReady", 0>>
ReadyCond       == <<"Ready", 0>>   \* set only when the parent is missing

ComponentConds == {NamespaceReady, SecretsReady, DatabaseReady, RoutingReady}
                      \cup {ServiceReady(i) : i \in Services}
Conds == ComponentConds \cup {ReadyCond}

\* A condition: its reason stands for its Status too, which is True for
\* "Ready" only; gen is its ObservedGeneration.
Conditions == [reason : {"Unset", "Ready", "NotReady", "Error"}, gen : Nat]
Unset == [reason |-> "Unset", gen |-> 0]

Statuses == [phase : Phases, conds : [Conds -> Conditions],
             obs : Nat, endpoint : BOOLEAN]

NoStatus == [phase |-> "", conds |-> [c \in Conds |-> Unset],
             obs |-> 0, endpoint |-> FALSE]

-----------------------------------------------------------------------------
VARIABLES
    cr, status,            \* the SupabaseTenant on the API server
    crEvent,               \* an event about it is on its way to the informer
    seenCR, seenStatus,    \* the SupabaseTenant in the operator's cache
    api,                   \* the state of every other object on the server
    cache,                 \* the same in the cache, for the Lagging kinds
    pgdb,                  \* the tenant's database inside Postgres, see below
    orphaned,              \* the Cluster that is there was made for a Supabase
                           \* that is gone, and will be collected
    pc,                    \* where the worker is
    at,                    \* the service component it is working on
    my, base, work,        \* tenantCR: metadata, patch base, edited status
    rvOK,                  \* the resourceVersion it holds is the server's
    allReady,              \* allServicesReady
    queued,                \* the key is in the workqueue
    timer,                 \* a delayed or rate-limited add is pending
    faults, edits, lives, crashes   \* what has been spent of the bounds

crVars     == <<cr, status, crEvent>>
seenVars   == <<seenCR, seenStatus>>
kubeVars   == <<api, cache, pgdb, orphaned>>
workerVars == <<pc, at, my, base, work, rvOK, allReady>>
queueVars  == <<queued, timer>>
bounds     == <<faults, edits, lives, crashes>>
vars == <<crVars, seenVars, kubeVars, workerVars, queueVars, bounds>>

\* A database is lost with its Cluster, which the Supabase it was made for
\* controls; nothing else drops it, not even the deletion of its Database.
Databases == {"never", "exists", "lost"}
DatabaseExisted == pgdb # "never"

ReconcilePcs == {"parent", "ns", "np", "nsHealth", "jwt", "dbc",
                 "secretHealth", "database", "job", "dbHealth", "deploy",
                 "svc", "svcHealth", "route", "routeHealth"}
FinalizePcs == {"finPatch", "finParent", "finRoute", "finDatabase", "finJob",
                "finNs", "finRemove", "finAbandon"}
Pcs == {"idle", "addFin", "patch"} \cup ReconcilePcs \cup FinalizePcs

Init ==
    /\ cr = NoCR /\ seenCR = NoCR
    /\ status = NoStatus /\ seenStatus = NoStatus
    /\ crEvent = FALSE
    /\ \E p \in {"absent", "present"} :
          api = [k \in Keys |-> IF k = SUPABASE THEN p ELSE "absent"]
    /\ cache = api
    /\ pgdb = "never" /\ orphaned = FALSE
    /\ pc = "idle" /\ at = 1
    /\ my = NoCR /\ base = NoStatus /\ work = NoStatus
    /\ rvOK = FALSE /\ allReady = TRUE
    /\ queued = FALSE /\ timer = FALSE
    /\ faults = 0 /\ edits = 0 /\ lives = 0 /\ crashes = 0

-----------------------------------------------------------------------------
(* Reads, writes and their failures. *)

\* r.Get of an object other than the SupabaseTenant.
View(k) == IF k[1] \in Lagging THEN cache[k] ELSE api[k]

\* mapByTenantLabel: the event of a watched object is turned into a request
\* when the cache holds a tenant with the object's tenant ID.
mapByTenantLabel == seenCR.present

\* A changed object that is read without lag wakes the worker at once.
Wakes(new) ==
    /\ mapByTenantLabel
    /\ \E k \in Keys : k[1] \in Watched \ Lagging /\ new[k] # api[k]

Write(new) == api' = new /\ queued' = (queued \/ Wakes(new))

\* The outcomes of a Get followed by a write: all went well, the Get failed,
\* the write was not done, or it was done and its answer was lost.
Outcomes == {"ok", "unread", "undone", "lost"}

Spend(out) ==
    /\ out # "ok" => out \in Failures /\ faults < MaxFaults
    /\ faults' = IF out = "ok" THEN faults ELSE faults + 1

\* What the API server asks of a Create: a free name and, for a namespaced
\* object, a namespace that exists and is not being deleted.
Creatable(k, home) ==
    /\ api[k] = "absent"
    /\ home = "tenant" => api[NS] = "active"

\* Mutant: an error or a pending pass is not requeued.
DoneWithoutRequeue(again) ==
    /\ timer' = timer
    /\ pc' = "idle" /\ at' = 1
    /\ my' = NoCR /\ base' = NoStatus /\ work' = NoStatus
    /\ rvOK' = FALSE /\ allReady' = TRUE

\* The end of Reconcile: again is TRUE for RequeueAfter, Requeue and for an
\* error, which the workqueue retries with a delay.
Done(again) ==
    /\ timer' = (timer \/ again)
    /\ pc' = "idle" /\ at' = 1
    /\ my' = NoCR /\ base' = NoStatus /\ work' = NoStatus
    /\ rvOK' = FALSE /\ allReady' = TRUE

-----------------------------------------------------------------------------
(* Reconcile: the tenant, its finalizer and its parent. *)

StartReconcile ==
    /\ pc = "idle" /\ queued
    /\ queued' = FALSE
    /\ \E out \in {"ok", "unread"} :
          /\ Spend(out)
          /\ \/ out = "unread" /\ Done(TRUE)
             \/ out = "ok" /\ ~seenCR.present /\ Done(FALSE)
             \/ /\ out = "ok" /\ seenCR.present
                /\ seenCR.deleting /\ ~seenCR.fin
                /\ Done(FALSE)
             \/ /\ out = "ok" /\ seenCR.present
                /\ ~seenCR.deleting \/ seenCR.fin
                /\ pc' = CASE seenCR.deleting -> "finPatch"
                           [] ~seenCR.deleting /\ ~seenCR.fin -> "addFin"
                           [] OTHER -> "parent"
                /\ my' = seenCR /\ base' = seenStatus /\ work' = seenStatus
                /\ rvOK' = ~crEvent
                /\ UNCHANGED <<at, allReady, timer>>
    /\ UNCHANGED <<crVars, seenVars, kubeVars, edits, lives, crashes>>

\* Mutant: the pass goes on although the Update failed.
AddFinalizerAndGoOn ==
    /\ pc = "addFin"
    /\ IF rvOK THEN cr' = [cr EXCEPT !.fin = TRUE] /\ crEvent' = TRUE
               ELSE UNCHANGED <<cr, crEvent>>
    /\ pc' = "parent" /\ rvOK' = FALSE
    /\ UNCHANGED <<status, seenVars, kubeVars, queueVars, at, my, base, work,
                   allReady, bounds>>

\* Update carries the resourceVersion it read, so it fails on any change in
\* between.
AddFinalizer ==
    /\ pc = "addFin"
    /\ \E out \in {"ok", "undone", "lost"} :
          /\ Spend(out)
          /\ IF rvOK /\ out # "undone"
             THEN cr' = [cr EXCEPT !.fin = TRUE] /\ crEvent' = TRUE
             ELSE UNCHANGED <<cr, crEvent>>
    /\ Done(TRUE)
    /\ UNCHANGED <<status, seenVars, kubeVars, queued, edits, lives, crashes>>

\* meta.SetStatusCondition on the status the worker edits.
SetCondition(c, reason) ==
    [work EXCEPT !.conds[c] = [reason |-> reason, gen |-> my.gen]]

\* What a step of a component leaves alone.
ComponentFrame ==
    UNCHANGED <<crVars, seenVars, cache, pgdb, orphaned, my, base, rvOK, timer,
                edits, lives, crashes>>

\* Mutant: a tenant whose parent is missing gives up its finalizer.
ResolveParentOrRelease ==
    /\ pc = "parent"
    /\ pc' = IF View(SUPABASE) = "present" THEN "ns" ELSE "finAbandon"
    /\ UNCHANGED <<work, api, at, allReady, queued, faults>>
    /\ ComponentFrame

ResolveParent ==
    /\ pc = "parent"
    /\ \E out \in {"ok", "unread"} :
          /\ Spend(out)
          /\ IF out = "ok" /\ View(SUPABASE) = "present"
             THEN pc' = "ns" /\ UNCHANGED work
             ELSE /\ work' = [SetCondition(ReadyCond, "Error")
                                 EXCEPT !.phase = "Error"]
                  /\ pc' = "patch"
    /\ UNCHANGED <<api, at, allReady, queued>>
    /\ ComponentFrame

-----------------------------------------------------------------------------
(* The prerequisites: Namespace, Secret, Database. *)

\* A prerequisite that failed or is not ready ends the pass.
StopProvisioning(c, reason) ==
    /\ work' = [SetCondition(c, reason)
                   EXCEPT !.phase = "Provisioning", !.obs = my.gen]
    /\ pc' = "patch"

\* Get object k and create it when it was not found.
CreateIfMissing(k, built, next, c) ==
    /\ \E out \in Outcomes :
          /\ out \in {"undone", "lost"} => View(k) = "absent"
          /\ Spend(out)
          /\ LET creates == /\ View(k) = "absent" /\ Creatable(k, built.home)
                            /\ out \in {"ok", "lost"}
             IN  /\ IF creates THEN Write([api EXCEPT ![k] = built.first])
                               ELSE UNCHANGED <<api, queued>>
                 /\ IF out = "ok" /\ (View(k) # "absent" \/ creates)
                    THEN pc' = next /\ UNCHANGED work
                    ELSE StopProvisioning(c, "Error")
    /\ UNCHANGED <<at, allReady>>
    /\ ComponentFrame

\* The end of a prerequisite: its Healthcheck.
CheckHealth(healthy, next, c) ==
    /\ \E out \in {"ok", "unread"} :
          /\ Spend(out)
          /\ IF out = "ok" /\ healthy
             THEN pc' = next /\ work' = SetCondition(c, "Ready")
             ELSE StopProvisioning(c, IF out = "ok" THEN "NotReady"
                                                    ELSE "Error")
    /\ UNCHANGED <<api, at, allReady, queued>>
    /\ ComponentFrame

NamespaceReconcile ==
    \/ pc = "ns" /\ CreateIfMissing(NS, buildNamespace, "np", NamespaceReady)
    \/ pc = "np" /\ CreateIfMissing(NP, buildNetworkPolicy, "nsHealth",
                                    NamespaceReady)

NamespaceHealthcheck ==
    /\ pc = "nsHealth"
    /\ CheckHealth(View(NS) = "active", "jwt", NamespaceReady)

SecretReconcile ==
    \/ pc = "jwt" /\ CreateIfMissing(JWT, buildJWTSecret, "dbc", SecretsReady)
    \/ pc = "dbc" /\ CreateIfMissing(DBC, buildDBCredentialsSecret,
                                     "secretHealth", SecretsReady)

SecretHealthcheck ==
    /\ pc = "secretHealth"
    /\ CheckHealth(View(JWT) # "absent" /\ View(DBC) # "absent",
                   "database", SecretsReady)

DatabaseReconcile ==
    \/ pc = "database" /\ CreateIfMissing(DATABASE, buildCNPGDatabase, "job",
                                          DatabaseReady)
    \/ pc = "job" /\ CreateIfMissing(JOB, buildInitJob, "dbHealth",
                                     DatabaseReady)

\* Mutant: the gate forgets the init Job.
DatabaseExists == View(DATABASE) \notin {"absent", "refused"}

\* Applied = nil passes: only a Database that was refused holds the gate.
DatabaseHealthy ==
    /\ View(DATABASE) \notin {"absent", "refused"}
    /\ View(JOB) = "succeeded"

DatabaseHealthcheck ==
    /\ pc = "dbHealth"
    /\ CheckHealth(DatabaseHealthy, "deploy", DatabaseReady)

-----------------------------------------------------------------------------
(* The service components, one after the other, and routing. *)

\* Mutant: off by one in the loop over the components.
EndServiceOnceMore(reason) ==
    /\ work' = SetCondition(ServiceReady(at), reason)
    /\ allReady' = (allReady /\ reason = "Ready")
    /\ IF at <= NumServices THEN pc' = "deploy" /\ at' = at + 1
                            ELSE pc' = "route" /\ at' = at

\* Mutant: an error of a component is logged and forgotten.
EndServiceForgetting(reason) ==
    /\ work' = SetCondition(ServiceReady(at), "Ready")
    /\ UNCHANGED allReady
    /\ IF at < NumServices THEN pc' = "deploy" /\ at' = at + 1
                           ELSE pc' = "route" /\ at' = at

\* The condition is set and the pass goes on with the next component.
EndService(reason) ==
    /\ work' = SetCondition(ServiceReady(at), reason)
    /\ allReady' = (allReady /\ reason = "Ready")
    /\ IF at < NumServices THEN pc' = "deploy" /\ at' = at + 1
                           ELSE pc' = "route" /\ at' = at

\* The merge patch scales the Deployment when the cached one has replicas; a
\* Deployment that was not found, or could not be read, is passed over.
ScaleToZero ==
    /\ pc = "deploy" /\ my.susp
    /\ \E out \in Outcomes :
          LET seen == View(Deploy(at))
              sent == seen # "absent" /\ out \notin {"unread", "undone"}
              hit  == sent /\ api[Deploy(at)] # "absent"
          IN  /\ out \in {"undone", "lost"} => seen # "absent"
              /\ Spend(out)
              /\ IF hit /\ seen # "zero"
                 THEN Write([api EXCEPT ![Deploy(at)] = "zero"])
                 ELSE UNCHANGED <<api, queued>>
              /\ IF \/ out = "unread" \/ seen = "absent"
                    \/ out = "ok" /\ hit
                 THEN pc' = "svcHealth" /\ UNCHANGED <<at, work, allReady>>
                 ELSE EndService("Error")
    /\ ComponentFrame

\* Mutant: an existing Deployment is left as it is.
CreateDeploymentOnly ==
    /\ pc = "deploy" /\ ~my.susp
    /\ LET creates == /\ View(Deploy(at)) = "absent"
                      /\ Creatable(Deploy(at), BuildDeployment.home)
       IN  IF creates
           THEN Write([api EXCEPT ![Deploy(at)] = BuildDeployment.first])
           ELSE UNCHANGED <<api, queued>>
    /\ pc' = "svc" /\ UNCHANGED <<at, work, allReady, faults>>
    /\ ComponentFrame

\* Create the Deployment, or patch it: the patch holds spec.replicas only
\* when the cached object's differ from the ones wanted.
ReconcileDeployment ==
    /\ pc = "deploy" /\ ~my.susp
    /\ \E out \in Outcomes :
          LET k == Deploy(at)
              seen == View(k)
              creates == /\ seen = "absent"
                         /\ Creatable(k, BuildDeployment.home)
              patches == seen # "absent" /\ api[k] # "absent"
              scales  == patches /\ seen = "zero" /\ api[k] = "zero"
          IN  /\ Spend(out)
              /\ IF out \in {"ok", "lost"} /\ (creates \/ scales)
                 THEN Write([api EXCEPT ![k] = BuildDeployment.first])
                 ELSE UNCHANGED <<api, queued>>
              /\ IF out = "ok" /\ (creates \/ patches)
                 THEN pc' = "svc" /\ UNCHANGED <<at, work, allReady>>
                 ELSE EndService("Error")
    /\ ComponentFrame

ReconcileService ==
    /\ pc = "svc"
    /\ \E out \in Outcomes :
          LET k == Svc(at)
              creates == View(k) = "absent" /\ Creatable(k, BuildService.home)
              patches == View(k) # "absent" /\ api[k] # "absent"
          IN  /\ Spend(out)
              /\ IF out \in {"ok", "lost"} /\ creates
                 THEN Write([api EXCEPT ![k] = BuildService.first])
                 ELSE UNCHANGED <<api, queued>>
              /\ IF out = "ok" /\ (creates \/ patches)
                 THEN pc' = "svcHealth" /\ UNCHANGED <<at, work, allReady>>
                 ELSE EndService("Error")
    /\ ComponentFrame

ServiceHealthcheck ==
    /\ pc = "svcHealth"
    /\ \E out \in {"ok", "unread"} :
          /\ out = "unread" => ~my.susp
          /\ Spend(out)
          /\ EndService(CASE out = "unread" -> "Error"
                          [] out = "ok" /\ (my.susp \/ View(Deploy(at)) = "ready")
                               -> "Ready"
                          [] OTHER -> "NotReady")
    /\ UNCHANGED <<api, queued>>
    /\ ComponentFrame

\* The phase and the other status fields at the end of a full pass.
DerivePhase(routingReady) ==
    CASE my.susp -> "Suspended"
      [] ~my.susp /\ allReady /\ routingReady -> "Ready"
      [] OTHER -> "Provisioning"

\* Mutant: an error of the routing component is logged and forgotten.
EndRoutingForgetting(reason) ==
    /\ work' = [SetCondition(RoutingReady, "Ready") EXCEPT
                  !.phase = DerivePhase(TRUE),
                  !.endpoint = TRUE, !.obs = my.gen]
    /\ pc' = "patch"

EndRouting(reason) ==
    /\ work' = [SetCondition(RoutingReady, reason) EXCEPT
                  !.phase = DerivePhase(reason = "Ready"),
                  !.endpoint = TRUE, !.obs = my.gen]
    /\ pc' = "patch"

RoutingReconcile ==
    /\ pc = "route" /\ ~my.susp
    /\ \E out \in Outcomes :
          LET creates == View(ROUTE) = "absent"
                            /\ Creatable(ROUTE, buildHTTPRoute.home)
              patches == View(ROUTE) # "absent" /\ api[ROUTE] # "absent"
          IN  /\ Spend(out)
              /\ IF out \in {"ok", "lost"} /\ creates
                 THEN Write([api EXCEPT ![ROUTE] = buildHTTPRoute.first])
                 ELSE UNCHANGED <<api, queued>>
              /\ IF out = "ok" /\ (creates \/ patches)
                 THEN pc' = "routeHealth" /\ UNCHANGED work
                 ELSE EndRouting("Error")
    /\ UNCHANGED <<at, allReady>>
    /\ ComponentFrame

\* Mutant: the route is looked up and not deleted.
findHTTPRoute(out) ==
    /\ out \in {"undone", "lost"} => View(ROUTE) # "absent"
    /\ Spend(out)
    /\ UNCHANGED <<api, queued>>

\* deleteHTTPRoute, shared by a suspended tenant and by finalization.  A
\* Delete of what is gone already is an error.
deleteHTTPRoute(out) ==
    /\ out \in {"undone", "lost"} => View(ROUTE) # "absent"
    /\ Spend(out)
    /\ IF View(ROUTE) # "absent" /\ out \in {"ok", "lost"}
       THEN Write([api EXCEPT ![ROUTE] = "absent"])
       ELSE UNCHANGED <<api, queued>>

RouteDeleted(out) ==
    out = "ok" /\ (View(ROUTE) = "absent" \/ api[ROUTE] # "absent")

RemoveRoute ==
    /\ pc = "route" /\ my.susp
    /\ \E out \in Outcomes :
          /\ deleteHTTPRoute(out)
          /\ IF RouteDeleted(out) THEN pc' = "routeHealth" /\ UNCHANGED work
                                  ELSE EndRouting("Error")
    /\ UNCHANGED <<at, allReady>>
    /\ ComponentFrame

RoutingHealthcheck ==
    /\ pc = "routeHealth"
    /\ \E out \in {"ok", "unread"} :
          /\ out = "unread" => ~my.susp
          /\ Spend(out)
          /\ EndRouting(CASE out = "unread" -> "Error"
                          [] out = "ok" /\ (my.susp \/ View(ROUTE) # "absent")
                               -> "Ready"
                          [] OTHER -> "NotReady")
    /\ UNCHANGED <<api, queued, at, allReady>>
    /\ ComponentFrame

-----------------------------------------------------------------------------
(* The status patch. *)

\* Mutant: the status is sent as a whole.
Replaced(server, from, to, sendConds) == to

\* A merge patch computed from base: it carries the fields that differ from
\* base, and the list of conditions as a whole.  A message that changed sends
\* the list although no condition did (sendConds).
Merged(server, from, to, sendConds) ==
    [phase    |-> IF to.phase # from.phase THEN to.phase ELSE server.phase,
     conds    |-> IF sendConds \/ to.conds # from.conds
                  THEN to.conds ELSE server.conds,
     obs      |-> IF to.obs # from.obs THEN to.obs ELSE server.obs,
     endpoint |-> IF to.endpoint # from.endpoint
                  THEN to.endpoint ELSE server.endpoint]

\* The server applies a status patch to whatever object has the name.  A new
\* message makes a new version of the object too.
ApplyPatch(new, newMessages) ==
    /\ status' = new
    /\ crEvent' = (crEvent \/ new # status \/ newMessages)

\* The patch of the error path, of an unfinished pass and of a full pass: the
\* first two ignore its error, the last returns it; all three come back.
PatchStatus ==
    /\ pc = "patch"
    /\ \E out \in {"ok", "undone", "lost"}, sendConds \in BOOLEAN :
          /\ Spend(out)
          /\ IF cr.present /\ out # "undone"
             THEN ApplyPatch(Merged(status, base, work, sendConds), sendConds)
             ELSE UNCHANGED <<status, crEvent>>
    /\ Done(TRUE)
    /\ UNCHANGED <<cr, seenVars, kubeVars, queued, edits, lives, crashes>>

-----------------------------------------------------------------------------
(* finalize *)

\* Mutant: tenantCR is taken for refreshed although the patch failed.
MarkDeletingOptimistic ==
    /\ pc = "finPatch"
    /\ IF cr.present
       THEN ApplyPatch(Merged(status, base,
                              [base EXCEPT !.phase = "Deleting"], FALSE), FALSE)
       ELSE UNCHANGED <<status, crEvent>>
    /\ rvOK' = TRUE
    /\ pc' = "finParent"
    /\ base' = NoStatus /\ work' = NoStatus
    /\ UNCHANGED <<cr, my, seenVars, kubeVars, at, allReady, queueVars, bounds>>

\* A patch that succeeds refreshes tenantCR from the server's answer; one
\* that fails is logged.
MarkDeleting ==
    /\ pc = "finPatch"
    /\ \E out \in {"ok", "undone", "lost"} :
          /\ Spend(out)
          /\ IF cr.present /\ out # "undone"
             THEN ApplyPatch(Merged(status, base,
                                    [base EXCEPT !.phase = "Deleting"], FALSE),
                             FALSE)
             ELSE UNCHANGED <<status, crEvent>>
          /\ IF cr.present /\ out = "ok"
             THEN my' = cr /\ rvOK' = TRUE
             ELSE /\ rvOK' = (rvOK /\ status' = status)
                  /\ UNCHANGED my
    /\ pc' = "finParent"
    /\ base' = NoStatus /\ work' = NoStatus
    /\ UNCHANGED <<cr, seenVars, kubeVars, at, allReady, queueVars,
                   edits, lives, crashes>>

\* What a step of finalize leaves alone.
FinalizeFrame ==
    UNCHANGED <<crVars, seenVars, cache, pgdb, orphaned,
                edits, lives, crashes>>

GoOn(next) ==
    /\ pc' = next
    /\ UNCHANGED <<at, my, base, work, rvOK, allReady, timer>>

\* A parent that cannot be read, for whatever reason, skips the cleanup.
FinalizeParent ==
    /\ pc = "finParent"
    /\ \E out \in {"ok", "unread"} :
          /\ Spend(out)
          /\ GoOn(IF out = "ok" /\ View(SUPABASE) = "present"
                  THEN "finRoute" ELSE "finAbandon")
    /\ UNCHANGED <<api, queued>>
    /\ FinalizeFrame

\* Mutant: finalization goes on when the route could not be deleted.
FinalizeRoutingAnyway ==
    /\ pc = "finRoute"
    /\ \E out \in Outcomes : deleteHTTPRoute(out)
    /\ GoOn("finDatabase")
    /\ FinalizeFrame

FinalizeRouting ==
    /\ pc = "finRoute"
    /\ \E out \in Outcomes :
          /\ deleteHTTPRoute(out)
          /\ IF RouteDeleted(out) THEN GoOn("finDatabase") ELSE Done(TRUE)
    /\ FinalizeFrame

\* A Database or a Job that cannot be read is passed over.  CNPG may still
\* hold a deleted Database with its finalizer.
FinalizeDelete(k, left, next) ==
    /\ \E out \in Outcomes :
          LET seen == View(k) # "absent" /\ out # "unread"
              hit  == seen /\ api[k] # "absent"
          IN  /\ out \in {"undone", "lost"} => seen
              /\ Spend(out)
              /\ IF hit /\ out \in {"ok", "lost"}
                 THEN Write([api EXCEPT ![k] = left])
                 ELSE UNCHANGED <<api, queued>>
              /\ IF ~seen \/ (out = "ok" /\ hit) THEN GoOn(next)
                                                ELSE Done(TRUE)
    /\ FinalizeFrame

DatabaseFinalize ==
    \/ /\ pc = "finDatabase"
       /\ \E left \in {"absent", "terminating"} :
             /\ left = "absent" => api[DATABASE] \in {"absent", "pending"}
             /\ FinalizeDelete(DATABASE, left, "finJob")
    \/ pc = "finJob" /\ FinalizeDelete(JOB, "absent", "finNs")

NamespaceFinalize ==
    /\ pc = "finNs"
    /\ \E out \in Outcomes :
          LET seen == View(NS) # "absent"
              hit  == seen /\ api[NS] # "absent"
          IN  /\ out \in {"undone", "lost"} => seen
              /\ Spend(out)
              /\ IF hit /\ out \in {"ok", "lost"}
                 THEN Write([api EXCEPT ![NS] = "terminating"])
                 ELSE UNCHANGED <<api, queued>>
              /\ IF out = "ok" /\ (~seen \/ hit) THEN GoOn("finRemove")
                                                ELSE Done(TRUE)
    /\ FinalizeFrame

\* The object once the operator's finalizer is gone.
WithoutFinalizer(c) ==
    IF c.deleting /\ ~c.hold THEN NoCR ELSE [c EXCEPT !.fin = FALSE]

\* Mutant: the error of the last Update is not returned.
RemoveFinalizerOnce ==
    /\ pc \in {"finRemove", "finAbandon"}
    /\ \E out \in {"ok", "undone", "lost"} :
          /\ Spend(out)
          /\ IF rvOK /\ my.fin /\ out # "undone"
             THEN /\ cr' = WithoutFinalizer(cr)
                  /\ status' = IF cr'.present THEN status ELSE NoStatus
                  /\ crEvent' = TRUE
             ELSE UNCHANGED crVars
          /\ Done(FALSE)
    /\ UNCHANGED <<seenVars, kubeVars, queued, edits, lives, crashes>>

RemoveFinalizer ==
    /\ pc \in {"finRemove", "finAbandon"}
    /\ \E out \in {"ok", "undone", "lost"} :
          /\ Spend(out)
          /\ IF rvOK /\ my.fin /\ out # "undone"
             THEN /\ cr' = WithoutFinalizer(cr)
                  /\ status' = IF cr'.present THEN status ELSE NoStatus
                  /\ crEvent' = TRUE
             ELSE UNCHANGED crVars
          /\ Done(out # "ok" \/ ~rvOK)
    /\ UNCHANGED <<seenVars, kubeVars, queued, edits, lives, crashes>>

-----------------------------------------------------------------------------
(* The workqueue, the informers and restarts. *)

TimerFires ==
    /\ timer
    /\ timer' = FALSE /\ queued' = TRUE
    /\ UNCHANGED <<crVars, seenVars, kubeVars, workerVars, bounds>>

DeliverTenant ==
    /\ crEvent
    /\ crEvent' = FALSE
    /\ seenCR' = cr /\ seenStatus' = status
    /\ queued' = TRUE
    /\ UNCHANGED <<cr, status, kubeVars, workerVars, timer, bounds>>

\* The informer of one kind catches up.  A List that fails in
\* mapByTenantLabel drops the event.
Deliver(kind) ==
    /\ \E k \in Keys : k[1] = kind /\ cache[k] # api[k]
    /\ cache' = [k \in Keys |-> IF k[1] = kind THEN api[k] ELSE cache[k]]
    /\ \E out \in {"ok", "unread"} :
          /\ out = "unread" => kind \in Watched
          /\ Spend(out)
          /\ queued' = (\/ queued
                        \/ kind \in Watched /\ mapByTenantLabel /\ out = "ok")
    /\ UNCHANGED <<crVars, seenVars, api, pgdb, orphaned, workerVars, timer,
                   edits, lives, crashes>>

\* The operator stops between two API calls and starts again: it lists
\* everything, and the list of tenants fills the workqueue.
Restart ==
    /\ crashes < MaxCrashes /\ crashes' = crashes + 1
    /\ pc' = "idle" /\ at' = 1
    /\ my' = NoCR /\ base' = NoStatus /\ work' = NoStatus
    /\ rvOK' = FALSE /\ allReady' = TRUE
    /\ seenCR' = cr /\ seenStatus' = status /\ crEvent' = FALSE
    /\ cache' = [k \in Keys |-> IF k[1] \in Lagging THEN api[k] ELSE cache[k]]
    /\ queued' = cr.present /\ timer' = FALSE
    /\ UNCHANGED <<cr, status, api, pgdb, orphaned, faults, edits, lives>>

-----------------------------------------------------------------------------
(* Users. *)

UserFrame ==
    UNCHANGED <<seenVars, pc, at, my, base, work, allReady, timer,
                cache, pgdb, faults, crashes>>

\* A change of the SupabaseTenant by somebody else outdates the
\* resourceVersion the worker holds.
ChangeTenant(new) ==
    /\ cr' = new
    /\ crEvent' = TRUE /\ rvOK' = FALSE
    /\ UNCHANGED <<api, orphaned, queued>>
    /\ UserFrame

CreateTenant ==
    /\ ~cr.present /\ lives < MaxLives /\ lives' = lives + 1
    /\ \E s \in BOOLEAN :
          ChangeTenant([NoCR EXCEPT !.present = TRUE, !.susp = s, !.gen = 1])
    /\ status' = NoStatus
    /\ UNCHANGED edits

DeleteTenant ==
    /\ cr.present /\ ~cr.deleting
    /\ \E policy \in Policies :
          ChangeTenant(IF cr.fin \/ policy = "foreground"
                       THEN [cr EXCEPT !.deleting = TRUE,
                                       !.hold = (policy = "foreground")]
                       ELSE NoCR)
    /\ status' = IF cr'.present THEN status ELSE NoStatus
    /\ UNCHANGED <<edits, lives>>

ToggleSuspended ==
    /\ cr.present /\ edits < MaxEdits /\ edits' = edits + 1
    /\ ChangeTenant([cr EXCEPT !.susp = ~cr.susp, !.gen = cr.gen + 1])
    /\ UNCHANGED <<status, lives>>

ChangeParent ==
    /\ edits < MaxEdits /\ edits' = edits + 1
    /\ \/ api[SUPABASE] = "absent"
          /\ Write([api EXCEPT ![SUPABASE] = "present"])
          /\ UNCHANGED orphaned
       \/ api[SUPABASE] = "present" /\ ParentGoes
          /\ Write([api EXCEPT ![SUPABASE] = "absent"])
          /\ orphaned' = TRUE
    /\ UNCHANGED <<crVars, rvOK, lives>>
    /\ UserFrame

-----------------------------------------------------------------------------
(* The cluster: garbage collection, CNPG, Jobs, Deployments, namespaces. *)

\* The garbage collector drops the finalizer of a foreground deletion.
ReleaseForeground ==
    /\ cr.present /\ cr.hold
    /\ ChangeTenant(IF cr.fin THEN [cr EXCEPT !.hold = FALSE] ELSE NoCR)
    /\ status' = IF cr'.present THEN status ELSE NoStatus
    /\ UNCHANGED <<edits, lives>>

ClusterFrame ==
    UNCHANGED <<crVars, seenVars, cache, workerVars, timer,
                edits, lives, crashes>>

\* The garbage collector deletes the Cluster of a Supabase that is gone, by
\* its controller reference, also when another Supabase has the name since.
\* CNPG may take back what it said of the Database.
ClusterIsCollected ==
    /\ orphaned /\ orphaned' = FALSE
    /\ pgdb' = IF pgdb = "exists" THEN "lost" ELSE pgdb
    /\ \/ UNCHANGED <<api, queued>>
       \/ /\ api[DATABASE] = "applied"
          /\ Write([api EXCEPT ![DATABASE] = "refused"])
    /\ UNCHANGED faults /\ ClusterFrame

\* CNPG creates the database in the Cluster that is there.
DatabaseIsApplied ==
    /\ api[DATABASE] \in {"pending", "refused"}
    /\ api[SUPABASE] = "present" \/ orphaned
    /\ Write([api EXCEPT ![DATABASE] = "applied"])
    /\ pgdb' = "exists"
    /\ UNCHANGED <<orphaned, faults>> /\ ClusterFrame

DatabaseIsRefused ==
    /\ api[DATABASE] = "pending" /\ Spend("unhealthy")
    /\ Write([api EXCEPT ![DATABASE] = "refused"])
    /\ UNCHANGED <<pgdb, orphaned>> /\ ClusterFrame

DatabaseIsGone ==
    /\ api[DATABASE] = "terminating"
    /\ Write([api EXCEPT ![DATABASE] = "absent"])
    /\ UNCHANGED <<pgdb, orphaned, faults>> /\ ClusterFrame

\* psql can connect only to a database that exists.  Its retries are few.
JobEnds ==
    /\ api[JOB] = "pending"
    /\ \/ pgdb = "exists" /\ Write([api EXCEPT ![JOB] = "succeeded"])
       \/ /\ pgdb # "exists" /\ JobsExhaust
          /\ Write([api EXCEPT ![JOB] = "failed"])
    /\ UNCHANGED <<pgdb, orphaned, faults>> /\ ClusterFrame

PodsAreReady(i) ==
    /\ api[Deploy(i)] = "pending" /\ api[NS] = "active"
    /\ Write([api EXCEPT ![Deploy(i)] = "ready"])
    /\ UNCHANGED <<pgdb, orphaned, faults>> /\ ClusterFrame

PodsFail(i) ==
    /\ api[Deploy(i)] = "ready" /\ Spend("unhealthy")
    /\ Write([api EXCEPT ![Deploy(i)] = "pending"])
    /\ UNCHANGED <<pgdb, orphaned>> /\ ClusterFrame

NamespaceIsGone ==
    /\ api[NS] = "terminating"
    /\ Write([k \in Keys |-> IF k[1] \in NamespacedKinds \cup {"ns"}
                             THEN "absent" ELSE api[k]])
    /\ UNCHANGED <<pgdb, orphaned, faults>> /\ ClusterFrame

-----------------------------------------------------------------------------
\* The steps of a reconcile that has started.
WorkerStep ==
    \/ AddFinalizer
    \/ ResolveParent
    \/ NamespaceReconcile
    \/ NamespaceHealthcheck
    \/ SecretReconcile
    \/ SecretHealthcheck
    \/ DatabaseReconcile
    \/ DatabaseHealthcheck
    \/ ScaleToZero
    \/ ReconcileDeployment
    \/ ReconcileService
    \/ ServiceHealthcheck
    \/ RoutingReconcile
    \/ RemoveRoute
    \/ RoutingHealthcheck
    \/ PatchStatus
    \/ MarkDeleting
    \/ FinalizeParent
    \/ FinalizeRouting
    \/ DatabaseFinalize
    \/ NamespaceFinalize
    \/ RemoveFinalizer

User ==
    \/ CreateTenant
    \/ DeleteTenant
    \/ ToggleSuspended
    \/ ChangeParent

Cluster ==
    \/ ReleaseForeground
    \/ ClusterIsCollected
    \/ DatabaseIsApplied
    \/ DatabaseIsRefused
    \/ DatabaseIsGone
    \/ JobEnds
    \/ \E i \in Services : PodsAreReady(i) \/ PodsFail(i)
    \/ NamespaceIsGone

Next ==
    \/ StartReconcile
    \/ WorkerStep
    \/ TimerFires
    \/ DeliverTenant
    \/ \E kind \in Lagging : Deliver(kind)
    \/ Restart
    \/ User
    \/ Cluster

Spec == Init /\ [][Next]_vars

\* Workers and informers never stop, delays end, and the other controllers
\* of the cluster do what they are asked to.
Fairness ==
    /\ WF_vars(StartReconcile) /\ WF_vars(WorkerStep)
    /\ WF_vars(TimerFires) /\ WF_vars(DeliverTenant)
    /\ \A kind \in Lagging : WF_vars(Deliver(kind))
    /\ WF_vars(ReleaseForeground)
    /\ WF_vars(DatabaseIsApplied) /\ WF_vars(DatabaseIsGone)
    /\ WF_vars(JobEnds) /\ WF_vars(NamespaceIsGone)
    /\ \A i \in Services : WF_vars(PodsAreReady(i))

FairSpec == Spec /\ Fairness
-----------------------------------------------------------------------------
(* Properties. *)

\* Every variable keeps its type.
TypeOK ==
    /\ cr \in CRs /\ seenCR \in CRs /\ my \in CRs
    /\ status \in Statuses /\ seenStatus \in Statuses
    /\ base \in Statuses /\ work \in Statuses
    /\ api \in [Keys -> ObjStates] /\ cache \in [Keys -> ObjStates]
    /\ pc \in Pcs /\ at \in Services
    /\ pgdb \in Databases
    /\ {crEvent, orphaned, rvOK, allReady, queued, timer} \subseteq BOOLEAN
    /\ faults \in Nat /\ edits \in Nat /\ lives \in Nat /\ crashes \in Nat

\* A SupabaseTenant that still needs the operator (it is live, or it carries
\* the operator's finalizer) always has a wakeup coming: Namespaces, Secrets,
\* Jobs and the parent are not watched, so every return of Reconcile that
\* leaves work behind must requeue, whatever failed and however old the
\* tenant it read.
NeverAbandoned ==
    cr.present /\ (~cr.deleting \/ cr.fin)
        => queued \/ timer \/ crEvent \/ pc # "idle"

\* Nothing is created for a tenant unless its SupabaseTenant exists and holds
\* the finalizer that will clean it up, although the tenant the worker read
\* may be old, deleted or recreated since.
CreatesUnderFinalizer ==
    [][\A k \in Keys \ {SUPABASE} :
          api[k] = "absent" /\ api'[k] # "absent"
              => cr.present /\ cr.fin]_vars

\* The operator never takes its finalizer off a SupabaseTenant that is not
\* being deleted, not even when finalize, started for a deleted tenant, has
\* its status patch answered with a recreated tenant of the same name.
FinalizerOutlivesDeletion ==
    [][cr.fin /\ ~cr'.fin => cr.deleting]_vars

Belongings == {ROUTE, DATABASE, JOB, NS}
Gone(s) == s \in {"absent", "terminating"}
Cleaned == \A k \in Belongings : Gone(api[k])

\* No workload exists before the tenant's database does: services are gated
\* on an init Job that succeeded, and that the cached Job may be old.  It says
\* nothing of a database that is lost later, with the Cluster of its parent.
ServicesNeedDatabase ==
    DatabaseExisted \/ \A i \in Services : api[Deploy(i)] = "absent"

Reported(phase) ==
    /\ cr.present /\ ~cr.deleting /\ cr.susp = (phase = "Suspended")
    /\ status.phase = phase /\ status.obs = cr.gen
    /\ \A c \in ComponentConds : status.conds[c].reason = "Ready"

\* Every component has its condition True, with the current ObservedGeneration.
AllReadyNow(s) ==
    \A c \in ComponentConds : s.conds[c] = [reason |-> "Ready", gen |-> cr.gen]

\* As long as the SupabaseTenant lives, its ObservedGeneration never goes back
\* and never runs ahead of its spec, although a status patch may be computed
\* from an old tenant, come after a newer one, or hit a recreated tenant.
GenerationNeverGoesBack ==
    [][cr.present /\ cr'.present =>
          status.obs <= status'.obs /\ status'.obs <= cr'.gen]_vars

Wanted(suspended) ==
    /\ cr.present /\ ~cr.deleting /\ cr.susp = suspended
    /\ api[SUPABASE] = "present"

\* A tenant that users leave alone, live and with its parent, ends up Ready
\* for good, with every condition True, its endpoint published and its pods
\* ready, whatever failed on the way, except for an init Job that ran out of
\* its three retries: nothing replaces it.
TenantConverges ==
    <>[](Wanted(FALSE) /\ api[JOB] # "failed") =>
        <>[](/\ Reported("Ready") /\ status.endpoint
             /\ \A i \in Services : api[Deploy(i)] = "ready")

\* A tenant that users leave suspended ends up scaled down, without a route,
\* and reported as Suspended.
SuspensionConverges ==
    <>[]Wanted(TRUE) =>
        <>[](/\ Reported("Suspended")
             /\ \A i \in Services : api[Deploy(i)] \in {"absent", "zero"}
             /\ api[ROUTE] = "absent")

\* A deleted SupabaseTenant disappears: no failure, conflict or restart leaves
\* the finalizer on it forever.
DeletionCompletes == cr.deleting ~> ~cr.deleting

-----------------------------------------------------------------------------
(* What makes NeverAbandoned, CreatesUnderFinalizer and                    *)
(* FinalizerOutlivesDeletion inductive: how the tenant on the server, the  *)
(* one in the cache and the one the worker holds can differ.               *)

\* The cache is current unless an event is on its way, and so is the tenant
\* the worker holds when its resourceVersion is.
CopiesAreCurrent ==
    /\ ~crEvent => seenCR = cr
    /\ rvOK => my = cr

\* The operator's finalizer goes on a live tenant of which the cache has the
\* newest version, or the Update conflicts.
FinalizerGoesOnLive ==
    /\ cr.fin => cr.present
    /\ pc = "addFin" => my.present /\ ~my.deleting
    /\ pc = "addFin" /\ rvOK => seenCR = cr

Owned(c) == c.present /\ c.fin /\ ~c.deleting

\* A cached tenant may be of an earlier life, but one that is live with the
\* finalizer still has it, and one that is being deleted is not the live one
\* that has it: only the worker moves the finalizer, one pass at a time.
CacheKnowsFinalizer ==
    /\ Owned(seenCR) => cr.fin
    /\ seenCR.deleting /\ cr.fin => cr.deleting

\* A pass provisions a tenant that has the finalizer, and finalizes one that
\* is being deleted or has no finalizer to lose; the latter was created since
\* and a wakeup for it is pending.
PassesAreJustified ==
    /\ pc \in ReconcilePcs => cr.fin
    /\ pc \in FinalizePcs =>
          /\ cr.fin => cr.deleting
          /\ ~Owned(seenCR)
          /\ cr.present /\ (~cr.deleting \/ ~cr.fin) => queued \/ crEvent

\* The inductive invariant: a stale copy is never trusted with the finalizer.
FinalizerInv ==
    /\ CopiesAreCurrent
    /\ FinalizerGoesOnLive
    /\ CacheKnowsFinalizer
    /\ PassesAreJustified
    /\ NeverAbandoned

-----------------------------------------------------------------------------
(* What makes ServicesNeedDatabase inductive.                              *)

\* A Job that has succeeded, in a cache too, is the word of a database that
\* has existed: the gate holds whatever is old.
DatabaseGate ==
    /\ api[JOB] = "succeeded" \/ cache[JOB] = "succeeded" => DatabaseExisted
    /\ pc \in {"deploy", "svc", "svcHealth", "route", "routeHealth"}
           => DatabaseExisted
    /\ ServicesNeedDatabase

-----------------------------------------------------------------------------
(* What makes GenerationNeverGoesBack inductive.                           *)

\* A pass that will end in a status patch.
InPass == pc \in ReconcilePcs \cup {"patch"}

\* c is of the life of the tenant on the server, and not older than what the
\* status on the server claims.
Follows(c) ==
    /\ status.obs <= c.gen /\ c.gen <= cr.gen
    /\ c.gen = cr.gen => c.susp = cr.susp

\* The conditions are not newer than the generation a status claims.
CondsFollow(s) == \A c \in ComponentConds : s.conds[c].gen <= s.obs

\* Passes and statuses go by generation: nothing takes the tenant back to what
\* an older generation asked for once the status claims a newer one, and a
\* pass is the only writer of the status of a tenant with the finalizer.
GenerationInv ==
    /\ cr.present => status.obs <= cr.gen /\ 0 < cr.gen
    /\ cr.present /\ ~cr.deleting /\ ~cr.fin => status.obs = 0
    /\ Owned(seenCR) => Follows(seenCR) /\ seenStatus.obs <= status.obs
    /\ InPass => /\ cr.fin /\ Follows(my)
                 /\ Owned(seenCR) => my.gen <= seenCR.gen
                 /\ base.obs <= status.obs /\ seenStatus \in {base, status}
                 /\ \A c \in ComponentConds : work.conds[c].gen <= my.gen
    /\ CondsFollow(status) /\ CondsFollow(seenStatus) /\ CondsFollow(base)

\* A pass claims the generation it is about, or leaves the generation and the
\* conditions of the components as it found them.
EditsInv ==
    /\ pc = "parent" => work = base
    /\ pc = "patch" =>
          \/ work.phase # "Error" /\ work.obs = my.gen
          \/ /\ work.phase = "Error" /\ work.obs = base.obs
             /\ \A c \in ComponentConds : work.conds[c] = base.conds[c]
=============================================================================
