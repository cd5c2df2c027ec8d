---------------------------- MODULE TenantFleet ----------------------------
(***************************************************************************)
(* Several SupabaseTenants on one platform, and what they share.           *)
(*                                                                         *)
(*  - Everything a tenant has is named after its spec.tenantId, which      *)
(*    nothing keeps unique: namesakes share every object.                  *)
(*  - The init Job of each tenant writes the password of roles that belong *)
(*    to the whole Postgres cluster.                                       *)
(*  - The gauges of the operator are set by whoever ends a full pass.      *)
(*                                                                         *)
(* The workers of different tenants run concurrently (five of them,        *)
(* MaxConcurrentReconciles; a key that finds none only waits).             *)
(*                                                                         *)
(* Simplifications.  TenantReconciler has the detail of a single tenant,   *)
(* which is left out here: failing calls, conditions, the parent, old      *)
(* reads of objects, what it takes a Database or a namespace to come and   *)
(* go.  A step is a write with the reads before it.  A pass starts when    *)
(* the cache has the newest version of its tenant.  A key that waits for   *)
(* RequeueAfter is queued: a worker may take any time to pick it up.  One  *)
(* service stands for the five, and the credentials are one secret.        *)
(***************************************************************************)
EXTENDS Integers, FiniteSets

CONSTANTS
    Tenants,        \* names of SupabaseTenants
    Ids,            \* the values of spec.tenantId
    Passwords,      \* what GeneratePassword may return; bound: as many as
    NoPassword,     \* can be in use at a time
    MaxLives,       \* bound: creations of SupabaseTenants
    MaxChanges      \* bound: deletions, edits, lost secrets and restarts

ASSUME FleetAssumption ==
    IsFiniteSet(Tenants) /\ Ids # {} /\ NoPassword \notin Passwords
ASSUME FleetBoundsAssumption == MaxLives \in Nat /\ MaxChanges \in Nat

-----------------------------------------------------------------------------
(* Tenants, their objects and a pass over them. *)

TenantPhases == {"", "Provisioning", "Ready", "Suspended", "Deleting"}

\* A "new" tenant is without the operator's finalizer, a "live" one has it.
TenantStates == [life : {"none", "new", "live", "deleting"},
                 id : Ids, susp : BOOLEAN, phase : TenantPhases]

NoTenant == [life |-> "none", id |-> CHOOSE i \in Ids : TRUE,
             susp |-> FALSE, phase |-> ""]

MaybePassword == Passwords \cup {NoPassword}

\* The init Job, with the password in its command.
Jobs  == [state : {"absent", "running", "succeeded"}, pass : MaybePassword]
NoJob == [state |-> "absent", pass |-> NoPassword]

\* A Deployment, with the password in its pod template, which the secret-hash
\* annotation changes along with, and the one in the pods that are up.
Deployments  == [state : {"absent", "pending", "ready", "zero"},
                 pass : MaybePassword, runs : MaybePassword]
NoDeployment == [state |-> "absent", pass |-> NoPassword, runs |-> NoPassword]

Counts   == [total : Nat, ready : Nat, suspended : Nat]
NoCounts == [total |-> 0, ready |-> 0, suspended |-> 0]

\* spec.suspended as the pass read it, DatabasePassword of its TenantContext,
\* whether a service had an error, and what it counted.
Passes == [susp : BOOLEAN, pass : MaybePassword, err : BOOLEAN,
           counts : Counts]
NewPass(susp) == [susp |-> susp, pass |-> NoPassword, err |-> FALSE,
                  counts |-> NoCounts]

VARIABLES
    tenant,    \* the SupabaseTenants on the API server
    seen,      \* the same in the operator's cache
    ns,        \* the tenant IDs whose namespace exists
    secret,    \* by tenant ID: the password in the credentials secret
    job,       \* by tenant ID: the init Job
    deploy,    \* by tenant ID: the Deployment
    route,     \* the tenant IDs whose HTTPRoute exists
    roles,     \* the password of the cluster's roles
    pc, pass,  \* the worker of each tenant
    gauges,    \* tenants_total, tenants_ready, tenants_suspended
    queued,    \* the keys in the workqueue, delayed ones included
    lives, changes   \* what has been spent of the bounds

objects    == <<ns, secret, job, deploy, route>>
workerVars == <<pc, pass, queued>>
bounds     == <<lives, changes>>
vars == <<tenant, seen, objects, roles, workerVars, gauges, bounds>>

Pcs == {"idle", "secret", "job", "deploy", "route", "list", "set",
        "finJob", "finNs", "finRemove"}

Init ==
    /\ tenant = [t \in Tenants |-> NoTenant] /\ seen = tenant
    /\ ns = {} /\ route = {}
    /\ secret = [i \in Ids |-> NoPassword]
    /\ job = [i \in Ids |-> NoJob]
    /\ deploy = [i \in Ids |-> NoDeployment]
    /\ roles = NoPassword
    /\ pc = [t \in Tenants |-> "idle"]
    /\ pass = [t \in Tenants |-> NewPass(FALSE)]
    /\ queued = {}
    /\ gauges = NoCounts
    /\ lives = 0 /\ changes = 0

-----------------------------------------------------------------------------
(* Passwords and wakeups. *)

\* A random password differs from all that are still in use.
InUse == {roles} \cup {secret[i] : i \in Ids} \cup {job[i].pass : i \in Ids}
            \cup {deploy[i].pass : i \in Ids} \cup {deploy[i].runs : i \in Ids}
            \cup {pass[t].pass : t \in Tenants}

GeneratePassword == CHOOSE p \in Passwords : p \notin InUse

\* mapByTenantLabel: the cache lists tenants in any order, and the first one
\* with the ID of the object is woken, never its namesakes.
Labelled(i) == {t \in Tenants : seen[t].life # "none" /\ seen[t].id = i}

\* The keys that can be in the workqueue once a watched object with this ID
\* has changed.
Woken(keys, i) == IF Labelled(i) = {} THEN {keys}
                  ELSE {keys \cup {t} : t \in Labelled(i)}

-----------------------------------------------------------------------------
(* The course of a pass. *)

Id(t) == tenant[t].id

SetPhase(t, phase) == tenant' = [tenant EXCEPT ![t].phase = phase]

Goto(t, next) == pc' = [pc EXCEPT ![t] = next]

\* The end of Reconcile; again is TRUE for RequeueAfter and Requeue.
Return(t, again) ==
    /\ Goto(t, "idle")
    /\ pass' = [pass EXCEPT ![t] = NewPass(FALSE)]
    /\ queued' = IF again THEN queued \cup {t} ELSE queued

\* A prerequisite that fails or is not ready ends the pass.
StopProvisioning(t) == SetPhase(t, "Provisioning") /\ Return(t, TRUE)

GoOn(t, next) == Goto(t, next) /\ UNCHANGED <<tenant, queued>>

\* What a step of a component leaves alone.
ComponentFrame == UNCHANGED <<seen, roles, gauges, bounds>>

-----------------------------------------------------------------------------
(* Reconcile: the tenant, its finalizer and the prerequisites. *)

Starts(t, life) ==
    /\ pc[t] = "idle" /\ t \in queued
    /\ seen[t] = tenant[t] /\ tenant[t].life = life

IgnoreMissing(t) ==
    /\ Starts(t, "none")
    /\ queued' = queued \ {t}
    /\ UNCHANGED <<tenant, seen, objects, roles, pc, pass, gauges, bounds>>

\* The pass ends with Requeue.
AddFinalizer(t) ==
    /\ Starts(t, "new")
    /\ tenant' = [tenant EXCEPT ![t].life = "live"]
    /\ UNCHANGED <<seen, objects, roles, workerVars, gauges, bounds>>

\* Mutant: the pass does not wait for the finalizer.
NamespaceBeforeFinalizer(t) ==
    /\ pc[t] = "idle" /\ t \in queued /\ seen[t] = tenant[t]
    /\ tenant[t].life \in {"new", "live"}
    /\ pass' = [pass EXCEPT ![t] = NewPass(tenant[t].susp)]
    /\ ns' = ns \cup {Id(t)}
    /\ Goto(t, "secret") /\ queued' = queued \ {t}
    /\ UNCHANGED <<tenant, secret, job, deploy, route>>
    /\ ComponentFrame

NamespaceReconcile(t) ==
    /\ Starts(t, "live")
    /\ pass' = [pass EXCEPT ![t] = NewPass(tenant[t].susp)]
    /\ ns' = ns \cup {Id(t)}
    /\ Goto(t, "secret") /\ queued' = queued \ {t}
    /\ UNCHANGED <<tenant, secret, job, deploy, route>>
    /\ ComponentFrame

\* A missing secret is created with a new password and used at once; a
\* Create fails when a namesake has taken the namespace away.
SecretReconcile(t) ==
    /\ pc[t] = "secret"
    /\ LET i == Id(t) IN
       \/ /\ secret[i] # NoPassword
          /\ pass' = [pass EXCEPT ![t].pass = secret[i]]
          /\ GoOn(t, "job") /\ UNCHANGED secret
       \/ /\ secret[i] = NoPassword /\ i \in ns
          /\ ~(Passwords \subseteq InUse)
          /\ secret' = [secret EXCEPT ![i] = GeneratePassword]
          /\ pass' = [pass EXCEPT ![t].pass = GeneratePassword]
          /\ GoOn(t, "job")
       \/ /\ secret[i] = NoPassword /\ i \notin ns
          /\ StopProvisioning(t) /\ UNCHANGED secret
    /\ UNCHANGED <<ns, job, deploy, route>>
    /\ ComponentFrame

\* The secret is healthy when it is still there.  A missing init Job is
\* created with the password the pass holds; one that exists is left alone,
\* whatever password it was built with.
DatabaseReconcile(t) ==
    /\ pc[t] = "job"
    /\ LET i == Id(t) IN
       \/ /\ secret[i] = NoPassword
          /\ StopProvisioning(t) /\ UNCHANGED job
       \/ /\ secret[i] # NoPassword
          /\ job' = IF job[i].state # "absent" THEN job
                    ELSE [job EXCEPT ![i] = [state |-> "running",
                                             pass |-> pass[t].pass]]
          /\ GoOn(t, "deploy") /\ UNCHANGED pass
    /\ UNCHANGED <<ns, secret, deploy, route>>
    /\ ComponentFrame

-----------------------------------------------------------------------------
(* The service, the route and the status. *)

\* Mutant: an existing Deployment is scaled, its pod template left alone.
ScaledOnly(d, p) ==
    CASE p.susp -> {[d EXCEPT !.state = "zero", !.runs = NoPassword]}
      [] ~p.susp /\ d.state = "ready" -> {d}
      [] OTHER -> {[d EXCEPT !.state = "pending"]}

\* The Deployment after a patch.  A new password changes the pod template:
\* pods are replaced one by one, and until they are, ReadyReplicas counts
\* the old ones.
Patched(d, p) ==
    CASE p.susp -> {[d EXCEPT !.state = "zero", !.runs = NoPassword]}
      [] ~p.susp /\ d.state = "ready" /\ d.pass = p.pass -> {d}
      [] ~p.susp /\ d.state = "ready" /\ d.pass # p.pass ->
            {[d EXCEPT !.state = s, !.pass = p.pass] : s \in {"ready", "pending"}}
      [] OTHER -> {[d EXCEPT !.state = "pending", !.pass = p.pass]}

BuildDeployment(p) ==
    [state |-> "pending", pass |-> p.pass, runs |-> NoPassword]

\* The gate is the Job alone.  A Deployment cannot be created in a namespace
\* that a namesake has taken away.
ReconcileDeployment(t) ==
    /\ pc[t] = "deploy"
    /\ LET i == Id(t)
           d == deploy[i]
           p == pass[t]
           absent == d.state = "absent"
           fails  == absent /\ ~p.susp /\ i \notin ns
       IN  \/ /\ job[i].state # "succeeded"
              /\ StopProvisioning(t) /\ UNCHANGED deploy
           \/ /\ job[i].state = "succeeded"
              /\ \E new \in IF absent
                             THEN {IF p.susp \/ fails THEN d ELSE BuildDeployment(p)}
                             ELSE Patched(d, p) :
                    deploy' = [deploy EXCEPT ![i] = new]
              /\ pass' = [pass EXCEPT ![t].err = fails, ![t].pass = NoPassword]
              /\ queued' \in IF deploy' = deploy THEN {queued} ELSE Woken(queued, i)
              /\ Goto(t, "route") /\ UNCHANGED tenant
    /\ UNCHANGED <<ns, secret, job, route>>
    /\ ComponentFrame

\* Mutant: a word that is not a phase.
DeriveHealth(p, allReady) ==
    IF p.susp \/ allReady THEN "Healthy" ELSE "Provisioning"

DerivePhase(p, allReady) ==
    CASE p.susp -> "Suspended"
      [] ~p.susp /\ allReady -> "Ready"
      [] OTHER -> "Provisioning"

\* The service's health, the route, and the patch of the status.
RoutingReconcile(t) ==
    /\ pc[t] = "route"
    /\ LET i == Id(t)
           p == pass[t]
       IN  /\ route' = IF p.susp THEN route \ {i} ELSE route \cup {i}
           /\ queued' \in IF route' = route THEN {queued} ELSE Woken(queued, i)
           /\ SetPhase(t, DerivePhase(p, ~p.err /\ deploy[i].state = "ready"))
    /\ pass' = [pass EXCEPT ![t] = NewPass(FALSE)]
    /\ Goto(t, "list")
    /\ UNCHANGED <<ns, secret, job, deploy>>
    /\ ComponentFrame

-----------------------------------------------------------------------------
(* The gauges. *)

Count(tenants) ==
    LET present == {t \in Tenants : tenants[t].life # "none"}
        In(phase) == {t \in present : tenants[t].phase = phase}
    IN  [total     |-> Cardinality(present),
         ready     |-> Cardinality(In("Ready")),
         suspended |-> Cardinality(In("Suspended"))]

\* The list comes from the cache, where the phase just patched may be missing.
ListTenants(t) ==
    /\ pc[t] = "list"
    /\ pass' = [pass EXCEPT ![t].counts = Count(seen)]
    /\ Goto(t, "set")
    /\ UNCHANGED <<tenant, seen, objects, roles, queued, gauges, bounds>>

\* Mutant: a tenant that is done does not come back.
SetGaugesAndRest(t) ==
    /\ pc[t] = "set"
    /\ gauges' = pass[t].counts
    /\ Return(t, FALSE)
    /\ UNCHANGED <<tenant, seen, objects, roles, bounds>>

\* Another worker may have set them since the list was read.
SetGauges(t) ==
    /\ pc[t] = "set"
    /\ gauges' = pass[t].counts
    /\ Return(t, TRUE)
    /\ UNCHANGED <<tenant, seen, objects, roles, bounds>>

-----------------------------------------------------------------------------
(* finalize *)

\* The tenant is marked Deleting and its route deleted.
FinalizeRouting(t) ==
    /\ Starts(t, "deleting")
    /\ SetPhase(t, "Deleting")
    /\ route' = route \ {Id(t)}
    /\ queued' \in IF route' = route THEN {queued \ {t}}
                   ELSE Woken(queued \ {t}, Id(t))
    /\ Goto(t, "finJob")
    /\ UNCHANGED <<pass, ns, secret, job, deploy>>
    /\ ComponentFrame

DatabaseFinalize(t) ==
    /\ pc[t] = "finJob"
    /\ job' = [job EXCEPT ![Id(t)] = NoJob]
    /\ GoOn(t, "finNs")
    /\ UNCHANGED <<pass, ns, secret, deploy, route>>
    /\ ComponentFrame

\* The namespace takes the secret and the Deployment with it.
NamespaceFinalize(t) ==
    /\ pc[t] = "finNs"
    /\ ns' = ns \ {Id(t)}
    /\ secret' = [secret EXCEPT ![Id(t)] = NoPassword]
    /\ deploy' = [deploy EXCEPT ![Id(t)] = NoDeployment]
    /\ queued' \in IF deploy' = deploy THEN {queued} ELSE Woken(queued, Id(t))
    /\ Goto(t, "finRemove")
    /\ UNCHANGED <<tenant, pass, job, route>>
    /\ ComponentFrame

RemoveFinalizer(t) ==
    /\ pc[t] = "finRemove"
    /\ tenant' = [tenant EXCEPT ![t] = NoTenant]
    /\ Return(t, FALSE)
    /\ UNCHANGED objects
    /\ ComponentFrame

-----------------------------------------------------------------------------
(* The informer, and what disturbs the fleet: restarts and users. *)

Change == changes < MaxChanges /\ changes' = changes + 1

DeliverTenant(t) ==
    /\ seen[t] # tenant[t]
    /\ seen' = [seen EXCEPT ![t] = tenant[t]]
    /\ queued' = queued \cup {t}
    /\ UNCHANGED <<tenant, objects, roles, pc, pass, gauges, bounds>>

\* The gauges live in the process.
Restart ==
    /\ Change
    /\ seen' = tenant
    /\ pc' = [t \in Tenants |-> "idle"]
    /\ pass' = [t \in Tenants |-> NewPass(FALSE)]
    /\ gauges' = NoCounts
    /\ queued' = {t \in Tenants : tenant[t].life # "none"}
    /\ UNCHANGED <<tenant, objects, roles, lives>>

UserFrame ==
    UNCHANGED <<seen, ns, job, deploy, route, roles, workerVars, gauges>>

CreateTenant(t) ==
    /\ tenant[t].life = "none"
    /\ lives < MaxLives /\ lives' = lives + 1
    /\ \E i \in Ids :
          tenant' = [tenant EXCEPT ![t] =
                        [NoTenant EXCEPT !.life = "new", !.id = i]]
    /\ UNCHANGED <<secret, changes>>
    /\ UserFrame

DeleteTenant(t) ==
    /\ Change
    /\ \/ /\ tenant[t].life = "new"
          /\ tenant' = [tenant EXCEPT ![t] = NoTenant]
       \/ /\ tenant[t].life = "live"
          /\ tenant' = [tenant EXCEPT ![t].life = "deleting"]
    /\ UNCHANGED <<secret, lives>>
    /\ UserFrame

ToggleSuspended(t) ==
    /\ tenant[t].life \in {"new", "live"}
    /\ Change
    /\ tenant' = [tenant EXCEPT ![t].susp = ~tenant[t].susp]
    /\ UNCHANGED <<secret, lives>>
    /\ UserFrame

\* How the admin guide has users rotate credentials.
DeleteSecret(i) ==
    /\ secret[i] # NoPassword
    /\ Change
    /\ secret' = [secret EXCEPT ![i] = NoPassword]
    /\ UNCHANGED <<tenant, lives>>
    /\ UserFrame

-----------------------------------------------------------------------------
(* The cluster. *)

ClusterFrame ==
    UNCHANGED <<tenant, seen, ns, secret, route, pc, pass, gauges, bounds>>

\* The init SQL creates the roles with the Job's password, or alters them.
JobEnds(i) ==
    /\ job[i].state = "running"
    /\ job' = [job EXCEPT ![i].state = "succeeded"]
    /\ roles' = job[i].pass
    /\ UNCHANGED <<deploy, queued>>
    /\ ClusterFrame

\* The new pods are up.  Whether they can log in is not part of readiness:
\* the builders define no probe.
PodsAreReady(i) ==
    /\ \/ deploy[i].state = "pending"
       \/ deploy[i].state = "ready" /\ deploy[i].runs # deploy[i].pass
    /\ deploy' = [deploy EXCEPT ![i].state = "ready",
                                ![i].runs = deploy[i].pass]
    /\ queued' \in Woken(queued, i)
    /\ UNCHANGED <<job, roles>>
    /\ ClusterFrame

-----------------------------------------------------------------------------
Reconcile(t) ==
    \/ IgnoreMissing(t)
    \/ AddFinalizer(t)
    \/ NamespaceReconcile(t)
    \/ SecretReconcile(t)
    \/ DatabaseReconcile(t)
    \/ ReconcileDeployment(t)
    \/ RoutingReconcile(t)
    \/ ListTenants(t)
    \/ SetGauges(t)
    \/ FinalizeRouting(t)
    \/ DatabaseFinalize(t)
    \/ NamespaceFinalize(t)
    \/ RemoveFinalizer(t)

User ==
    \/ \E t \in Tenants :
          CreateTenant(t) \/ DeleteTenant(t) \/ ToggleSuspended(t)
    \/ \E i \in Ids : DeleteSecret(i)

Next ==
    \/ \E t \in Tenants : Reconcile(t) \/ DeliverTenant(t)
    \/ \E i \in Ids : JobEnds(i) \/ PodsAreReady(i)
    \/ Restart
    \/ User

Spec == Init /\ [][Next]_vars

\* Workers and informers never stop; Jobs end and pods come up.
Fairness ==
    /\ \A t \in Tenants : WF_vars(Reconcile(t)) /\ WF_vars(DeliverTenant(t))
    /\ \A i \in Ids : WF_vars(JobEnds(i)) /\ WF_vars(PodsAreReady(i))

FairSpec == Spec /\ Fairness
-----------------------------------------------------------------------------
(* Properties. *)

\* Every variable keeps its type.
TypeOK ==
    /\ tenant \in [Tenants -> TenantStates] /\ seen \in [Tenants -> TenantStates]
    /\ ns \subseteq Ids /\ route \subseteq Ids
    /\ secret \in [Ids -> MaybePassword] /\ roles \in MaybePassword
    /\ job \in [Ids -> Jobs] /\ deploy \in [Ids -> Deployments]
    /\ pc \in [Tenants -> Pcs] /\ pass \in [Tenants -> Passes]
    /\ queued \subseteq Tenants
    /\ gauges \in Counts
    /\ lives \in Nat /\ changes \in Nat

Has(t, i) == tenant[t].life # "none" /\ tenant[t].id = i

\* Nothing is left of a tenant ID that no SupabaseTenant has: a namesake may
\* create again what the one that goes has just deleted, but then it will
\* delete it itself.
NothingUnclaimed ==
    \A i \in Ids : (\A t \in Tenants : ~Has(t, i)) =>
        /\ i \notin ns /\ i \notin route
        /\ secret[i] = NoPassword /\ job[i] = NoJob /\ deploy[i] = NoDeployment

\* Who answers for what is there: a tenant with the finalizer whose
\* finalization, if it has begun, has not yet come to it.
Answers(t, i, gone) ==
    Has(t, i) /\ tenant[t].life # "new" /\ pc[t] \notin gone

\* A worker is busy with a tenant that has the finalizer, or finalizes one
\* that is being deleted.
WorkersAreJustified ==
    \A t \in Tenants :
        /\ pc[t] # "idle" => tenant[t].life \in {"live", "deleting"}
        /\ pc[t] \in {"finJob", "finNs", "finRemove"} =>
               tenant[t].life = "deleting"

\* The inductive invariant behind NothingUnclaimed.
ClaimInv ==
    /\ WorkersAreJustified
    /\ \A i \in Ids :
          /\ i \in route => \E t \in Tenants :
                Answers(t, i, {"finJob", "finNs", "finRemove"})
          /\ job[i] # NoJob => \E t \in Tenants :
                Answers(t, i, {"finNs", "finRemove"})
          /\ i \in ns => \E t \in Tenants : Answers(t, i, {"finRemove"})
          /\ secret[i] # NoPassword \/ deploy[i] # NoDeployment => i \in ns

\* Users leave a tenant as it is, and its namesakes are to be as it is.
Wanted(t, susp) ==
    /\ tenant[t].life \in {"new", "live"}
    /\ \A u \in Tenants : Has(u, Id(t)) => tenant[u].susp = susp

Serving(t) ==
    /\ tenant[t].phase = "Ready" /\ Id(t) \in route
    /\ deploy[Id(t)].state = "ready"
    /\ secret[Id(t)] # NoPassword /\ deploy[Id(t)].runs = secret[Id(t)]

Resting(t) ==
    /\ tenant[t].phase = "Suspended" /\ Id(t) \notin route
    /\ deploy[Id(t)].state \in {"absent", "zero"}

\* A tenant that users leave alone ends up for good as its spec says, its pods
\* running with the password that is in the secret: after a rotation, a
\* restart, or a namesake that was deleted and took all objects with it.
FleetConverges ==
    \A t \in Tenants :
        /\ <>[]Wanted(t, FALSE) => <>[]Serving(t)
        /\ <>[]Wanted(t, TRUE) => <>[]Resting(t)

Living == {t \in Tenants : tenant[t].life \in {"new", "live"}}

\* While a tenant lives and users leave all alone, the gauges end up with the
\* numbers of tenants, although each recount reads an old list, workers
\* overtake each other between list and set, a restart resets the gauges and
\* a deletion ends without a recount.
GaugesSettle ==
    <>[](Living # {} /\ \A t \in Living : Wanted(t, tenant[t].susp))
        => <>[](gauges = Count(tenant))
=============================================================================
