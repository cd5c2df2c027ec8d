--------------------------- MODULE TenantHistory ---------------------------
(***************************************************************************)
(* What the SupabaseTenant controller achieves: nothing outlives a tenant, *)
(* services start after their init Job, and a status that says Ready or    *)
(* Suspended is true.                                                      *)
(*                                                                         *)
(* None of this holds when the controller goes by a read that failed or    *)
(* was answered by a cache that is behind the server, and its code takes   *)
(* no precaution against either.  Two history variables record each time   *)
(* it does, and the properties say that there is no other way: not through *)
(* failed writes, lost answers, conflicts, restarts, edits in the middle   *)
(* of a pass, status patches computed from old copies or recreation under  *)
(* the same name.                                                          *)
(***************************************************************************)
EXTENDS TenantReconciler

VARIABLES
    missed,    \* belongings that finalize passed over and that are there still
    misread    \* <<kind, generation>>: what a pass for that generation of the
               \* tenant went by was not so on the server

hvars == <<vars, missed, misread>>

-----------------------------------------------------------------------------
(* What the controller overlooks. *)

\* The step with which finalize leaves a belonging behind it.
Turn(k) == CASE k = ROUTE    -> <<"finRoute", "finDatabase">>
             [] k = DATABASE -> <<"finDatabase", "finJob">>
             [] k = JOB      -> <<"finJob", "finNs">>
             [] k = NS       -> <<"finNs", "finRemove">>

\* A step that passes over a belonging: a parent that was not found, or could
\* not be read, skips them all; each is skipped when the cache does not show
\* it, and the Database and the Job also when they could not be read.
Overlooks(k) ==
    \/ pc = "finParent" /\ pc' = "finAbandon"
    \/ /\ <<pc, pc'>> = Turn(k)
       /\ \/ View(k) = "absent"
          \/ k \in {DATABASE, JOB} /\ faults' # faults

\* A Deployment that is there and has replicas.
Runs(s) == s \notin {"absent", "zero"}

\* A step of a pass that goes on because of a read, and is wrong about the
\* server: an object in the cache is older than that, or a Deployment that
\* could not be read is taken for absent.
Misreads(kind) ==
    \/ /\ kind = "ns" /\ pc = "nsHealth" /\ pc' = "jwt"
       /\ View(NS) = "active" /\ api[NS] # "active"
    \/ /\ kind = "job" /\ pc = "dbHealth" /\ pc' = "deploy"
       /\ View(JOB) = "succeeded" /\ api[JOB] # "succeeded"
    \/ /\ kind = "deploy" /\ pc = "deploy" /\ pc' = "svc"
       /\ Runs(View(Deploy(at))) /\ ~Runs(api[Deploy(at)])
    \/ /\ kind = "deploy" /\ pc = "deploy" /\ pc' = "svcHealth"
       /\ Runs(api[Deploy(at)])
       /\ ~Runs(View(Deploy(at))) \/ faults' # faults
    \/ /\ kind = "route" /\ pc = "route" /\ pc' = "routeHealth" /\ my.susp
       /\ View(ROUTE) = "absent" /\ api[ROUTE] # "absent"

MisreadKinds == {"ns", "job", "deploy", "route"}

\* A tenant that gets the finalizer begins a life of its own, and finds what
\* an earlier life of its name has left.
NewLife == ~cr.fin /\ cr'.fin

Remember ==
    /\ missed' = IF NewLife THEN {}
                 ELSE {k \in Belongings :
                          (k \in missed \/ Overlooks(k)) /\ ~Gone(api'[k])}
    /\ misread' = IF NewLife THEN {}
                  ELSE misread \cup {<<kind, my.gen>> : kind \in
                                        {m \in MisreadKinds : Misreads(m)}}

HistoryInit == Init /\ missed = {} /\ misread = {}
HistoryNext == Next /\ Remember
HistorySpec == HistoryInit /\ [][HistoryNext]_hvars

HistoryTypeOK == missed \subseteq Belongings /\ misread \subseteq MisreadKinds \X Nat

\* A pass for generation gen went by a wrong read of one of these kinds.
Misled(kinds, gen) == \E kind \in kinds : <<kind, gen>> \in misread

-----------------------------------------------------------------------------
(* Properties. *)

\* When the SupabaseTenant is gone, so are its HTTPRoute, Database, init Job
\* and namespace, or they are on their way out, except for what finalize
\* passed over: nothing else outlives the tenant, across failed writes, lost
\* answers, conflicts and restarts, and a tenant that is recreated takes care
\* of what an earlier life left.
NoOrphans == ~cr.present => \A k \in Belongings : Gone(api[k]) \/ k \in missed

\* A Deployment is only created while the init Job of the tenant has
\* succeeded, except by a pass that found the succeeded Job of an earlier life
\* in its cache, which the gate cannot tell from the one that runs.
DeployedAfterInit ==
    [][\A i \in Services :
          api[Deploy(i)] = "absent" /\ api'[Deploy(i)] # "absent"
              => api[JOB] = "succeeded" \/ Misled({"job"}, my.gen)]_hvars

ScaledDown ==
    /\ \A i \in Services : ~Runs(api[Deploy(i)])
    /\ api[ROUTE] = "absent"

Deployed ==
    /\ \A i \in Services : Runs(api[Deploy(i)]) /\ api[Svc(i)] = "present"
    /\ api[ROUTE] = "present" /\ api[NS] = "active"

\* A suspended tenant all of whose conditions are True for the current
\* generation means it: no Deployment has replicas and the route is gone,
\* unless a pass for this generation took a Deployment or the route for absent
\* that was there.  The phase does not say so, because a Suspended one hides
\* the errors of components.
SuspendedIsScaledDown ==
    cr.present /\ ~cr.deleting /\ cr.susp /\ AllReadyNow(status)
        => ScaledDown \/ Misled({"deploy", "route"}, cr.gen)

\* The status of a tenant that is not suspended and reports the current
\* generation as Ready, with every condition True, means that every
\* Deployment is scaled up and the route exists, although the merge patch
\* was computed from a cached status that may be old; unless a pass for this
\* generation took an old namespace for active, or an old Deployment for one
\* that is scaled up.
ReadyIsDeployed ==
    Reported("Ready") => Deployed \/ Misled({"ns", "deploy"}, cr.gen)

-----------------------------------------------------------------------------
(* The abstract lifecycle. *)

LifecycleOf(c) == CASE ~c.present -> "none"
                    [] c.present /\ c.deleting -> "deleting"
                    [] c.present /\ ~c.deleting -> "live"

Lifecycle == INSTANCE TenantLifecycle WITH
                 Optional <- {ROUTE},
                 tenant <- LifecycleOf(cr),
                 held <- cr.fin,
                 owned <- {k \in Belongings : ~Gone(api[k])} \ missed,
                 left <- missed

\* The finalizer is the operator's hold on the tenant: it is on before the
\* first object is created and comes off a tenant that is being deleted, when
\* the HTTPRoute, the Database, the init Job and the namespace are gone, on
\* their way out or passed over.  Only the route may go while the tenant is
\* live.
ImplementsLifecycle == Lifecycle!Spec

-----------------------------------------------------------------------------
(* What makes NoOrphans and ImplementsLifecycle inductive. *)

\* Nothing is left to do for a belonging: it is cleaned up, or given up.
Settled(k) == Gone(api[k]) \/ k \in missed

\* What finalize has behind it stays settled.
CleanedSoFar ==
    /\ pc \in {"finDatabase", "finJob", "finNs", "finRemove"} => Settled(ROUTE)
    /\ pc \in {"finJob", "finNs", "finRemove"} => Settled(DATABASE)
    /\ pc \in {"finNs", "finRemove"} => Settled(JOB)
    /\ pc = "finRemove" => Settled(NS)

\* There is nothing to clean up for a tenant without the finalizer, nor once
\* finalize has given up.
CleanupInv ==
    /\ missed \subseteq {k \in Belongings : ~Gone(api[k])}
    /\ CleanedSoFar
    /\ ~cr.fin \/ pc = "finAbandon" => \A k \in Belongings : Settled(k)

-----------------------------------------------------------------------------
(* What makes DeployedAfterInit, ReadyIsDeployed and SuspendedIsScaledDown *)
(* inductive.                                                              *)

ServicePcs == {"deploy", "svc", "svcHealth"}
RoutePcs == {"route", "routeHealth"}

\* The passes for the generation in hand were right about these kinds.
Sure(kinds) == ~Misled(kinds, my.gen)

\* Past the gate the Job stays what it is: only finalize deletes it.
GateIsCurrent ==
    pc \in ServicePcs \cup RoutePcs /\ Sure({"job"}) => api[JOB] = "succeeded"

\* The conditions of a pass that were set for the generation it is about.
Fails(c) == work.conds[c].reason # "Ready" /\ work.conds[c].gen = my.gen

\* The Deployment of a service component is as asked for.
Scaled(i) ==
    /\ ~my.susp /\ Sure({"ns", "deploy"}) => Runs(api[Deploy(i)])
    /\ my.susp /\ Sure({"deploy"}) => ~Runs(api[Deploy(i)])

\* A service component that ended as Ready in this pass.
Served(i) ==
    /\ Scaled(i)
    /\ ~my.susp /\ Sure({"ns"}) => api[Svc(i)] = "present"

Ended == IF pc \in ServicePcs THEN 1 .. at - 1 ELSE Services

\* What the worker has behind it on its way through a pass: its variables are
\* fresh up to the services, and the namespace is there from its health check
\* on; what each service, and the route, was found to be is still so.
WorkerIsFresh ==
    pc \notin ServicePcs \cup RoutePcs \cup {"patch"} => at = 1 /\ allReady

ServicesSoFar ==
    pc \in ServicePcs \cup RoutePcs =>
        IF allReady THEN \A i \in Ended : Served(i)
                    ELSE \E i \in Ended : Fails(ServiceReady(i))

RouteIsAsAsked ==
    /\ ~my.susp => api[ROUTE] = "present"
    /\ my.susp /\ Sure({"route"}) => api[ROUTE] = "absent"

ComponentSoFar ==
    /\ pc = "svc" => ~my.susp /\ Scaled(at)
    /\ pc = "svcHealth" => Served(at)
    /\ pc = "routeHealth" => RouteIsAsAsked

ProgressInv ==
    /\ api[ROUTE] \in {"absent", "present"}
    /\ \A i \in Services : api[Svc(i)] \in {"absent", "present"}
    /\ pc \in ReconcilePcs \ {"parent", "ns", "np", "nsHealth"} /\ Sure({"ns"})
          => api[NS] = "active"
    /\ WorkerIsFresh /\ ServicesSoFar /\ ComponentSoFar

\* What a pass is about to write: an error of the parent leaves the conditions
\* of the components and the generation alone, a pass that stops says which
\* component did not make it, a full pass says what it found.
PatchInv ==
    pc = "patch" =>
        \/ /\ work.phase = "Error" /\ work.obs = base.obs
           /\ \A c \in ComponentConds : work.conds[c] = base.conds[c]
        \/ /\ work.phase = "Provisioning" /\ work.obs = my.gen
           /\ \E c \in ComponentConds : Fails(c)
        \/ /\ work.phase = "Ready" /\ work.obs = my.gen
           /\ ~my.susp /\ work.conds[RoutingReady].gen = my.gen
           /\ Sure({"ns", "deploy"}) => Deployed
        \/ /\ work.phase = "Suspended" /\ work.obs = my.gen
           /\ my.susp /\ work.conds[RoutingReady].gen = my.gen
           /\ Sure({"deploy", "route"}) /\ (\A c \in ComponentConds : ~Fails(c))
                 => ScaledDown

Live(susp) == cr.fin /\ ~cr.deleting /\ cr.susp = susp

\* Not only is a tenant that reports the current generation as Ready deployed:
\* one that has kept the phase of an older generation says in its conditions
\* that it is not, until a phase is sent, and none is taken for sent that is not.
ReadyInv ==
    Live(FALSE) /\ status.phase = "Ready" /\ status.obs = cr.gen =>
        \/ Deployed \/ Misled({"ns", "deploy"}, cr.gen)
        \/ /\ \E c \in ComponentConds : status.conds[c].reason # "Ready"
           /\ seenStatus.phase # "Error"
           /\ InPass => base.phase # "Error"

\* Lists of conditions are sent as a whole: those of an old status, in the
\* cache or the base of a patch, are as true as those on the server.
SuspendedInv ==
    Live(TRUE) =>
        \/ ScaledDown \/ Misled({"deploy", "route"}, cr.gen)
        \/ /\ ~AllReadyNow(status)
           /\ Owned(seenCR) => ~AllReadyNow(seenStatus)
           /\ InPass => ~AllReadyNow(base)

ReportInv ==
    GenerationInv /\ EditsInv /\ ProgressInv /\ PatchInv /\ ReadyInv
=============================================================================
