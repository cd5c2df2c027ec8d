------------------------- MODULE PlatformReconciler -------------------------
(***************************************************************************)
(* The Supabase controller (internal/controller/supabase_controller.go)    *)
(* and the platform components it drives (internal/components/platform),   *)
(* for one Supabase key.                                                   *)
(*                                                                         *)
(* Unlike a tenant, a platform has no finalizer: its objects carry a       *)
(* controller reference, the garbage collector deletes them when their     *)
(* owner is gone, and every one of their kinds is watched.                 *)
(*                                                                         *)
(* Simplifications, as in TenantReconciler: a step is one Get with the     *)
(* write that depends on it, a health check is one step, an informer that  *)
(* catches up jumps to the newest version.  Of the spec there remain what  *)
(* the control flow reads: whether backups are configured, and whether a   *)
(* service is enabled and has replicas.  A Supabase is deleted in the      *)
(* background, the default.                                                *)
(***************************************************************************)
EXTENDS Integers, FiniteSets

CONSTANTS
    NumServices,   \* how many optional services a platform has
    Configured,    \* the services that come with a ConfigMap
    Modes,         \* what users ask of a service, see AllModes
    Backups,       \* what they ask of backups: TRUE is to have them
    Slow,          \* kinds of objects that are not ready once they are created
    Lagging,       \* kinds of objects read through a cache that can be behind
    Failures,      \* the ways in which things fail, see Outcomes
    MaxFaults,     \* bound: failed API calls and objects that turn unhealthy
    MaxEdits,      \* bound: edits of the Supabase's spec
    MaxLives,      \* bound: creations of the Supabase
    MaxDeletes,    \* bound: deletions of it
    MaxCrashes     \* bound: restarts of the operator

Services == 1 .. NumServices
Kinds == {"cluster", "backup", "gateway", "config", "deploy", "svc"}

\* A service that is enabled, enabled with no replicas, or disabled.
AllModes == {"on", "zero", "off"}

ASSUME ServicesAssumption == NumServices \in Nat \ {0}
ASSUME ConfiguredAssumption == Configured \subseteq Services
ASSUME ModesAssumption == Modes \subseteq AllModes
ASSUME BackupsAssumption == Backups \subseteq BOOLEAN
ASSUME SlowAssumption == Slow \subseteq {"cluster", "gateway", "deploy"}
ASSUME LaggingAssumption == Lagging \subseteq Kinds
ASSUME FailuresAssumption ==
    Failures \subseteq {"unread", "undone", "lost", "unhealthy"}
ASSUME BoundsAssumption ==
    /\ MaxFaults \in Nat /\ MaxEdits \in Nat
    /\ MaxLives \in Nat /\ MaxDeletes \in Nat /\ MaxCrashes \in Nat

-----------------------------------------------------------------------------
(* Objects, the Supabase and its status. *)

CLUSTER == <<"cluster", 0>>
BACKUP  == <<"backup", 0>>
GATEWAY == <<"gateway", 0>>
Config(i) == <<"config", i>>
Deploy(i) == <<"deploy", i>>
Svc(i)    == <<"svc", i>>

Keys == {CLUSTER, BACKUP, GATEWAY}
            \cup {Config(i) : i \in Services} \cup {Deploy(i) : i \in Services}
            \cup {Svc(i) : i \in Services}

\* "pending" is a Cluster, a Gateway or a Deployment that is not ready yet.
ObjStates == {"absent", "present", "pending", "ready", "zero"}

\* The builders: the state their object starts in.
Created(kind) == IF kind \in Slow THEN "pending" ELSE "ready"
buildCluster         == Created("cluster")
buildScheduledBackup == "present"
buildGateway         == Created("gateway")
BuildConfigMap       == "present"
BuildService         == "present"
BuildDeployment(mode) == IF mode = "zero" THEN "zero" ELSE Created("deploy")

IsEnabled(mode) == mode # "off"

\* A Supabase: uid tells its lives apart, 0 is none.
Supabases == [uid : Nat, gen : Nat, backup : BOOLEAN,
              mode : [Services -> AllModes]]
NoSupabase == [uid |-> 0, gen |-> 0, backup |-> FALSE,
               mode |-> [i \in Services |-> "off"]]

Phases == {"", "Provisioning", "Ready", "Degraded", "Error"}

DatabaseReady == <<"DatabaseReady", 0>>
BackupReady   == <<"BackupReady", 0>>
GatewayReady  == <<"GatewayReady", 0>>
ServiceReady(i) == <<"ServiceReady", i>>
Critical == {DatabaseReady, BackupReady, GatewayReady}
Conds == Critical \cup {ServiceReady(i) : i \in Services}

\* A condition: its reason stands for its Status too, which is True for
\* "Ready" only; gen is its ObservedGeneration.
Conditions == [reason : {"Unset", "Ready", "NotReady", "Error"}, gen : Nat]

Statuses == [phase : Phases, conds : [Conds -> Conditions], obs : Nat,
             databaseReady : BOOLEAN, gatewayReady : BOOLEAN]
NoStatus == [phase |-> "",
             conds |-> [c \in Conds |-> [reason |-> "Unset", gen |-> 0]],
             obs |-> 0, databaseReady |-> FALSE, gatewayReady |-> FALSE]

\* What Reconcile remembers from one component to the next.
Passes == [hasError : BOOLEAN, allReady : BOOLEAN, dbReady : BOOLEAN,
           criticalFailed : BOOLEAN]
NewPass == [hasError |-> FALSE, allReady |-> TRUE, dbReady |-> FALSE,
            criticalFailed |-> FALSE]

-----------------------------------------------------------------------------
VARIABLES
    sb, status,            \* the Supabase on the API server
    sbEvent,               \* an event about it is on its way to the informer
    seenSB, seenStatus,    \* the Supabase in the operator's cache
    api,                   \* the state of every other object on the server
    owner,                 \* the uid in its controller reference, 0 for none
    cache,                 \* the states in the cache, for the Lagging kinds
    pc,                    \* where the worker is
    at,                    \* the service it is working on
    my, base, work,        \* the Supabase it read, patch base, edited status
    pass,                  \* its flags
    queued,                \* the key is in the workqueue
    timer,                 \* a delayed or rate-limited add is pending
    failing,               \* the rate limiter counts failures of the key: its
                           \* last reconcile returned an error
    faults, edits, lives, deletes, crashes   \* what has been spent of the bounds

sbVars     == <<sb, status, sbEvent>>
seenVars   == <<seenSB, seenStatus>>
kubeVars   == <<api, owner, cache>>
workerVars == <<pc, at, my, base, work, pass>>
queueVars  == <<queued, timer, failing>>
bounds     == <<faults, edits, lives, deletes, crashes>>
vars == <<sbVars, seenVars, kubeVars, workerVars, queueVars, bounds>>

Pcs == {"idle", "preflight", "cluster", "clusterHealth", "backup",
        "backupHealth", "gateway", "gatewayHealth", "config", "deploy", "svc",
        "svcHealth", "patch", "patchError"}

Init ==
    /\ sb = NoSupabase /\ seenSB = NoSupabase
    /\ status = NoStatus /\ seenStatus = NoStatus
    /\ sbEvent = FALSE
    /\ api = [k \in Keys |-> "absent"] /\ cache = api
    /\ owner = [k \in Keys |-> 0]
    /\ pc = "idle" /\ at = 1
    /\ my = NoSupabase /\ base = NoStatus /\ work = NoStatus
    /\ pass = NewPass
    /\ queued = FALSE /\ timer = FALSE /\ failing = FALSE
    /\ faults = 0 /\ edits = 0 /\ lives = 0 /\ deletes = 0 /\ crashes = 0

-----------------------------------------------------------------------------
(* Reads, writes and their failures. *)

View(k) == IF k[1] \in Lagging THEN cache[k] ELSE api[k]

\* Owns: an event of an owned object names its owner, and queues the key.
Wakes(new) == \E k \in Keys : k[1] \notin Lagging /\ new[k] # api[k]

Write(new) == api' = new /\ queued' = (queued \/ Wakes(new))

\* The outcomes of a Get followed by a write: all went well, the Get failed,
\* the write was not done, or it was done and its answer was lost.
Outcomes == {"ok", "unread", "undone", "lost"}

Spend(out) ==
    /\ out # "ok" => out \in Failures /\ faults < MaxFaults
    /\ faults' = IF out = "ok" THEN faults ELSE faults + 1

\* The end of Reconcile.  After an error the key is added again once the rate
\* limiter allows it; otherwise its failures are forgotten, and RequeueAfter
\* adds it after a delay.
Done(err, requeueAfter) ==
    /\ timer' = (timer \/ err \/ requeueAfter)
    /\ failing' = err
    /\ pc' = "idle" /\ at' = 1
    /\ my' = NoSupabase /\ base' = NoStatus /\ work' = NoStatus
    /\ pass' = NewPass

-----------------------------------------------------------------------------
(* Reconcile *)

StartReconcile ==
    /\ pc = "idle" /\ queued
    /\ queued' = FALSE
    /\ \E out \in {"ok", "unread"} :
          /\ Spend(out)
          /\ \/ out = "unread" /\ Done(TRUE, FALSE)
             \/ out = "ok" /\ seenSB.uid = 0 /\ Done(FALSE, FALSE)
             \/ /\ out = "ok" /\ seenSB.uid # 0
                /\ pc' = "preflight"
                /\ my' = seenSB /\ base' = seenStatus /\ work' = seenStatus
                /\ UNCHANGED <<at, pass, timer, failing>>
    /\ UNCHANGED <<sbVars, seenVars, kubeVars, edits, lives, deletes, crashes>>

\* What a step of the pass leaves alone.
PassFrame ==
    UNCHANGED <<sbVars, seenVars, cache, my, base, timer, failing, edits, lives, deletes, crashes>>

\* A List that fails ends the pass with an error.
preflightChecks ==
    /\ pc = "preflight"
    /\ \E out \in {"ok", "unread"} :
          /\ Spend(out)
          /\ pc' = IF out = "ok" THEN "cluster" ELSE "patchError"
    /\ UNCHANGED <<api, owner, at, work, pass, queued>>
    /\ PassFrame

\* Mutant: off by one in the loop over the services.
EndComponentOnceMore(c, reason) ==
    /\ work' = [work EXCEPT !.conds[c] = [reason |-> reason, gen |-> my.gen]]
    /\ UNCHANGED pass
    /\ CASE c = DatabaseReady -> pc' = "backup" /\ at' = at
         [] c = BackupReady   -> pc' = "gateway" /\ at' = at
         [] c = GatewayReady  -> pc' = "config" /\ at' = at
         [] OTHER -> IF at <= NumServices THEN pc' = "config" /\ at' = at + 1
                                          ELSE pc' = "patch" /\ at' = at

\* The condition is set and the pass goes on: after the critical components
\* with the services, unless one of the former had an error.
EndComponent(c, reason) ==
    /\ work' = [work EXCEPT !.conds[c] = [reason |-> reason, gen |-> my.gen]]
    /\ pass' = [pass EXCEPT
                  !.hasError = @ \/ reason = "Error",
                  !.allReady = @ /\ reason = "Ready",
                  !.dbReady = IF c = DatabaseReady THEN reason = "Ready" ELSE @,
                  !.criticalFailed = @ \/ (c \in Critical /\ reason = "Error")]
    /\ CASE c = DatabaseReady -> pc' = "backup" /\ at' = at
         [] c = BackupReady   -> pc' = "gateway" /\ at' = at
         [] c = GatewayReady  ->
              /\ pc' = IF pass'.criticalFailed THEN "patch" ELSE "config"
              /\ at' = at
         [] OTHER -> IF at < NumServices THEN pc' = "config" /\ at' = at + 1
                                         ELSE pc' = "patch" /\ at' = at

\* Mutant: the controller reference is not set.
ReconcileUnowned(k, want, next, c) ==
    /\ IF api[k] = "absent" THEN Write([api EXCEPT ![k] = want])
                            ELSE UNCHANGED <<api, queued>>
    /\ pc' = next
    /\ UNCHANGED <<work, pass, at, owner, faults>>
    /\ PassFrame

\* Get object k, then create it with a controller reference or patch its
\* mutable fields.  The patch holds spec.replicas only when the cached object's
\* differ from the ones wanted, and never the controller reference.
ReconcileObject(k, want, next, c) ==
    /\ \E out \in Outcomes :
          LET seen     == View(k)
              creates  == seen = "absent" /\ api[k] = "absent"
              patches  == seen # "absent" /\ api[k] # "absent"
              rescales == /\ patches
                          /\ (seen = "zero") # (want = "zero")
                          /\ (api[k] = "zero") # (want = "zero")
          IN  /\ Spend(out)
              /\ IF out \in {"ok", "lost"} /\ (creates \/ rescales)
                 THEN /\ Write([api EXCEPT ![k] = want])
                      /\ owner' = [owner EXCEPT ![k] = IF creates THEN my.uid
                                                                  ELSE @]
                 ELSE UNCHANGED <<api, owner, queued>>
              /\ IF out = "ok" /\ (creates \/ patches)
                 THEN pc' = next /\ UNCHANGED <<work, pass, at>>
                 ELSE EndComponent(c, "Error")
    /\ PassFrame

\* The Healthcheck of a component.
CheckHealth(healthy, c) ==
    /\ \E out \in {"ok", "unread"} :
          /\ Spend(out)
          /\ EndComponent(c, CASE out = "unread" -> "Error"
                               [] out = "ok" /\ healthy -> "Ready"
                               [] OTHER -> "NotReady")
    /\ UNCHANGED <<api, owner, queued>>
    /\ PassFrame

\* A component that is not configured or disabled is Ready, and what it
\* created before is left alone.
PassOver(c) ==
    /\ EndComponent(c, "Ready")
    /\ UNCHANGED <<api, owner, queued, faults>>
    /\ PassFrame

CNPGCluster ==
    \/ /\ pc = "cluster"
       /\ ReconcileObject(CLUSTER, buildCluster, "clusterHealth", DatabaseReady)
    \/ /\ pc = "clusterHealth"
       /\ CheckHealth(View(CLUSTER) = "ready", DatabaseReady)

ScheduledBackup ==
    \/ pc = "backup" /\ ~my.backup /\ PassOver(BackupReady)
    \/ /\ pc = "backup" /\ my.backup
       /\ ReconcileObject(BACKUP, buildScheduledBackup, "backupHealth",
                          BackupReady)
    \/ /\ pc = "backupHealth"
       /\ CheckHealth(View(BACKUP) # "absent", BackupReady)

Gateway ==
    \/ /\ pc = "gateway"
       /\ ReconcileObject(GATEWAY, buildGateway, "gatewayHealth", GatewayReady)
    \/ /\ pc = "gatewayHealth"
       /\ CheckHealth(View(GATEWAY) = "ready", GatewayReady)

ServiceReconcile ==
    \/ pc = "config" /\ ~IsEnabled(my.mode[at]) /\ PassOver(ServiceReady(at))
    \/ /\ pc = "config" /\ IsEnabled(my.mode[at])
       /\ IF at \in Configured
          THEN ReconcileObject(Config(at), BuildConfigMap, "deploy",
                               ServiceReady(at))
          ELSE /\ pc' = "deploy"
               /\ UNCHANGED <<api, owner, work, pass, at, queued, faults>>
               /\ PassFrame
    \/ /\ pc = "deploy"
       /\ ReconcileObject(Deploy(at), BuildDeployment(my.mode[at]), "svc",
                          ServiceReady(at))
    \/ /\ pc = "svc"
       /\ ReconcileObject(Svc(at), BuildService, "svcHealth", ServiceReady(at))

\* At least one replica must be ready: a service without replicas never is.
ServiceHealthcheck ==
    /\ pc = "svcHealth"
    /\ CheckHealth(View(Deploy(at)) = "ready", ServiceReady(at))

-----------------------------------------------------------------------------
(* updateStatus *)

derivePhase(p) ==
    CASE p.hasError /\ ~p.dbReady -> "Error"
      [] ~(p.hasError /\ ~p.dbReady) /\ p.allReady -> "Ready"
      [] p.hasError /\ p.dbReady /\ ~p.allReady -> "Degraded"
      [] OTHER -> "Provisioning"

\* A merge patch computed from base: it carries the fields that differ from
\* base, and the list of conditions as a whole.  sendConds is for a message
\* that changed, which sends the list although no condition did.
Merged(server, from, to, sendConds) ==
    [phase |-> IF to.phase # from.phase THEN to.phase ELSE server.phase,
     conds |-> IF sendConds \/ to.conds # from.conds
               THEN to.conds ELSE server.conds,
     obs   |-> IF to.obs # from.obs THEN to.obs ELSE server.obs,
     databaseReady |-> IF to.databaseReady # from.databaseReady
                       THEN to.databaseReady ELSE server.databaseReady,
     gatewayReady  |-> IF to.gatewayReady # from.gatewayReady
                       THEN to.gatewayReady ELSE server.gatewayReady]

\* The messages of conditions that are not True vary.
MayVary(to) == \E c \in Conds : to.conds[c].reason \in {"NotReady", "Error"}

\* Mutant: only Ready is requeued.
updateStatusOnce(to, reconcileErr) ==
    /\ \E out \in {"ok", "undone", "lost"}, sendConds \in BOOLEAN :
          /\ Spend(out)
          /\ sendConds => MayVary(to)
          /\ IF sb.uid # 0 /\ out # "undone"
             THEN LET new == Merged(status, base, to, sendConds)
                  IN  /\ status' = new
                      /\ sbEvent' = (sbEvent \/ sendConds \/ new # status)
             ELSE UNCHANGED <<status, sbEvent>>
          /\ Done(out # "ok" \/ sb.uid = 0 \/ reconcileErr, to.phase = "Ready")
    /\ UNCHANGED <<sb, seenVars, kubeVars, queued, edits, lives, deletes, crashes>>

\* Only Ready, Provisioning and Degraded are requeued; Error is not, unless it
\* comes from the preflight checks, whose error is returned.
updateStatus(to, reconcileErr) ==
    /\ \E out \in {"ok", "undone", "lost"}, sendConds \in BOOLEAN :
          /\ Spend(out)
          /\ sendConds => MayVary(to)
          /\ IF sb.uid # 0 /\ out # "undone"
             THEN LET new == Merged(status, base, to, sendConds)
                  IN  /\ status' = new
                      /\ sbEvent' = (sbEvent \/ sendConds \/ new # status)
             ELSE UNCHANGED <<status, sbEvent>>
          /\ Done(out # "ok" \/ sb.uid = 0 \/ reconcileErr, to.phase # "Error")
    /\ UNCHANGED <<sb, seenVars, kubeVars, queued, edits, lives, deletes, crashes>>

isConditionTrue(c) == work.conds[c].reason = "Ready"

PatchStatus ==
    \/ /\ pc = "patchError"
       /\ updateStatus([work EXCEPT !.phase = "Error", !.obs = my.gen], TRUE)
    \/ /\ pc = "patch"
       /\ updateStatus([work EXCEPT !.phase = derivePhase(pass),
                                    !.obs = my.gen,
                                    !.databaseReady = isConditionTrue(DatabaseReady),
                                    !.gatewayReady = isConditionTrue(GatewayReady)],
                       FALSE)

-----------------------------------------------------------------------------
(* The workqueue, the informers and restarts. *)

TimerFires ==
    /\ timer
    /\ timer' = FALSE /\ queued' = TRUE
    /\ UNCHANGED <<sbVars, seenVars, kubeVars, workerVars, failing, bounds>>

\* Mutant: only a changed spec wakes the worker, not a changed status.
DeliverSpecOnly ==
    /\ sbEvent
    /\ sbEvent' = FALSE
    /\ seenSB' = sb /\ seenStatus' = status
    /\ queued' = (queued \/ sb # seenSB)
    /\ UNCHANGED <<sb, status, kubeVars, workerVars, timer, failing, bounds>>

DeliverSupabase ==
    /\ sbEvent
    /\ sbEvent' = FALSE
    /\ seenSB' = sb /\ seenStatus' = status
    /\ queued' = TRUE
    /\ UNCHANGED <<sb, status, kubeVars, workerVars, timer, failing, bounds>>

\* The informer of one kind catches up.
Deliver(kind) ==
    /\ \E k \in Keys : k[1] = kind /\ cache[k] # api[k]
    /\ cache' = [k \in Keys |-> IF k[1] = kind THEN api[k] ELSE cache[k]]
    /\ queued' = TRUE
    /\ UNCHANGED <<sbVars, seenVars, api, owner, workerVars, timer, failing, bounds>>

\* The operator stops between two API calls and starts again: it lists
\* everything, and the list of Supabases fills the workqueue.
Restart ==
    /\ crashes < MaxCrashes /\ crashes' = crashes + 1
    /\ pc' = "idle" /\ at' = 1
    /\ my' = NoSupabase /\ base' = NoStatus /\ work' = NoStatus
    /\ pass' = NewPass
    /\ seenSB' = sb /\ seenStatus' = status /\ sbEvent' = FALSE
    /\ cache' = [k \in Keys |-> IF k[1] \in Lagging THEN api[k] ELSE cache[k]]
    /\ queued' = (sb.uid # 0) /\ timer' = FALSE /\ failing' = FALSE
    /\ UNCHANGED <<sb, status, api, owner, faults, edits, lives, deletes>>

-----------------------------------------------------------------------------
(* Users, and the other controllers of the cluster. *)

UserFrame ==
    UNCHANGED <<seenVars, kubeVars, workerVars, queueVars, faults, crashes>>

CreateSupabase ==
    /\ sb.uid = 0 /\ lives < MaxLives /\ lives' = lives + 1
    /\ \E b \in Backups, m \in [Services -> Modes] :
          sb' = [uid |-> lives + 1, gen |-> 1, backup |-> b, mode |-> m]
    /\ status' = NoStatus /\ sbEvent' = TRUE
    /\ UNCHANGED <<edits, deletes>> /\ UserFrame

DeleteSupabase ==
    /\ sb.uid # 0 /\ deletes < MaxDeletes /\ deletes' = deletes + 1
    /\ sb' = NoSupabase /\ status' = NoStatus /\ sbEvent' = TRUE
    /\ UNCHANGED <<edits, lives>> /\ UserFrame

Edited(b, mode) ==
    [uid |-> sb.uid, gen |-> sb.gen + 1, backup |-> b, mode |-> mode]

EditSupabase ==
    /\ sb.uid # 0 /\ edits < MaxEdits /\ edits' = edits + 1
    /\ \/ \E b \in Backups \ {sb.backup} : sb' = Edited(b, sb.mode)
       \/ \E i \in Services : \E m \in Modes \ {sb.mode[i]} :
             sb' = Edited(sb.backup, [sb.mode EXCEPT ![i] = m])
    /\ sbEvent' = TRUE
    /\ UNCHANGED <<status, lives, deletes>> /\ UserFrame

ClusterFrame ==
    UNCHANGED <<sbVars, seenVars, cache, workerVars, timer, failing, edits, lives, deletes, crashes>>

\* The garbage collector deletes an object whose owner is gone, be it that
\* another Supabase has its name by now.
CollectGarbage(k) ==
    /\ api[k] # "absent" /\ owner[k] # 0 /\ owner[k] # sb.uid
    /\ Write([api EXCEPT ![k] = "absent"])
    /\ owner' = [owner EXCEPT ![k] = 0]
    /\ UNCHANGED faults /\ ClusterFrame

\* CNPG, the Gateway controller and the kubelets.
TurnsReady(k) ==
    /\ api[k] = "pending"
    /\ Write([api EXCEPT ![k] = "ready"])
    /\ UNCHANGED <<owner, faults>> /\ ClusterFrame

TurnsUnhealthy(k) ==
    /\ api[k] = "ready" /\ Spend("unhealthy")
    /\ Write([api EXCEPT ![k] = "pending"])
    /\ UNCHANGED owner /\ ClusterFrame

-----------------------------------------------------------------------------
\* The steps of a reconcile that has started.
WorkerStep ==
    \/ preflightChecks
    \/ CNPGCluster
    \/ ScheduledBackup
    \/ Gateway
    \/ ServiceReconcile
    \/ ServiceHealthcheck
    \/ PatchStatus

User == CreateSupabase \/ DeleteSupabase \/ EditSupabase

Cluster ==
    \E k \in Keys : CollectGarbage(k) \/ TurnsReady(k) \/ TurnsUnhealthy(k)

Next ==
    \/ StartReconcile
    \/ WorkerStep
    \/ TimerFires
    \/ DeliverSupabase
    \/ \E kind \in Lagging : Deliver(kind)
    \/ Restart
    \/ User
    \/ Cluster

Spec == Init /\ [][Next]_vars

\* Workers and informers never stop, delays end, the garbage collector works
\* and what was created gets ready.
Fairness ==
    /\ WF_vars(StartReconcile) /\ WF_vars(WorkerStep)
    /\ WF_vars(TimerFires) /\ WF_vars(DeliverSupabase)
    /\ \A kind \in Lagging : WF_vars(Deliver(kind))
    /\ WF_vars(\E k \in Keys : CollectGarbage(k))
    /\ WF_vars(\E k \in Keys : TurnsReady(k))

FairSpec == Spec /\ Fairness
-----------------------------------------------------------------------------
(* Properties. *)

\* Every variable keeps its type.
TypeOK ==
    /\ sb \in Supabases /\ seenSB \in Supabases /\ my \in Supabases
    /\ status \in Statuses /\ seenStatus \in Statuses
    /\ base \in Statuses /\ work \in Statuses
    /\ api \in [Keys -> ObjStates] /\ cache \in [Keys -> ObjStates]
    /\ owner \in [Keys -> Nat]
    /\ pc \in Pcs /\ at \in Services /\ pass \in Passes
    /\ {sbEvent, queued, timer, failing} \subseteq BOOLEAN
    /\ faults \in Nat /\ edits \in Nat
    /\ lives \in Nat /\ deletes \in Nat /\ crashes \in Nat

\* A Supabase has a wakeup coming unless its status says Error: the delays of
\* updateStatus cover every other phase, whatever failed and however old the
\* status was that the phase was merged into.
OnlyErrorIsLeftAlone ==
    sb.uid # 0 /\ status.phase # "Error"
        => queued \/ timer \/ sbEvent \/ pc # "idle"

AllTrue(s) == \A c \in Conds : s.conds[c].reason = "Ready"

\* Nothing is under way and nothing is on its way to the worker.
Quiet ==
    /\ pc = "idle" /\ ~queued /\ ~sbEvent
    /\ \A k \in Keys : View(k) = api[k]

\* What a Supabase says when all is quiet is true, and if the last reconcile
\* returned an error, so that it may not have said it, a retry is coming.  Its
\* phase, flags and conditions tell one story, although each pass sends only
\* what differs from a base that may be old, and a Ready one has its database,
\* gateway and enabled services ready, whatever failed in earlier passes, was
\* edited or broke meanwhile.
QuietStatusIsTrue ==
    Quiet /\ sb.uid # 0 =>
        IF failing THEN timer
        ELSE /\ status.obs = sb.gen
             /\ (status.phase = "Ready") = AllTrue(status)
             /\ status.databaseReady
                   = (status.conds[DatabaseReady].reason = "Ready")
             /\ status.phase = "Ready" =>
                   /\ api[CLUSTER] = "ready" /\ api[GATEWAY] = "ready"
                   /\ \A i \in Services :
                         IsEnabled(sb.mode[i]) => api[Deploy(i)] = "ready"

Wanted == sb.uid # 0 /\ \A i \in Services : sb.mode[i] # "zero"

Up ==
    /\ status.phase = "Ready" /\ status.obs = sb.gen /\ AllTrue(status)
    /\ status.databaseReady /\ status.gatewayReady
    /\ \A i \in Services :
          IsEnabled(sb.mode[i]) => /\ api[Deploy(i)] = "ready"
                                   /\ api[Svc(i)] = "present"
                                   /\ owner[Deploy(i)] = sb.uid

\* A Supabase that users leave alone, with replicas for every enabled service,
\* ends up Ready for good with its enabled services up and its own, not those
\* of a Supabase that had its name before, unless it rests in phase Error.
PlatformConverges ==
    <>[]Wanted /\ []<>(status.phase # "Error") => <>[]Up

\* When the Supabase is deleted for good nothing of it stays, not even what a
\* pass that read it from the cache creates after its deletion.
GarbageIsCollected ==
    <>[](sb.uid = 0) => <>[](\A k \in Keys : api[k] = "absent")

-----------------------------------------------------------------------------
(* What makes OnlyErrorIsLeftAlone inductive.                              *)

\* The cache is current unless an event is on its way.
CacheIsCurrent == ~sbEvent => seenSB = sb /\ seenStatus = status

\* The patch base is the status on the server unless a wakeup is coming: a
\* pass that decides not to requeue an Error has not lost another phase.
BaseIsCurrent == pc # "idle" => base = status \/ sbEvent \/ queued

WakeupInv == CacheIsCurrent /\ BaseIsCurrent /\ OnlyErrorIsLeftAlone

-----------------------------------------------------------------------------
(* What makes QuietStatusIsTrue inductive.                                 *)

ServicePcs == {"config", "deploy", "svc", "svcHealth"}

\* The conditions that the pass has set.
Visited ==
    CASE pc \in {"backup", "backupHealth"} -> {DatabaseReady}
      [] pc \in {"gateway", "gatewayHealth"} -> {DatabaseReady, BackupReady}
      [] pc \in ServicePcs -> Critical \cup {ServiceReady(i) : i \in 1 .. at - 1}
      [] pc = "patch" -> IF pass.criticalFailed THEN Critical ELSE Conds
      [] OTHER -> {}

\* The loop over the services starts with the first, and only when the critical
\* components had no error.
ServicesComeLast ==
    /\ pc \notin ServicePcs \cup {"patch"} => at = 1
    /\ pc \in ServicePcs => ~pass.criticalFailed

\* The phase is derived from flags and the conditions are written beside it:
\* the two agree.
FlagsTellWork ==
    /\ pass.allReady = (\A c \in Visited : isConditionTrue(c))
    /\ pass.hasError => \E c \in Visited : work.conds[c].reason = "Error"
    /\ pass.criticalFailed => pass.hasError

\* What the condition c says when it is True, as the worker sees it.
Backed(c) ==
    /\ c = DatabaseReady => View(CLUSTER) = "ready"
    /\ c = GatewayReady => View(GATEWAY) = "ready"
    /\ \A i \in Services : c = ServiceReady(i) /\ IsEnabled(sb.mode[i])
                              => View(Deploy(i)) = "ready"

\* A pass that nothing has overtaken since it began is about the Supabase and
\* the status of now, and what it found so far still holds.
PassIsTrue ==
    pc # "idle" /\ ~queued /\ ~sbEvent =>
        /\ my = sb /\ base = status
        /\ \A c \in Visited : isConditionTrue(c) => Backed(c)

\* The last pass before all is quiet has failed, and will be retried, or has
\* changed nothing: it has found the status that it would have written.
RestIsTrue ==
    pc = "idle" /\ ~queued /\ ~sbEvent /\ sb.uid # 0 =>
        \/ failing /\ timer
        \/ /\ ~failing
           /\ status.obs = sb.gen
           /\ (status.phase = "Ready") = AllTrue(status)
           /\ status.databaseReady
                 = (status.conds[DatabaseReady].reason = "Ready")
           /\ status.phase = "Ready" => \A c \in Conds : Backed(c)

StatusInv ==
    /\ ServicesComeLast
    /\ FlagsTellWork
    /\ PassIsTrue
    /\ RestIsTrue
=============================================================================
