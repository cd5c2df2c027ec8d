# A TLA+ verification of the Supabase operator

The operator turns two custom resources into running Supabase platforms on
Kubernetes:

* a **Supabase** is a platform: a CloudNativePG (CNPG) Postgres cluster, its
  scheduled backups, a Gateway, and shared services (imgproxy, Studio,
  analytics, vector, supavisor);
* a **SupabaseTenant** is a project on a platform: a namespace with secrets, a
  database on the platform's cluster with a Job that initialises it, five
  services (auth, rest, realtime, storage, functions), and an HTTPRoute.

The modules here model the two controllers and every component they drive, with
the parts of Kubernetes they live on, first one tenant and one platform in
detail, then a fleet of tenants and what they share. TLC checks them on small
instances; TLAPS proves the most important invariants, and that the tenant
controller implements an abstract lifecycle, for every instance.

* [1. The system](#1-the-system)
* [2. The modules](#2-the-modules)
* [3. What the runs check](#3-what-the-runs-check)
* [4. Fairness](#4-fairness)
* [5. What is proved](#5-what-is-proved)
* [6. What the code does otherwise than it says](#6-what-the-code-does-otherwise-than-it-says)
* [7. What is not modelled](#7-what-is-not-modelled)
* [8. What could follow](#8-what-could-follow)

Paths below are relative to `src/`.

## 1. The system

### Components

| Component | State it keeps | Operations |
|---|---|---|
| SupabaseTenant controller (`internal/controller/supabasetenant_controller.go`) | none of its own; the tenant's finalizer and status on the API server | `Reconcile`, `reconcileTenantComponent`, `finalize`, `mapByTenantLabel` |
| Tenant prerequisites (`internal/components/tenant/{namespace,secret,database}.go`) | Namespace, NetworkPolicy, two Secrets; CNPG Database, init Job | `Reconcile`, `Healthcheck`, `Finalize` |
| Tenant services (`service_component.go` and five builders) | a Deployment and a Service each | `Reconcile` (with scaling to zero), `Healthcheck` |
| Tenant routing (`routing.go`) | an HTTPRoute in the platform's namespace | `Reconcile`, `Healthcheck`, `Finalize` |
| Supabase controller (`internal/controller/supabase_controller.go`) | none of its own; the platform's status | `Reconcile`, `preflightChecks`, `reconcileComponent`, `updateStatus`, `derivePhase` |
| Platform objects (`internal/components/platform/{cnpg_cluster,backup,gateway}.go`) | Cluster, ScheduledBackup, Gateway | `Reconcile`, `Healthcheck` |
| Platform services (`service_component.go` and five builders) | an optional ConfigMap, a Deployment and a Service each | `Reconcile`, `Healthcheck` |
| Custom resource types (`api/v1alpha1`) | spec and status | – |
| Credentials and init SQL (`internal/credentials`, `internal/database`) | the passwords in a tenant's secrets; the roles of the Postgres cluster | `GeneratePassword`, `ComputeSecretHash`, `CombinedInitSQL` |
| Metrics (`internal/metrics`) | three gauges of the process, a histogram | set at the end of a full tenant pass |
| Resource builders, presets, `cmd/main.go` | none | pure functions, set-up |

### How they interact

There is no shared memory between the two controllers, and in one of them only
the gauges. Everything else goes through the Kubernetes API server:

* A controller has one **workqueue** of keys. A key is queued by an event of the
  resource or of an object its controller watches, by `RequeueAfter`, or by the
  rate-limited retry of an error. Two workers never hold the same key.
* `Get` and `List` read an **informer cache**, which may be arbitrarily behind
  the server. `Create`, `Update`, `Patch` and `Delete` go to the server.
* The tenant controller watches Deployments, Services, Databases and HTTPRoutes
  and maps an event to a tenant by its label; it does **not** watch
  Namespaces, Secrets, Jobs or the parent Supabase, so only timers bring it back
  to those. The platform controller owns and watches each of its kinds.
* A tenant is cleaned up by a **finalizer**. A platform has none: its objects
  carry a controller reference and the **garbage collector** deletes them.
* Status is written with a **merge patch** against the object that was read: it
  contains what differs from that copy, which may be old. It carries no
  resourceVersion, so it never conflicts. The finalizer is written with
  `Update`, which does.
* Up to five workers of the tenant controller run at a time, for different
  tenants. What these share is named after `spec.tenantId`, which nothing keeps
  unique, or belongs to the Postgres cluster, as its roles do.

### What makes it hard

Reads that are old when they are used; writes that fail or whose answer is
lost; a pass that is overtaken by a deletion, a recreation under the same name
or an edit; restarts between two calls; objects that turn unhealthy; events
that never come, because a kind is not watched or because a patch changed
nothing. Tests with a fake client see none of these. PROJECT.json lists each
place where one of them bites.

### What correct means

| Component | It is correct when | Definitions |
|---|---|---|
| Tenant controller | the finalizer is on before anything is created, stays while the tenant is live, and comes off only when everything is cleaned up | `ImplementsLifecycle`, `CreatesUnderFinalizer`, `FinalizerOutlivesDeletion`, `NoOrphans`, `DeletionCompletes` |
| | a tenant that needs work has a wakeup coming | `NeverAbandoned` |
| | a tenant left alone ends up as its spec says, and its status says so truly | `TenantConverges`, `SuspensionConverges`, `ReadyIsDeployed`, `SuspendedIsScaledDown`, `GenerationNeverGoesBack` |
| Tenant database | services start after, and only after, the database is initialised | `ServicesNeedDatabase`, `DeployedAfterInit` |
| Tenants of one platform | nothing is left of a tenant ID that nobody has; namesakes do not keep each other from serving | `NothingUnclaimed`, `FleetConverges` |
| Credentials | pods end up with the password that is in the secret (they do), and so do the roles (they do not) | `FleetConverges`, `ServicesLogIn` |
| Metrics | the gauges end up with the numbers of tenants | `GaugesSettle` |
| Platform controller | a platform that is left alone ends up Ready, on objects of its own | `PlatformConverges` |
| | a status at rest is consistent and true | `QuietStatusIsTrue` |
| | only a platform in phase Error is left without a wakeup | `OnlyErrorIsLeftAlone` |
| Platform components | what they create goes with the platform | `GarbageIsCollected` |

## 2. The modules

| Module | What it is |
|---|---|
| `TenantReconciler` | the tenant controller with its components, for one SupabaseTenant |
| `MCTenantReconciler` | its instances for TLC, initial states further on, and a promise of the documentation that the code breaks |
| `TenantReconcilerProofs` | theorems about it: types, the finalizer, wakeups |
| `TenantHistory` | extends it with two history variables, the reads that mislead the controller, and says what it achieves but for those |
| `MCTenantHistory` | its instances for TLC |
| `TenantLifecycle` | what a tenant is promised, abstractly; `TenantHistory` instantiates it under a refinement mapping |
| `TenantOutcomeProofs` | theorems about both: the database gate, the cleanup, the refinement |
| `TenantStatusProofs` | theorems about both: the init Job, and what a status says |
| `TenantFleet` | several tenants with concurrent workers: namesakes, passwords and roles, gauges |
| `MCTenantFleet` | its instances for TLC, and a promise of the documentation that the code breaks |
| `TenantFleetProofs` | theorems about it |
| `PlatformReconciler` | the Supabase controller with its components, for one Supabase |
| `MCPlatformReconciler` | its instances for TLC, an initial state further on, and promises that the code breaks |
| `PlatformReconcilerProofs` | theorems about it: types, wakeups |
| `PlatformStatusProofs` | more theorems about it: what the status of a platform at rest says |

The two reconcilers have the same frame; `TenantFleet` has a coarser one, described
after it.

**The worker** is a program counter `pc`. A step is one `Get` together with the
write that depends on it, or one health check. Merging the two calls loses
nothing: the `Get` is a cached read and may be as old as the cache allows, so
whatever could happen between the calls can as well happen between the
cache's last update and the step. `my`, `base` and `work` are the resource as
the pass read it, the copy the status patch is computed from, and the status it
edits. `rvOK` says whether the resourceVersion the worker holds is still the
server's, which is all a conflict depends on.

**The API server** is `cr`/`sb` and `status` for the resource, and `api` for every
other object, one state per object (`absent`, `pending`, `ready`, ...). `Creatable`
is what the server asks of a Create: a free name and, inside the tenant's
namespace, a namespace that is not terminating. `owner` is the uid in the
controller reference of a platform's objects.

**The cache** is `seenCR`/`seenSB` with `seenStatus`, current once `crEvent`/`sbEvent`
is delivered, and `cache` for the kinds in `Lagging`. A kind outside `Lagging` is
read without delay; this is a bound, lifted kind by kind by the runs. An
informer that catches up jumps to the newest version: the versions it passes
only wake the worker more often.

**The workqueue** is `queued` and one `timer`. A second delayed add of a key that
has one only brings it earlier. For a platform there is also `failing`, the rate limiter's
count of failures: an error raises it, any other end of a reconcile forgets it. The informers' periodic resync (ten hours by
default) is left out on purpose: it would hide every lost wakeup.

**Failures** are outcomes of a step: `unread` (the Get failed), `undone` (the write was
not done), `lost` (it was done and the answer was lost). `unhealthy` is an object
that turns bad by itself. `MaxFaults` bounds them together.

**Users** create, delete, edit, suspend and resume; for a tenant they also create and
delete the parent. **The cluster** is CNPG, the Job and Deployment controllers, the
namespace controller, the garbage collector: external code, modelled from what
the operator waits for.

Where the model and the code are not obviously the same:

* A condition is its reason and its `ObservedGeneration`. The reason implies the
  Status (`Ready` is True, the others False). Messages are left out, but a message that
  changes sends the list of conditions although no condition did, which matters
  to a merge patch: `sendConds` in `Merged` is that choice.
* The status patch of `finalize` and the Update that follows it return the
  server's object into `tenantCR`. `MarkDeleting` does the same, and that is how a
  recreated tenant can get into the hands of a finalization (`FinalizerOutlivesDeletion`).
* `pgdb` is the tenant's database inside Postgres: it never existed, exists, or is lost. It
  outlives the Database object, whose reclaim policy decides otherwise in CNPG, outside
  `src/`. It does not outlive its parent: the Cluster carries a controller reference to the
  Supabase (`cnpg_cluster.go:101`), so once that is deleted (`ChangeParent`, `orphaned`) the garbage
  collector takes the Cluster and its databases (`ClusterIsCollected`), even if another Supabase has the name
  by then. For that one CNPG creates an empty database, which the init Job, done in the
  earlier Cluster, does not initialise: the gate is open all the same.
* A status patch is an event when it changes anything, a message included: `newMessages` of
  `ApplyPatch`, like `sendConds`, is that choice.
* The content of a terminating namespace disappears when the namespace does.
* A Database whose `Status.Applied` is nil passes the health check
  (`DatabaseHealthy`), as in `database.go`.
* A disabled service and unconfigured backups are passed over: what they had
  stays (`PassOver`), as in the code.
* `RemoveFinalizer` covers both ends of `finalize`, the regular one and the one taken when
  the parent could not be read.
* `Policies` are the deletion policies users ask for. Foreground deletion adds a
  second finalizer (`hold`), so that a tenant can outlive the operator's own.
  Finalizers removed by hand are not modelled.

**`TenantHistory`** adds nothing to the behaviour (`HistoryNext` is `Next` with `Remember`). The code goes by reads that
may be wrong: `finalize` takes a parent, a Database or a Job that it cannot read for one that is not
there (`supabasetenant_controller.go:307`, `database.go:196`), a suspension does so with a Deployment (`service_component.go:41`), and every `Get` is
answered by a cache. `missed` holds the belongings that finalization passed over on such a read, as long as
they are there; `misread` holds, for each generation of the tenant, the kinds of objects that a pass for it
went by and that were not so on the server. The properties then need no assumption on caches or
failures: they say that nothing goes wrong in any *other* way. A tenant that gets the finalizer starts with both
empty, since its own passes answer for what it finds.

**`TenantLifecycle`** has four variables: whether the tenant is absent, live or being
deleted, whether the operator holds it, the belongings that exist and are not on their
way out, and those of them that it has overlooked. The operator may acquire belongings only while it holds
the tenant, give them up only for a tenant that is being deleted (the route excepted, which a suspended
tenant does without), overlook them only then, and let go only of a deleted tenant that owns none any more. What was overlooked
is owned again by the next tenant of the name that it takes hold of. The mapping
(`LifecycleOf` and the `INSTANCE` after it) reads these from `cr`, `api` and `missed`: cache, worker and queue are
implementation.

**`TenantFleet`** has what one tenant cannot show, and leaves out what
`TenantReconciler` has: failing calls, conditions, the parent, old reads of objects. A step
is one write with the reads before it, `pc` and `pass` are functions of the tenant,
and every tenant has a worker. A pass holds its `TenantContext` (`pass[t].pass` is
`DatabasePassword`), from the step that reads the secret to the ones that build
the Job and the pod template. One service stands for five, one secret for two:
`AuthenticatorPassword`, `AuthAdminPassword` and `StorageAdminPassword` of the init SQL are all the
same `DatabasePassword`, as in `buildInitJob`. A key that waits for `RequeueAfter` is simply queued, since a worker may take any
time to come to it. `mapByTenantLabel` wakes one namesake, any of them, as the cache lists
tenants in no fixed order (`Labelled`, `Woken`). The Job's SQL writes the password of roles that the whole cluster
shares (`JobEnds`). A rolling update leaves the old pods ready until the new ones are
(`Patched`, `PodsAreReady`). A pass starts once the cache has the newest version of its tenant,
a bound; the list that the gauges are counted from may be as old as any.

`PROJECT.json` maps every definition to its lines.

## 3. What the runs check

All bounds are constants of the modules and are set in the `.cfg` files.

| Run | Instance | What it shows |
|---|---|---|
| `tenant_cleanup` | 1 service, two lives, a read or write that fails or whose answer is lost | `TypeOK`, `NoOrphans`, `ServicesNeedDatabase`, `FinalizerOutlivesDeletion`, `CreatesUnderFinalizer`, `DeployedAfterInit`, `ImplementsLifecycle` |
| `tenant_suspend` | 2 services, from a tenant that is Ready, Suspended or just gone: any two of a failed read or write, an edit of `spec.suspended`, and a parent that comes or goes, or a recreation; namespaces read from an old cache | `ReadyIsDeployed`, `SuspendedIsScaledDown`, `GenerationNeverGoesBack` |
| `tenant_converges` | fairness, any failure, an init Job that may give up, a restart | `NeverAbandoned`, the invariant `FinalizerInv` of the proofs, `TenantConverges`, `DeletionCompletes` |
| `tenant_resumes` | fairness, from a Ready or Suspended tenant, two edits of `spec.suspended` or the parent, foreground deletion, Deployments read from an old cache | `TenantConverges`, `SuspensionConverges` |
| `platform_status` | an edit of a service or of backups, a failed read or write, a lost answer or an object that turns unhealthy, an old Deployment cache | `TypeOK`, `QuietStatusIsTrue` |
| `platform_converges` | fairness, any two failed calls or lost answers, a restart | `OnlyErrorIsLeftAlone`, `WakeupInv`, `PlatformConverges` |
| `platform_recreate` | fairness, a Ready platform is deleted, perhaps recreated, around a restart | `PlatformConverges`, `GarbageIsCollected` |
| `fleet_converges` | fairness, two namesakes and a third creation, any one deletion, suspension, lost secret or restart | `TypeOK`, `NothingUnclaimed`, `FleetConverges`, `GaugesSettle` |
| `fleet_login` | fairness, one tenant, one deleted secret | violates `ServicesLogIn` |
| `orphan_on_read_error` | one failed read | violates `FinalizerCleansUp` |
| `platform_gives_up` | fairness, two failed writes | violates `PlatformComesUp` |
| `platform_conditions_stay` | one failed write | violates `DownstreamIsUnknown` |

Why these bounds are enough to be interesting:

* **One service** is all a service component can be told apart by; a second only adds
  an iteration of the loop. `tenant_suspend` has two, because a half-finished loop is
  what its properties are about.
* **One failure** at any call is enough to end a pass anywhere; the retry then runs
  without. `platform_converges` and `platform_gives_up` have two, since a platform gives up
  only after two passes that fail alike.
* **Two lives** are a resource, its deletion and a second one under its name. A third
  meets the same leftovers as the second.
* **One restart** at any point; after it the operator is as it was at the start, with
  a cluster in any state. Two restarts of the same pass lead to states that a later
  restart leads to as well.
* **Two namesakes** are what it takes to share every object; the third creation is a
  recreated one. Tenants with IDs of their own share only roles and gauges: the gauges do not
  look at IDs, and the roles are the subject of `fleet_login`, which one tenant violates. There
  are always enough `Passwords` for a new one; `NothingUnclaimed` is proved for any numbers of tenants and IDs.
* **No lag** in `tenant_cleanup`: with failed reads the state space leaves no room for it. All its
  properties are proved for every lag (section 5).
* Runs are split by hazard because the product of all dimensions is out of
  reach; each property runs with the hazards that bear on it. In `platform_*`, `Slow` says
  which objects take time: an object that does not is created ready.
* `tenant_suspend` and `tenant_resumes` start from a tenant at rest, as `TenantConverges` and `SuspensionConverges` leave it, with a parent
  that is there; `GoneStart` is one that has just been finalized, whose terminating namespace and the caches still
  show what it had. `WithinBudget` counts the troubles of a behaviour of `tenant_suspend` together, up to two, a recreation counting
  for two. Each of them meets a pass at any point.
* `platform_recreate` starts from `ReadyInit`, the state that a platform converges to (`Up`, at
  rest, with the five-minute timer pending): from nothing to there is the subject of
  `platform_converges`.

What the properties leave out, deliberately:

* `NoOrphans` and `ImplementsLifecycle` except what finalization passed over on a failed or old read (`missed`). Without the
  exception TLC refutes `NoOrphans` in the same instance; `orphan_on_read_error` is the shortest way there.
* `TenantConverges` leaves out tenants whose init Job has used up its retries: it is never
  recreated, and the tenant stays Provisioning.
* `DeployedAfterInit` is about the Job that exists now, and excepts a pass that went by an old one: a
  cache that still shows the succeeded Job of an earlier life lets services start before
  the new one has run; a database has been there all the same (`ServicesNeedDatabase`).
* `ServicesNeedDatabase` says that a database exists or existed when services start. One that is lost with its parent's
  Cluster takes nothing away from the services; what they then find is in the hazards (`database.go:151`).
* `ReadyIsDeployed` and `SuspendedIsScaledDown` speak of a status with every condition True for the current
  generation, and except passes for that generation that misread (`misread`). Without the exceptions TLC refutes both in the
  instance of `tenant_suspend`: a tenant recreated under its name takes the namespace of
  its earlier life, which the cache shows Active, and the objects in it for its own; a suspension takes a
  Deployment that cannot be read for absent. Other lags have further ways, which the exceptions name and the theorems include: a
  resumption finds replicas in a cached Deployment that has none, and leaves them out of its patch; a
  suspension does not find the Deployment, or the route, that the pass before it created. Each reports what
  the next pass, which a timer brings, corrects (`TenantConverges`, `SuspensionConverges`).
* `ReadyIsDeployed` goes by the phase, `SuspendedIsScaledDown` by the conditions alone: a pass over a suspended
  tenant writes Suspended whatever its components say (`DerivePhase`), so that phase promises
  nothing. Nor does it together with True conditions of any generation. With four edits and one failed write a tenant is
  Suspended at generation 2 with its Deployment running: a Ready
  tenant loses its parent (Error is written), is suspended, gets the parent back, and fails to scale down, which
  ends as Suspended with an error condition; then the parent goes again, and the pass
  works on a cached status from before, in phase Error: its patch leaves the phase out, and sends the list of
  conditions as it was, True ones of generation 1. Their `ObservedGeneration` is what tells.
* `FleetConverges` asks namesakes to agree on `spec.suspended` (`Wanted`): two that do not undo each other's work
  for ever. `GaugesSettle` asks for a living tenant: nobody recounts after the last one has
  gone.
* `QuietStatusIsTrue` excepts a platform whose last reconcile returned an error (`failing`), and then asks for the timer that
  retries it: a status patch that failed leaves the old status in place, and a failed List of the
  preflight writes phase Error beside the conditions of an earlier pass. A component whose reads or writes fail is
  no exception: the pass goes on and says so.
* `PlatformConverges` excludes platforms that rest in phase Error: `platform_gives_up`. It also
  excludes services with `replicas: 0`, which are never healthy.
* `ReadyIsDeployed` does not ask for ready pods: those that fail afterwards are the subject of
  `TenantConverges`.
* `CHECK_DEADLOCK FALSE` everywhere: once users and failures are spent and the resource is gone,
  nothing is left to do.

## 4. Fairness

Weak fairness, only of what the platform guarantees:

* `StartReconcile`, `WorkerStep`, `TimerFires`: controller-runtime keeps its workers running, and a delayed
  add comes due. No client call blocks for ever.
* `DeliverTenant`, `DeliverSupabase`, `Deliver(kind)`: watches are restarted and relist.
* CNPG, Jobs, Deployments, namespaces, Gateways and the garbage collector do what they are asked to
  (`DatabaseIsApplied`, `JobEnds`, `PodsAreReady(i)`, `NamespaceIsGone`, `TurnsReady`, `CollectGarbage`, ...).

In `TenantFleet`: `Reconcile(t)` and `DeliverTenant(t)` for each tenant, since a workqueue serves every key
in the end, `JobEnds(i)` and `PodsAreReady(i)` for each tenant ID.

`ClusterIsCollected` is not among them: no liveness property waits for a database to be lost.
Nothing users do is fair, no failure is, nor is a restart; failures are bounded, as a
system in which calls fail for ever converges to nothing.

## 5. What is proved

The theorems hold for every value of the constants that satisfies the named
assumptions of the modules: at least one service, `Lagging` any set of kinds, the switches
Boolean, the bounds natural numbers. In particular, for any number of services,
failures, edits, lives and restarts, and any caches that lag.

`TenantReconcilerProofs`:

| Theorem | States |
|---|---|
| `TypeCorrect` | `Spec => []TypeOK` |
| `FinalizerInvariant` | `Spec => []FinalizerInv`, the inductive invariant |
| `TenantNeverAbandoned` | `Spec => []NeverAbandoned` |
| `TenantCreatesUnderFinalizer` | `Spec => CreatesUnderFinalizer` |
| `FinalizerStaysOnLive` | `Spec => FinalizerOutlivesDeletion` |

`NeverAbandoned` is not inductive: whether the pass that ends now may end without a requeue
depends on how the tenant it read relates to the one on the server. `FinalizerInv` says
how the three copies of the tenant can differ.
`CopiesAreCurrent`: the cache is current unless an event is pending, the worker's copy when its
resourceVersion is. `FinalizerGoesOnLive`: an Update that adds the finalizer and does not conflict adds
it to a live tenant of which the cache has the newest version. `CacheKnowsFinalizer`: the cached
tenant may be of an earlier life, but if it is live and has the finalizer, the tenant on the
server has it; if it is being deleted, a tenant on the server that has the finalizer is being
deleted too. This is the crux: a recreated tenant cannot have the finalizer before the
cache has seen it, since only a pass that read it puts it on.
`PassesAreJustified`: a pass that provisions does so for a tenant with the finalizer; one that
finalizes, for a tenant that is being deleted or has nothing to lose, and then a
wakeup for it is pending. Each action is one lemma; steps that change nothing the
invariant speaks of share `ProvisionStep`, `CleanUpStep` and `QuietStep`. The action
properties follow from the invariant in one more step: `TenantCreatesUnderFinalizer` shows that only steps with
`pc \in ReconcilePcs` create objects.

`TenantOutcomeProofs`:

| Theorem | States |
|---|---|
| `ServicesAfterDatabase` | `Spec => []ServicesNeedDatabase` |
| `NothingOutlivesTenant` | `HistorySpec => []NoOrphans` |
| `LifecycleIsImplemented` | `HistorySpec => ImplementsLifecycle` |

`ServicesAfterDatabase` is about whether the database has ever been created, which stays so when it is lost with its Cluster
(`DatabaseExisted`): a Job that has succeeded, in the newest cache or in an old one,
proves it, and the worker is past the gate only once it saw such a Job (`DatabaseGate`).

The other two hold for all failures and all lags, with what finalization passes over recorded in `missed`. The
inductive invariant is `CleanupInv`: what finalization has behind it is gone or missed, and stays so
(`CleanedSoFar`); a tenant without the finalizer, and a finalization that has given up on the parent, have nothing
else to clean up; and only what is still there is missed.
It rests on `FinalizerInv`: `PassesAreJustified` is why nothing is created while a finalization
runs. The refinement then has a lemma for each kind of step: a write of one object is `Acquire`, `CleanUp` or a
stutter, a step that passes something over `Overlook`, the finalizer's Updates are `Hold` and `Release`, users' deletions `Delete`, the
end of a foreground deletion `Disappear`.

`TenantStatusProofs`:

| Theorem | States |
|---|---|
| `DeployedOnlyAfterInit` | `HistorySpec => DeployedAfterInit` |
| `TenantGenerationNeverGoesBack` | `Spec => GenerationNeverGoesBack` |
| `TenantReadyIsDeployed` | `HistorySpec => []ReadyIsDeployed` |
| `TenantSuspendedIsScaledDown` | `HistorySpec => []SuspendedIsScaledDown` |

None of them assumes anything of caches or failures: whatever a pass misread for a generation is an exception for that
generation only, and `Sure` says in the invariants which kinds a pass can rely on. Services, and the
route of a Ready tenant, need no exception, whatever the cache shows: an object that is patched is there, one that
is not found is created or the component fails.

*The gate* (`GateIsCurrent`). Past the gate the Job, unless it was misread, is the succeeded one to the end of the pass: only
finalization deletes Jobs, and `PassesAreJustified` keeps it away.

*Generations* (`GenerationInv`, `EditsInv`). A status claims a generation, and so does each condition. What passes
work on is ordered by it: base, status, pass, cached tenant, tenant, each not newer than the next, as long as
the tenant has the finalizer; until it has, its status claims nothing. A pass claims its own generation, or,
when the parent is missing, leaves the claim and the components' conditions as its base had them (`EditsInv`). So a patch never takes a
claim back: an equal claim is not sent, another one is that of a later pass. A pass that is overtaken
by a deletion and a recreation finds a tenant without the finalizer, which `CacheKnowsFinalizer`
and `PassesAreJustified` exclude. This needs no assumption on caches or failures.

*Progress* (`ProgressInv`). What the worker has found up to its program counter still holds: the namespace is there, each
service before `at` was left as the pass wants it (`Served`) or has a failed condition of this
generation, and a disturbance by the cluster or by users does not undo it (`Undisturbed`). From this `PatchInv` says
what a pass is about to write: an error that leaves the components alone, a component that
did not make it, or the truth.

*Statuses* (`ReadyInv`, `SuspendedInv`). Neither property is inductive, because a merge patch mixes passes. A phase is left
out when it equals the base's, and the base may be older than the status. `ReadyInv` adds that a
tenant with phase Ready and the current generation is deployed, or says in a condition that it is not while neither the cached
status nor the base of the pass is in phase Error; the only pass that could send true-looking conditions
and no phase is one whose base is in phase Error. `SuspendedInv` adds that no
copy of the status, in the cache or as a base, claims more than the server's: lists of conditions are sent as a whole, so
an old list may come back.

`TenantFleetProofs`:

| Theorem | States |
|---|---|
| `TypeCorrect` | `Spec => []TypeOK` |
| `NothingIsUnclaimed` | `Spec => []NothingUnclaimed` |

They hold for any finite set of tenants, any set of tenant IDs and any number of creations and changes. When a
namesake finalizes, the other one may recreate behind its back what it has
just deleted; `ClaimInv` names who answers for each object: a tenant with the
finalizer whose own finalization has not yet come to that object. The worker
that creates is such a tenant, and one whose finalization has passed the object
has just deleted it.

`PlatformReconcilerProofs`:

| Theorem | States |
|---|---|
| `TypeCorrect` | `Spec => []TypeOK` |
| `WakeupInvariant` | `Spec => []WakeupInv`, the inductive invariant |
| `PlatformLeftAloneInError` | `Spec => []OnlyErrorIsLeftAlone` |

`updateStatus` decides whether to requeue from the phase it computed; the phase on the server is
what the merge patch makes of it. When the computed phase equals the base's it is not sent,
and the server keeps its own. So the decision is sound only if the base is the server's
status, or a wakeup is pending anyway: `BaseIsCurrent`, which in turn needs `CacheIsCurrent`.

`PlatformStatusProofs`:

| Theorem | States |
|---|---|
| `PlatformStatusIsTrue` | `Spec => []QuietStatusIsTrue` |

Failed calls, lost answers, any lag, edits, restarts, recreations and objects that turn unhealthy are all
included. The inductive invariant is `StatusInv`. `FlagsTellWork`: the flags that the phase is derived
from agree with the conditions that the pass has visited. `PassIsTrue`: a pass that nothing has overtaken, no event and
no queued key, works on the current Supabase with the current status as its base, and what it has
found is so. `RestIsTrue`: when nothing is under way the last reconcile either failed, and its timer is pending, or the last pass was such a one and its patch was
empty, because any patch that changes the status is an event; so the status is the one it computed.

Only model-checked, and why:

* liveness (`TenantConverges`, `SuspensionConverges`, `DeletionCompletes`, `FleetConverges`, `GaugesSettle`,
  `PlatformConverges`, `GarbageIsCollected`): out of the proof
  system's reach;
* the four properties that runs refute: they do not hold;
* that the exceptions of `TenantHistory` are needed: TLC's counterexamples.

Every invariant and every action property that a passing run checks is a theorem.

## 6. What the code does otherwise than it says

1. **A failed read of the parent orphans a tenant** (`orphan_on_read_error`). `finalize` takes every error of
   `Get(Supabase)` for "parent gone" (`supabasetenant_controller.go:307`), removes the finalizer and cleans
   up nothing. The admin guide (line 514) says that deletion cleans up routing, database
   and namespace.
2. **A platform gives up** (`platform_gives_up`). The first pass that ends in Error changes the status, whose event
   starts a second; if that fails alike its patch is empty, `updateStatus` asks for no requeue
   (`supabase_controller.go:268`) as `reconcileErr` is nil, and the Supabase rests in Error although the trouble has passed. The
   admin guide (line 198) tells users to wait for Ready.
3. **Conditions of skipped services stay** (`platform_conditions_stay`). The comment at `supabase_controller.go:161` says
   that they are marked unknown; the code only clears `allReady`.

4. **Rotated secrets lock a tenant out** (`fleet_login`). The admin guide (line 522) has users delete a secret to rotate
   it. The operator regenerates it and restarts the pods with the new password, but the init Job, which alone sets the
   passwords of the database roles, exists and is left alone (`database.go:151`): the roles keep the old one.

Smaller observations, most of them in the hazards of PROJECT.json:

* the condition `Ready` stays False on a healthy tenant; an init Job that has given up is never recreated;
  services with no replicas never get healthy; disabled services stay;
* a Supabase deleted and created again under its name gets an empty database: the init Job of its tenants
  succeeded in the Cluster that was collected and is not run again (`database.go:151`);
* tenants with different passwords take the shared roles from each other: the Job that ends last
  wins (`99-roles.sql:6`, `JobEnds`);
* the init SQL sets no password of the roles `postgres` and `supabase_admin`, which the init Job and some services log in
  as with the tenant's password;
* `tenantId` is documented as unique (admin guide, line 298), and nothing enforces it;
* the gauges keep counting the last tenant after it is deleted (line 475 calls them the number of resources).

## 7. What is not modelled

* **Edits of `tenantId` and `supabaseRef`.** The schema allows them. What the tenant had under its old name
  is then outside every name the code looks at: a model adds nothing to that sentence.
* **Template rendering, JWT signing**: library calls, covered by unit tests. Of the SQL only the roles are
  modelled; `SecretHash` of `password.go` is called by nothing.
* **Pods of the init Job.** It is deleted without a propagation policy, and its pod may run on.
* **Metrics**: the histogram of durations is write-only.
* **Foreground deletion of a platform.** The controller ignores `DeletionTimestamp` and works against the garbage
  collector as long as the Supabase is there; `platform_recreate` has background deletion.
* **Both controllers together.** Of the parent a tenant only reads whether it exists (and constant fields of
  its spec), and a platform does not know its tenants: `ChangeParent` and the
  collection of the parent's Cluster (`ClusterIsCollected`) are all of the composition that the code has.
* **The content of objects**: images, ports, environment, route rules, presets, object names. Pure construction,
  covered by the repository's unit tests; nothing in the control flow reads it back.
* `cmd/main.go`: set-up. Leader election is why there is one worker per key; its hand-over is a `Restart`.
* Generated deep copies.

## 8. What could follow

1. Foreground deletion in `PlatformReconciler`.
2. Runs that combine lagging belongings with lost answers and a second life: `TenantHistory` is proved for all of
   them, but its runs take these one or two at a time.
3. A refinement of `TenantFleet` by two instances of `TenantReconciler` that share an `api`, which would carry failing calls and
   old reads over to namesakes.
