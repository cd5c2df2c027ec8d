-------------------------- MODULE TenantFleetProofs --------------------------
(* Theorems about TenantFleet, for every value of its constants. *)
EXTENDS TenantFleet, FiniteSetTheorems, TLAPS

-----------------------------------------------------------------------------
(* Types. *)

\* The constant values are of their types.
LEMMA EmptyTypes ==
    /\ NoTenant \in TenantStates /\ NoCounts \in Counts
    /\ NoJob \in Jobs /\ NoDeployment \in Deployments
    /\ NoPassword \in MaybePassword
    /\ \A susp \in BOOLEAN : NewPass(susp) \in Passes
<1>1. (CHOOSE i \in Ids : TRUE) \in Ids
  BY FleetAssumption
<1> QED
  BY <1>1 DEF NoTenant, TenantStates, TenantPhases, NoCounts, Counts, NoJob,
     Jobs, NoDeployment, Deployments, MaybePassword, NewPass, Passes

\* A new password is a password, as long as one is left.
LEMMA GeneratePasswordType ==
    ASSUME ~(Passwords \subseteq InUse)
    PROVE  GeneratePassword \in Passwords
BY DEF GeneratePassword

\* A wakeup queues tenants.
LEMMA WokenType ==
    ASSUME NEW keys \in SUBSET Tenants, NEW i, NEW woken \in Woken(keys, i)
    PROVE  woken \subseteq Tenants
BY DEF Woken, Labelled

\* A count of tenants consists of natural numbers.
LEMMA CountType ==
    ASSUME NEW tenants
    PROVE  Count(tenants) \in Counts
<1> DEFINE present == {t \in Tenants : tenants[t].life # "none"}
           Those(phase) == {t \in present : tenants[t].phase = phase}
<1>1. IsFiniteSet(present)
  BY FleetAssumption, FS_Subset
<1>2. \A phase : IsFiniteSet(Those(phase))
  BY <1>1, FS_Subset
<1> QED
  BY <1>1, <1>2, FS_CardinalityType DEF Count, Counts

\* The steps at the ends of a pass keep the types.
LEMMA ReturnType ==
    ASSUME TypeOK, NEW t \in Tenants, NEW again \in BOOLEAN, Return(t, again)
    PROVE  /\ pc' \in [Tenants -> Pcs] /\ pass' \in [Tenants -> Passes]
           /\ queued' \subseteq Tenants
BY EmptyTypes DEF Return, Goto, TypeOK, Pcs

\* Setting a phase keeps the type of the tenants.
LEMMA SetPhaseType ==
    ASSUME TypeOK, NEW t \in Tenants, NEW phase \in TenantPhases,
           SetPhase(t, phase)
    PROVE  tenant' \in [Tenants -> TenantStates]
BY DEF SetPhase, TypeOK, TenantStates

\* So does a pass that is stopped.
LEMMA StopType ==
    ASSUME TypeOK, NEW t \in Tenants, StopProvisioning(t)
    PROVE  /\ tenant' \in [Tenants -> TenantStates]
           /\ pc' \in [Tenants -> Pcs] /\ pass' \in [Tenants -> Passes]
           /\ queued' \subseteq Tenants
BY SetPhaseType, ReturnType DEF StopProvisioning, TenantPhases

\* And a pass that goes on.
LEMMA GoOnType ==
    ASSUME TypeOK, NEW t \in Tenants, NEW next \in Pcs, GoOn(t, next)
    PROVE  /\ tenant' \in [Tenants -> TenantStates]
           /\ pc' \in [Tenants -> Pcs] /\ queued' \subseteq Tenants
BY DEF GoOn, Goto, TypeOK

\* The tenant ID of a tenant is one.
LEMMA IdType ==
    ASSUME TypeOK, NEW t \in Tenants
    PROVE  Id(t) \in Ids
BY DEF TypeOK, Id, TenantStates

\* The prerequisites keep the types.
LEMMA PrerequisitesType ==
    ASSUME TypeOK, NEW t \in Tenants,
           \/ IgnoreMissing(t) \/ AddFinalizer(t) \/ NamespaceReconcile(t)
           \/ SecretReconcile(t) \/ DatabaseReconcile(t)
    PROVE  TypeOK'
<1> Id(t) \in Ids
  BY IdType
<1>1. CASE IgnoreMissing(t)
  BY <1>1 DEF IgnoreMissing, TypeOK, objects, bounds
<1>2. CASE AddFinalizer(t)
  BY <1>2 DEF AddFinalizer, TypeOK, objects, workerVars, bounds, TenantStates
<1>3. CASE NamespaceReconcile(t)
  <2>1. NewPass(tenant[t].susp) \in Passes
    BY EmptyTypes DEF TypeOK, TenantStates
  <2> QED
    BY <1>3, <2>1 DEF NamespaceReconcile, Goto, ComponentFrame, TypeOK, Pcs,
       bounds
<1>4. CASE SecretReconcile(t)
  <2>1. secret' \in [Ids -> MaybePassword]
    BY <1>4, GeneratePasswordType DEF SecretReconcile, TypeOK, MaybePassword
  <2>2. pass' \in [Tenants -> Passes]
    BY <1>4, GeneratePasswordType, StopType
    DEF SecretReconcile, TypeOK, MaybePassword, Passes
  <2>3. /\ tenant' \in [Tenants -> TenantStates]
        /\ pc' \in [Tenants -> Pcs] /\ queued' \subseteq Tenants
    BY <1>4, StopType, GoOnType DEF SecretReconcile, Pcs
  <2> QED
    BY <1>4, <2>1, <2>2, <2>3 DEF SecretReconcile, ComponentFrame, TypeOK,
       bounds
<1>5. CASE DatabaseReconcile(t)
  <2>1. job' \in [Ids -> Jobs]
    BY <1>5 DEF DatabaseReconcile, TypeOK, Jobs, Passes
  <2>2. /\ tenant' \in [Tenants -> TenantStates]
        /\ pc' \in [Tenants -> Pcs] /\ queued' \subseteq Tenants
        /\ pass' \in [Tenants -> Passes]
    BY <1>5, StopType, GoOnType DEF DatabaseReconcile, Pcs, TypeOK
  <2> QED
    BY <1>5, <2>1, <2>2 DEF DatabaseReconcile, ComponentFrame, TypeOK, bounds
<1> QED
  BY <1>1, <1>2, <1>3, <1>4, <1>5

\* A patched Deployment is one.
LEMMA PatchedType ==
    ASSUME NEW d \in Deployments, NEW p \in Passes, NEW new \in Patched(d, p)
    PROVE  new \in Deployments
<1>1. CASE p.susp
  <2>1. new = [d EXCEPT !.state = "zero", !.runs = NoPassword]
    BY <1>1 DEF Patched
  <2> QED
    BY <2>1, EmptyTypes DEF Deployments
<1>2. CASE ~p.susp /\ d.state = "ready" /\ d.pass = p.pass
  BY <1>2 DEF Patched
<1>3. CASE ~p.susp /\ d.state = "ready" /\ d.pass # p.pass
  <2>1. PICK s \in {"ready", "pending"} :
           new = [d EXCEPT !.state = s, !.pass = p.pass]
    BY <1>3 DEF Patched
  <2> QED
    BY <2>1 DEF Deployments, Passes
<1>4. CASE ~p.susp /\ d.state # "ready"
  <2>1. new = [d EXCEPT !.state = "pending", !.pass = p.pass]
    BY <1>4 DEF Patched
  <2> QED
    BY <2>1 DEF Deployments, Passes
<1> QED
  BY <1>1, <1>2, <1>3, <1>4

\* The service, the route and the gauges keep the types.
LEMMA ServingType ==
    ASSUME TypeOK, NEW t \in Tenants,
           \/ ReconcileDeployment(t) \/ RoutingReconcile(t)
           \/ ListTenants(t) \/ SetGauges(t)
    PROVE  TypeOK'
<1> Id(t) \in Ids
  BY IdType
<1> deploy[Id(t)] \in Deployments /\ pass[t] \in Passes
  BY DEF TypeOK
<1>1. CASE ReconcileDeployment(t)
  <2>1. \A new \in Patched(deploy[Id(t)], pass[t]) : new \in Deployments
    BY PatchedType
  <2>2. BuildDeployment(pass[t]) \in Deployments
    BY EmptyTypes DEF BuildDeployment, Deployments, Passes
  <2>3. deploy' \in [Ids -> Deployments]
    BY <1>1, <2>1, <2>2 DEF ReconcileDeployment, TypeOK
  <2>4. pass' \in [Tenants -> Passes]
    <3>1. CASE StopProvisioning(t)
      BY <3>1, StopType
    <3>2. CASE ~StopProvisioning(t)
      <4>1. PICK fails \in BOOLEAN :
               pass' = [pass EXCEPT ![t].err = fails, ![t].pass = NoPassword]
        BY <1>1, <3>2 DEF ReconcileDeployment
      <4> QED
        BY <4>1, EmptyTypes DEF TypeOK, Passes
    <3> QED
      BY <3>1, <3>2
  <2>5. tenant' \in [Tenants -> TenantStates] /\ pc' \in [Tenants -> Pcs]
    BY <1>1, StopType DEF ReconcileDeployment, Goto, TypeOK, Pcs
  <2>6. queued' \subseteq Tenants
    BY <1>1, StopType, WokenType DEF ReconcileDeployment, TypeOK
  <2> QED
    BY <1>1, <2>3, <2>4, <2>5, <2>6 DEF ReconcileDeployment, ComponentFrame,
       TypeOK, bounds
<1>2. CASE RoutingReconcile(t)
  <2>1. \A p, ready : DerivePhase(p, ready) \in TenantPhases
    BY DEF DerivePhase, TenantPhases
  <2>2. tenant' \in [Tenants -> TenantStates]
    BY <1>2, <2>1, SetPhaseType DEF RoutingReconcile
  <2>3. queued' \subseteq Tenants
    BY <1>2, WokenType DEF RoutingReconcile, TypeOK
  <2>4. pc' \in [Tenants -> Pcs] /\ pass' \in [Tenants -> Passes]
    BY <1>2, EmptyTypes DEF RoutingReconcile, Goto, TypeOK, Pcs
  <2>5. route' \subseteq Ids
    BY <1>2 DEF RoutingReconcile, TypeOK
  <2> QED
    BY <1>2, <2>2, <2>3, <2>4, <2>5 DEF RoutingReconcile, ComponentFrame,
       TypeOK, bounds
<1>3. CASE ListTenants(t)
  <2>1. pass' \in [Tenants -> Passes]
    BY <1>3, CountType DEF ListTenants, TypeOK, Passes
  <2> QED
    BY <1>3, <2>1 DEF ListTenants, Goto, TypeOK, objects, bounds, Pcs
<1>4. CASE SetGauges(t)
  BY <1>4, ReturnType DEF SetGauges, TypeOK, objects, bounds, Passes
<1> QED
  BY <1>1, <1>2, <1>3, <1>4

\* Finalization keeps the types.
LEMMA FinalizeType ==
    ASSUME TypeOK, NEW t \in Tenants,
           \/ FinalizeRouting(t) \/ DatabaseFinalize(t)
           \/ NamespaceFinalize(t) \/ RemoveFinalizer(t)
    PROVE  TypeOK'
<1> Id(t) \in Ids
  BY IdType
<1>1. CASE FinalizeRouting(t)
  <2>1. tenant' \in [Tenants -> TenantStates]
    BY <1>1, SetPhaseType DEF FinalizeRouting, TenantPhases
  <2>2. queued' \subseteq Tenants
    BY <1>1, WokenType DEF FinalizeRouting, TypeOK
  <2> QED
    BY <1>1, <2>1, <2>2 DEF FinalizeRouting, Goto, ComponentFrame, TypeOK,
       bounds, Pcs
<1>2. CASE DatabaseFinalize(t)
  BY <1>2, EmptyTypes
  DEF DatabaseFinalize, GoOn, Goto, ComponentFrame, TypeOK, bounds, Pcs
<1>3. CASE NamespaceFinalize(t)
  <2>1. queued' \subseteq Tenants
    BY <1>3, WokenType DEF NamespaceFinalize, TypeOK
  <2> QED
    BY <1>3, <2>1, EmptyTypes
    DEF NamespaceFinalize, Goto, ComponentFrame, TypeOK, bounds, Pcs
<1>4. CASE RemoveFinalizer(t)
  BY <1>4, ReturnType, EmptyTypes
  DEF RemoveFinalizer, ComponentFrame, TypeOK, objects, bounds
<1> QED
  BY <1>1, <1>2, <1>3, <1>4

\* What users leave alone keeps its type.
LEMMA UserFrameType ==
    ASSUME TypeOK, UserFrame
    PROVE  /\ seen' \in [Tenants -> TenantStates]
           /\ ns' \subseteq Ids /\ route' \subseteq Ids
           /\ roles' \in MaybePassword
           /\ job' \in [Ids -> Jobs] /\ deploy' \in [Ids -> Deployments]
           /\ pc' \in [Tenants -> Pcs] /\ pass' \in [Tenants -> Passes]
           /\ queued' \subseteq Tenants
           /\ gauges' \in Counts
BY DEF UserFrame, workerVars, TypeOK

\* So do the informer, restarts, users and the cluster.
LEMMA SurroundingsType ==
    ASSUME TypeOK,
           \/ \E t \in Tenants : DeliverTenant(t)
           \/ \E i \in Ids : JobEnds(i) \/ PodsAreReady(i)
           \/ Restart \/ User
    PROVE  TypeOK'
<1>1. ASSUME NEW t \in Tenants, DeliverTenant(t) PROVE TypeOK'
  BY <1>1 DEF DeliverTenant, TypeOK, objects, bounds
<1>2. ASSUME NEW i \in Ids, JobEnds(i) PROVE TypeOK'
  BY <1>2 DEF JobEnds, ClusterFrame, TypeOK, Jobs, bounds
<1>3. ASSUME NEW i \in Ids, PodsAreReady(i) PROVE TypeOK'
  <2>1. queued' \subseteq Tenants
    BY <1>3, WokenType DEF PodsAreReady, TypeOK
  <2> QED
    BY <1>3, <2>1 DEF PodsAreReady, ClusterFrame, TypeOK, Deployments, bounds
<1>4. CASE Restart
  <2>1. /\ tenant' \in [Tenants -> TenantStates]
        /\ seen' \in [Tenants -> TenantStates]
        /\ pc' \in [Tenants -> Pcs] /\ queued' \subseteq Tenants
    BY <1>4 DEF Restart, TypeOK, Pcs
  <2>2. pass' \in [Tenants -> Passes] /\ gauges' \in Counts
    BY <1>4, EmptyTypes DEF Restart
  <2>3. lives' \in Nat /\ changes' \in Nat
    BY <1>4 DEF Restart, Change, TypeOK
  <2> QED
    BY <1>4, <2>1, <2>2, <2>3 DEF Restart, TypeOK, objects
<1>5. ASSUME NEW t \in Tenants, CreateTenant(t) PROVE TypeOK'
  <2>1. \A i \in Ids :
           [NoTenant EXCEPT !.life = "new", !.id = i] \in TenantStates
    BY EmptyTypes DEF TenantStates
  <2>2. tenant' \in [Tenants -> TenantStates]
    BY <1>5, <2>1 DEF CreateTenant, TypeOK
  <2>3. lives' \in Nat
    BY <1>5 DEF CreateTenant, TypeOK
  <2> QED
    BY <1>5, <2>2, <2>3, UserFrameType DEF CreateTenant, TypeOK
<1>6. ASSUME NEW t \in Tenants, DeleteTenant(t) PROVE TypeOK'
  <2>1. tenant' \in [Tenants -> TenantStates]
    <3>1. CASE tenant' = [tenant EXCEPT ![t] = NoTenant]
      BY <3>1, EmptyTypes DEF TypeOK
    <3>2. CASE tenant' = [tenant EXCEPT ![t].life = "deleting"]
      BY <3>2 DEF TypeOK, TenantStates
    <3> QED
      BY <1>6, <3>1, <3>2 DEF DeleteTenant
  <2>2. changes' \in Nat
    BY <1>6 DEF DeleteTenant, Change, TypeOK
  <2> QED
    BY <1>6, <2>1, <2>2, UserFrameType DEF DeleteTenant, TypeOK
<1>7. ASSUME NEW t \in Tenants, ToggleSuspended(t) PROVE TypeOK'
  <2>1. tenant' \in [Tenants -> TenantStates]
    <3> DEFINE susp == ~tenant[t].susp
    <3>1. susp \in BOOLEAN
      OBVIOUS
    <3>2. tenant' = [tenant EXCEPT ![t].susp = susp]
      BY <1>7 DEF ToggleSuspended
    <3> HIDE DEF susp
    <3> QED
      BY <3>1, <3>2 DEF TypeOK, TenantStates
  <2>2. changes' \in Nat
    BY <1>7 DEF ToggleSuspended, Change, TypeOK
  <2> QED
    BY <1>7, <2>1, <2>2, UserFrameType DEF ToggleSuspended, TypeOK
<1>8. ASSUME NEW i \in Ids, DeleteSecret(i) PROVE TypeOK'
  BY <1>8, EmptyTypes DEF DeleteSecret, Change, UserFrame, TypeOK, workerVars
<1> QED
  BY <1>1, <1>2, <1>3, <1>4, <1>5, <1>6, <1>7, <1>8 DEF User

\* Every step keeps the types.
LEMMA NextType == TypeOK /\ [Next]_vars => TypeOK'
<1> SUFFICES ASSUME TypeOK, [Next]_vars PROVE TypeOK'
  OBVIOUS
<1>1. ASSUME NEW t \in Tenants, Reconcile(t) PROVE TypeOK'
  BY <1>1, PrerequisitesType, ServingType, FinalizeType DEF Reconcile
<1>2. CASE UNCHANGED vars
  BY <1>2 DEF vars, objects, workerVars, bounds, TypeOK
<1> QED
  BY <1>1, <1>2, SurroundingsType DEF Next

\* Every reachable state of a fleet is well typed: concurrent passes leave
\* numbers in the gauges and passwords in what shares them.
THEOREM TypeCorrect == Spec => []TypeOK
<1>1. Init => TypeOK
  <2> SUFFICES ASSUME Init PROVE TypeOK
    OBVIOUS
  <2>1. /\ tenant \in [Tenants -> TenantStates]
        /\ seen \in [Tenants -> TenantStates]
    BY EmptyTypes DEF Init
  <2>2. /\ secret \in [Ids -> MaybePassword] /\ roles \in MaybePassword
        /\ job \in [Ids -> Jobs] /\ deploy \in [Ids -> Deployments]
    BY EmptyTypes DEF Init
  <2>3. pc \in [Tenants -> Pcs] /\ pass \in [Tenants -> Passes]
    BY EmptyTypes DEF Init, Pcs
  <2> QED
    BY <2>1, <2>2, <2>3, EmptyTypes DEF Init, TypeOK
<1> QED
  BY <1>1, NextType, PTL DEF Spec

-----------------------------------------------------------------------------
(* Nothing is left of a tenant ID that no SupabaseTenant has. *)

\* A step of t's worker that leaves all tenants in place and ends at next.
Stays(t, next) ==
    /\ \A u \in Tenants : /\ tenant'[u].life = tenant[u].life
                          /\ tenant'[u].id = tenant[u].id
                          /\ u # t => pc'[u] = pc[u]
    /\ pc'[t] = next

\* The steps that move a pass along leave all tenants in place.
LEMMA PassStays ==
    ASSUME TypeOK, NEW t \in Tenants, NEW next
    PROVE  /\ Goto(t, next) /\ UNCHANGED tenant => Stays(t, next)
           /\ Goto(t, next) /\ (\E phase : SetPhase(t, phase)) => Stays(t, next)
           /\ GoOn(t, next) => Stays(t, next)
           /\ StopProvisioning(t) => Stays(t, "idle")
<1>1. ASSUME NEW n, Goto(t, n)
      PROVE  \A u \in Tenants : pc'[u] = IF u = t THEN n ELSE pc[u]
  BY <1>1 DEF Goto, TypeOK
<1>2. ASSUME NEW phase, SetPhase(t, phase)
      PROVE  \A u \in Tenants : /\ tenant'[u].life = tenant[u].life
                                /\ tenant'[u].id = tenant[u].id
  BY <1>2 DEF SetPhase, TypeOK, TenantStates
<1> QED
  BY <1>1, <1>2 DEF Stays, GoOn, StopProvisioning, Return

\* What a worker that goes on with its pass changes is its own tenant's, for
\* which it answers: nothing is left over.
LEMMA ReconcileKeepsClaims ==
    ASSUME TypeOK, ClaimInv, NEW t \in Tenants,
           NEW next \in Pcs \ {"finJob", "finNs", "finRemove"},
           Stays(t, next), pc[t] \notin {"finJob", "finNs", "finRemove"},
           tenant[t].life \in {"live", "deleting"},
           \A i \in Ids \ {Id(t)} :
               /\ i \in route' => i \in route
               /\ i \in ns' <=> i \in ns
               /\ job'[i] = job[i] /\ secret'[i] = secret[i]
               /\ deploy'[i] = deploy[i],
           Id(t) \in ns => Id(t) \in ns',
           \/ secret'[Id(t)] # NoPassword \/ deploy'[Id(t)] # NoDeployment
               => Id(t) \in ns'
    PROVE  ClaimInv'
<1>1. WorkersAreJustified'
  BY DEF ClaimInv, WorkersAreJustified, Stays
<1>2. ASSUME NEW i \in Ids,
             NEW gone \in SUBSET {"finJob", "finNs", "finRemove"},
             i = Id(t) \/ \E u \in Tenants : Answers(u, i, gone)
      PROVE  \E u \in Tenants : Answers(u, i, gone)'
  <2>1. CASE i = Id(t)
    <3>1. Answers(t, i, gone)'
      BY <2>1 DEF Answers, Has, Stays, Id
    <3> QED
      BY <3>1
  <2>2. ASSUME NEW u \in Tenants, Answers(u, i, gone)
        PROVE  Answers(u, i, gone)'
    BY <2>2 DEF Answers, Has, Stays
  <2> QED
    BY <1>2, <2>1, <2>2
<1>3. ASSUME NEW i \in Ids
      PROVE  /\ i \in route' => \E u \in Tenants :
                    Answers(u, i, {"finJob", "finNs", "finRemove"})'
             /\ job'[i] # NoJob => \E u \in Tenants :
                    Answers(u, i, {"finNs", "finRemove"})'
             /\ i \in ns' => \E u \in Tenants : Answers(u, i, {"finRemove"})'
  BY <1>2 DEF ClaimInv
<1>4. ASSUME NEW i \in Ids,
             secret'[i] # NoPassword \/ deploy'[i] # NoDeployment
      PROVE  i \in ns'
  <2>1. CASE i = Id(t)
    BY <1>4, <2>1
  <2>2. CASE i # Id(t)
    BY <1>4, <2>2 DEF ClaimInv
  <2> QED
    BY <2>1, <2>2
<1> QED
  BY <1>1, <1>3, <1>4 DEF ClaimInv

\* Nothing is left over by a step that creates nothing, while everybody who
\* answers for something goes on answering for it.
LEMMA OthersKeepClaims ==
    ASSUME ClaimInv, WorkersAreJustified',
           \A u \in Tenants : tenant[u].life \in {"live", "deleting"} =>
               /\ tenant'[u].life \in {"live", "deleting"}
               /\ tenant'[u].id = tenant[u].id
               /\ pc'[u] \in {pc[u], "idle"},
           \A u \in Tenants : tenant[u].life \in
                                  {"none", "new", "live", "deleting"},
           UNCHANGED <<ns, route>>,
           \A i \in Ids :
               /\ job'[i] # NoJob => job[i] # NoJob
               /\ secret'[i] # NoPassword => secret[i] # NoPassword
               /\ deploy'[i] # NoDeployment => deploy[i] # NoDeployment
    PROVE  ClaimInv'
<1>1. ASSUME NEW u \in Tenants, NEW i \in Ids,
             NEW gone \in SUBSET {"finJob", "finNs", "finRemove"},
             Answers(u, i, gone)
      PROVE  Answers(u, i, gone)'
  BY <1>1 DEF Answers, Has
<1>2. ASSUME NEW i \in Ids,
             NEW gone \in SUBSET {"finJob", "finNs", "finRemove"},
             \E u \in Tenants : Answers(u, i, gone)
      PROVE  \E u \in Tenants : Answers(u, i, gone)'
  BY <1>1, <1>2
<1>3. ASSUME NEW i \in Ids
      PROVE  /\ i \in route' => \E u \in Tenants :
                    Answers(u, i, {"finJob", "finNs", "finRemove"})'
             /\ job'[i] # NoJob => \E u \in Tenants :
                    Answers(u, i, {"finNs", "finRemove"})'
             /\ i \in ns' => \E u \in Tenants : Answers(u, i, {"finRemove"})'
  BY <1>2 DEF ClaimInv
<1> QED
  BY <1>3 DEF ClaimInv

\* The passes over tenants that are not deleted, a step at a time.
LEMMA PassKeepsClaims ==
    ASSUME TypeOK, ClaimInv, NEW t \in Tenants,
           \/ NamespaceReconcile(t) \/ SecretReconcile(t)
           \/ DatabaseReconcile(t) \/ ReconcileDeployment(t)
           \/ RoutingReconcile(t) \/ ListTenants(t) \/ SetGauges(t)
    PROVE  ClaimInv'
<1> Id(t) \in Ids
  BY IdType
<1> tenant[t].life \in {"live", "deleting"}
  BY DEF NamespaceReconcile, Starts, SecretReconcile, DatabaseReconcile,
     ReconcileDeployment, RoutingReconcile, ListTenants, SetGauges, ClaimInv,
     WorkersAreJustified
<1> DEFINE others == \A i \in Ids \ {Id(t)} :
               /\ i \in route' => i \in route
               /\ i \in ns' <=> i \in ns
               /\ job'[i] = job[i] /\ secret'[i] = secret[i]
               /\ deploy'[i] = deploy[i]
           covered == secret[Id(t)] # NoPassword \/ deploy[Id(t)] # NoDeployment
                          => Id(t) \in ns
<1>0. covered
  BY DEF ClaimInv
<1>1. CASE NamespaceReconcile(t)
  <2>1. Stays(t, "secret")
    BY <1>1, PassStays DEF NamespaceReconcile
  <2>2. others
    BY <1>1 DEF NamespaceReconcile
  <2> QED
    BY <1>1, <2>1, <2>2, ReconcileKeepsClaims
    DEF NamespaceReconcile, Starts, Pcs
<1>2. CASE SecretReconcile(t)
  <2>1. Stays(t, "job") \/ Stays(t, "idle")
    BY <1>2, PassStays DEF SecretReconcile
  <2>2. others
    BY <1>2 DEF SecretReconcile, TypeOK
  <2>3. secret'[Id(t)] # NoPassword \/ deploy'[Id(t)] # NoDeployment
            => Id(t) \in ns'
    BY <1>0, <1>2 DEF SecretReconcile
  <2> QED
    BY <1>2, <2>1, <2>2, <2>3, ReconcileKeepsClaims DEF SecretReconcile, Pcs
<1>3. CASE DatabaseReconcile(t)
  <2>1. Stays(t, "deploy") \/ Stays(t, "idle")
    BY <1>3, PassStays DEF DatabaseReconcile
  <2>2. others
    BY <1>3 DEF DatabaseReconcile, TypeOK
  <2> QED
    BY <1>0, <1>3, <2>1, <2>2, ReconcileKeepsClaims DEF DatabaseReconcile, Pcs
<1>4. CASE ReconcileDeployment(t)
  <2>1. Stays(t, "route") \/ Stays(t, "idle")
    BY <1>4, PassStays DEF ReconcileDeployment
  <2>2. others
    BY <1>4 DEF ReconcileDeployment, TypeOK
  <2>3. deploy'[Id(t)] # NoDeployment => Id(t) \in ns
    <3>1. CASE deploy[Id(t)] # NoDeployment
      BY <1>0, <3>1
    <3>2. CASE deploy[Id(t)] = NoDeployment /\ Id(t) \notin ns
      <4>1. deploy[Id(t)].state = "absent"
        BY <3>2 DEF NoDeployment
      <4> QED
        BY <1>4, <3>2, <4>1 DEF ReconcileDeployment, TypeOK
    <3> QED
      BY <3>1, <3>2
  <2> QED
    BY <1>0, <1>4, <2>1, <2>2, <2>3, ReconcileKeepsClaims
    DEF ReconcileDeployment, Pcs
<1>5. CASE RoutingReconcile(t)
  <2>1. Stays(t, "list")
    BY <1>5, PassStays DEF RoutingReconcile
  <2>2. others
    BY <1>5 DEF RoutingReconcile
  <2> QED
    BY <1>0, <1>5, <2>1, <2>2, ReconcileKeepsClaims DEF RoutingReconcile, Pcs
<1>6. CASE ListTenants(t) \/ SetGauges(t)
  <2>1. Stays(t, "set") \/ Stays(t, "idle")
    BY <1>6, PassStays DEF ListTenants, SetGauges, Return
  <2>2. others /\ UNCHANGED objects
    BY <1>6 DEF ListTenants, SetGauges, objects
  <2> QED
    BY <1>0, <1>6, <2>1, <2>2, ReconcileKeepsClaims
    DEF ListTenants, SetGauges, objects, Pcs
<1> QED
  BY <1>1, <1>2, <1>3, <1>4, <1>5, <1>6

\* The steps of a finalization: what a tenant no longer answers for is gone,
\* or somebody else has created it again and answers for it.
LEMMA FinalizeKeepsClaims ==
    ASSUME TypeOK, ClaimInv, NEW t \in Tenants,
           \/ FinalizeRouting(t) \/ DatabaseFinalize(t)
           \/ NamespaceFinalize(t) \/ RemoveFinalizer(t)
    PROVE  ClaimInv'
<1> Id(t) \in Ids
  BY IdType
<1> tenant[t].life = "deleting"
  BY DEF FinalizeRouting, Starts, DatabaseFinalize, NamespaceFinalize,
     RemoveFinalizer, ClaimInv, WorkersAreJustified
\* All other tenants answer for what they answered for.
<1> DEFINE othersStay == \A u \in Tenants \ {t} : /\ tenant'[u] = tenant[u]
                                                  /\ pc'[u] = pc[u]
<1>0. ASSUME othersStay, NEW u \in Tenants \ {t}, NEW i \in Ids,
             NEW gone \in SUBSET {"finJob", "finNs", "finRemove"},
             Answers(u, i, gone)
      PROVE  Answers(u, i, gone)'
  BY <1>0 DEF Answers, Has
<1>1. CASE FinalizeRouting(t)
  <2>1. Stays(t, "finJob") /\ othersStay
    BY <1>1, PassStays DEF FinalizeRouting, SetPhase, Goto, TypeOK
  <2>2. WorkersAreJustified'
    BY <2>1 DEF ClaimInv, WorkersAreJustified, Stays
  <2>3. ASSUME NEW i \in Ids, NEW gone \in SUBSET {"finNs", "finRemove"},
               Answers(t, i, gone)
        PROVE  Answers(t, i, gone)'
    BY <2>1, <2>3 DEF Answers, Has, Stays
  <2>4. ASSUME NEW i \in Ids, i \in route'
        PROVE  \E u \in Tenants :
                  Answers(u, i, {"finJob", "finNs", "finRemove"})'
    <3>1. i \in route /\ i # Id(t)
      BY <1>1, <2>4 DEF FinalizeRouting
    <3>2. PICK u \in Tenants : Answers(u, i, {"finJob", "finNs", "finRemove"})
      BY <3>1 DEF ClaimInv
    <3>3. u # t
      BY <3>1, <3>2 DEF Answers, Has, Id
    <3> QED
      BY <1>0, <2>1, <3>2, <3>3
  <2>5. ASSUME NEW i \in Ids, NEW gone \in SUBSET {"finNs", "finRemove"},
               \E u \in Tenants : Answers(u, i, gone)
        PROVE  \E u \in Tenants : Answers(u, i, gone)'
    BY <1>0, <2>1, <2>3, <2>5
  <2>6. ASSUME NEW i \in Ids
        PROVE  /\ job'[i] # NoJob => \E u \in Tenants :
                      Answers(u, i, {"finNs", "finRemove"})'
               /\ i \in ns' => \E u \in Tenants :
                      Answers(u, i, {"finRemove"})'
               /\ secret'[i] # NoPassword \/ deploy'[i] # NoDeployment
                      => i \in ns'
    BY <1>1, <2>5 DEF FinalizeRouting, ClaimInv
  <2> QED
    BY <2>2, <2>4, <2>6 DEF ClaimInv
<1>2. CASE DatabaseFinalize(t)
  <2>1. Stays(t, "finNs") /\ othersStay
    BY <1>2, PassStays DEF DatabaseFinalize, GoOn, Goto, TypeOK
  <2>2. WorkersAreJustified'
    BY <2>1 DEF ClaimInv, WorkersAreJustified, Stays
  <2>3. ASSUME NEW i \in Ids, job'[i] # NoJob
        PROVE  \E u \in Tenants : Answers(u, i, {"finNs", "finRemove"})'
    <3>1. job[i] # NoJob /\ i # Id(t)
      BY <1>2, <2>3 DEF DatabaseFinalize, TypeOK
    <3>2. PICK u \in Tenants : Answers(u, i, {"finNs", "finRemove"})
      BY <3>1 DEF ClaimInv
    <3>3. u # t
      BY <3>1, <3>2 DEF Answers, Has, Id
    <3> QED
      BY <1>0, <2>1, <3>2, <3>3
  <2>4. ASSUME NEW i \in Ids, i \in route'
        PROVE  \E u \in Tenants :
                  Answers(u, i, {"finJob", "finNs", "finRemove"})'
    <3>1. PICK u \in Tenants : Answers(u, i, {"finJob", "finNs", "finRemove"})
      BY <1>2, <2>4 DEF DatabaseFinalize, ClaimInv
    <3>2. u # t
      BY <1>2, <3>1 DEF DatabaseFinalize, Answers
    <3> QED
      BY <1>0, <2>1, <3>1, <3>2
  <2>5. ASSUME NEW i \in Ids, i \in ns'
        PROVE  \E u \in Tenants : Answers(u, i, {"finRemove"})'
    <3>1. PICK u \in Tenants : Answers(u, i, {"finRemove"})
      BY <1>2, <2>5 DEF DatabaseFinalize, ClaimInv
    <3>2. Answers(u, i, {"finRemove"})'
      BY <1>0, <2>1, <3>1 DEF Answers, Has, Stays
    <3> QED
      BY <3>2
  <2>6. \A i \in Ids :
           secret'[i] # NoPassword \/ deploy'[i] # NoDeployment => i \in ns'
    BY <1>2 DEF DatabaseFinalize, ClaimInv
  <2> QED
    BY <2>2, <2>3, <2>4, <2>5, <2>6 DEF ClaimInv
<1>3. CASE NamespaceFinalize(t)
  <2>1. Stays(t, "finRemove") /\ othersStay
    BY <1>3, PassStays DEF NamespaceFinalize, Goto, TypeOK
  <2>2. WorkersAreJustified'
    BY <2>1 DEF ClaimInv, WorkersAreJustified, Stays
  <2>3. ASSUME NEW i \in Ids, i \in ns'
        PROVE  \E u \in Tenants : Answers(u, i, {"finRemove"})'
    <3>1. i \in ns /\ i # Id(t)
      BY <1>3, <2>3 DEF NamespaceFinalize
    <3>2. PICK u \in Tenants : Answers(u, i, {"finRemove"})
      BY <3>1 DEF ClaimInv
    <3>3. u # t
      BY <3>1, <3>2 DEF Answers, Has, Id
    <3> QED
      BY <1>0, <2>1, <3>2, <3>3
  <2>4. ASSUME NEW i \in Ids,
               NEW gone \in SUBSET {"finJob", "finNs", "finRemove"},
               "finNs" \in gone, \E u \in Tenants : Answers(u, i, gone)
        PROVE  \E u \in Tenants : Answers(u, i, gone)'
    <3>1. PICK u \in Tenants : Answers(u, i, gone)
      BY <2>4
    <3>2. u # t
      BY <1>3, <2>4, <3>1 DEF NamespaceFinalize, Answers
    <3> QED
      BY <1>0, <2>1, <3>1, <3>2
  <2>5. ASSUME NEW i \in Ids
        PROVE  /\ i \in route' => \E u \in Tenants :
                      Answers(u, i, {"finJob", "finNs", "finRemove"})'
               /\ job'[i] # NoJob => \E u \in Tenants :
                      Answers(u, i, {"finNs", "finRemove"})'
    BY <1>3, <2>4 DEF NamespaceFinalize, ClaimInv
  <2>6. \A i \in Ids :
           secret'[i] # NoPassword \/ deploy'[i] # NoDeployment => i \in ns'
    BY <1>3 DEF NamespaceFinalize, ClaimInv, TypeOK
  <2> QED
    BY <2>2, <2>3, <2>5, <2>6 DEF ClaimInv
<1>4. CASE RemoveFinalizer(t)
  <2>1. othersStay
    BY <1>4 DEF RemoveFinalizer, Return, Goto, TypeOK
  <2>2. pc'[t] = "idle"
    BY <1>4 DEF RemoveFinalizer, Return, Goto, TypeOK
  <2>3. WorkersAreJustified'
    BY <2>1, <2>2 DEF ClaimInv, WorkersAreJustified
  <2>4. ASSUME NEW i \in Ids,
               NEW gone \in SUBSET {"finJob", "finNs", "finRemove"},
               "finRemove" \in gone, \E u \in Tenants : Answers(u, i, gone)
        PROVE  \E u \in Tenants : Answers(u, i, gone)'
    <3>1. PICK u \in Tenants : Answers(u, i, gone)
      BY <2>4
    <3>2. u # t
      BY <1>4, <2>4, <3>1 DEF RemoveFinalizer, Answers
    <3> QED
      BY <1>0, <2>1, <3>1, <3>2
  <2>5. ASSUME NEW i \in Ids
        PROVE  /\ i \in route' => \E u \in Tenants :
                      Answers(u, i, {"finJob", "finNs", "finRemove"})'
               /\ job'[i] # NoJob => \E u \in Tenants :
                      Answers(u, i, {"finNs", "finRemove"})'
               /\ i \in ns' => \E u \in Tenants :
                      Answers(u, i, {"finRemove"})'
               /\ secret'[i] # NoPassword \/ deploy'[i] # NoDeployment
                      => i \in ns'
    BY <1>4, <2>4 DEF RemoveFinalizer, objects, ClaimInv
  <2> QED
    BY <2>3, <2>5 DEF ClaimInv
<1> QED
  BY <1>1, <1>2, <1>3, <1>4

\* Steps at the beginning of a pass, of the informer, of users and of the
\* cluster, and restarts create nothing that is not answered for.
LEMMA SurroundingsKeepClaims ==
    ASSUME TypeOK, ClaimInv,
           \/ \E t \in Tenants :
                 IgnoreMissing(t) \/ AddFinalizer(t) \/ DeliverTenant(t)
           \/ \E i \in Ids : JobEnds(i) \/ PodsAreReady(i)
           \/ Restart \/ User
    PROVE  ClaimInv'
<1> DEFINE answering == \A u \in Tenants :
               tenant[u].life \in {"live", "deleting"} =>
                   /\ tenant'[u].life \in {"live", "deleting"}
                   /\ tenant'[u].id = tenant[u].id
                   /\ pc'[u] \in {pc[u], "idle"}
           nothingNew ==
               /\ UNCHANGED <<ns, route>>
               /\ \A i \in Ids :
                     /\ job'[i] # NoJob => job[i] # NoJob
                     /\ secret'[i] # NoPassword => secret[i] # NoPassword
                     /\ deploy'[i] # NoDeployment => deploy[i] # NoDeployment
<1> \A u \in Tenants : tenant[u].life \in {"none", "new", "live", "deleting"}
  BY DEF TypeOK, TenantStates
<1>1. ASSUME answering, nothingNew, WorkersAreJustified' PROVE ClaimInv'
  BY <1>1, OthersKeepClaims
<1>2. CASE \E t \in Tenants : IgnoreMissing(t) \/ DeliverTenant(t)
  <2>1. UNCHANGED <<tenant, pc, objects>>
    BY <1>2 DEF IgnoreMissing, DeliverTenant, objects
  <2> QED
    BY <1>1, <2>1 DEF objects, ClaimInv, WorkersAreJustified
<1>3. ASSUME NEW t \in Tenants, AddFinalizer(t) PROVE ClaimInv'
  <2>1. /\ \A u \in Tenants \ {t} : tenant'[u] = tenant[u]
        /\ tenant[t].life = "new" /\ pc[t] = "idle"
        /\ UNCHANGED <<pc, objects>>
    BY <1>3 DEF AddFinalizer, Starts, TypeOK, workerVars
  <2>2. WorkersAreJustified' /\ answering
    BY <2>1 DEF ClaimInv, WorkersAreJustified
  <2> QED
    BY <1>1, <2>1, <2>2 DEF objects
<1>4. CASE \E i \in Ids : JobEnds(i) \/ PodsAreReady(i)
  <2>1. PICK i \in Ids : JobEnds(i) \/ PodsAreReady(i)
    BY <1>4
  <2>2. UNCHANGED <<tenant, pc, ns, route, secret>>
    BY <2>1 DEF JobEnds, PodsAreReady, ClusterFrame
  <2>3. \A k \in Ids : job'[k] # NoJob => job[k] # NoJob
    <3>1. CASE JobEnds(i)
      BY <3>1 DEF JobEnds, NoJob, TypeOK
    <3> QED
      BY <2>1, <3>1 DEF PodsAreReady
  <2>4. \A k \in Ids : deploy'[k] # NoDeployment => deploy[k] # NoDeployment
    <3>1. CASE PodsAreReady(i)
      BY <3>1 DEF PodsAreReady, NoDeployment, TypeOK
    <3> QED
      BY <2>1, <3>1 DEF JobEnds
  <2> QED
    BY <1>1, <2>2, <2>3, <2>4 DEF ClaimInv, WorkersAreJustified
<1>5. CASE Restart
  <2>1. /\ UNCHANGED <<tenant, objects>>
        /\ \A u \in Tenants : pc'[u] = "idle"
    BY <1>5 DEF Restart
  <2>2. WorkersAreJustified'
    BY <2>1 DEF WorkersAreJustified
  <2> QED
    BY <1>1, <2>1, <2>2 DEF objects
<1>6. ASSUME NEW t \in Tenants,
             CreateTenant(t) \/ DeleteTenant(t) \/ ToggleSuspended(t)
      PROVE  ClaimInv'
  <2>1. /\ \A u \in Tenants \ {t} : tenant'[u] = tenant[u]
        /\ UNCHANGED <<pc, ns, route, secret, job, deploy>>
    BY <1>6 DEF CreateTenant, DeleteTenant, ToggleSuspended, UserFrame,
       workerVars, TypeOK
  <2>2. tenant[t].life \in {"live", "deleting"} =>
            /\ tenant[t].life = "deleting" => tenant'[t].life = "deleting"
            /\ tenant'[t].life \in {"live", "deleting"}
            /\ tenant'[t].id = tenant[t].id
    <3>1. tenant[t] \in TenantStates
      BY DEF TypeOK
    <3>2. CASE CreateTenant(t)
      <4>1. tenant[t].life = "none"
        BY <3>2 DEF CreateTenant
      <4> QED
        BY <4>1
    <3>3. CASE DeleteTenant(t)
      <4>1. tenant[t].life \in {"live", "deleting"} =>
                /\ tenant[t].life = "live"
                /\ tenant'[t] = [tenant[t] EXCEPT !.life = "deleting"]
        BY <3>3 DEF DeleteTenant, TypeOK
      <4> QED
        BY <3>1, <4>1 DEF TenantStates
    <3>4. CASE ToggleSuspended(t)
      <4>1. /\ tenant[t].life \in {"new", "live"}
            /\ tenant'[t] = [tenant[t] EXCEPT !.susp = ~tenant[t].susp]
        BY <3>4 DEF ToggleSuspended, TypeOK
      <4> QED
        BY <3>1, <4>1 DEF TenantStates
    <3> QED
      BY <1>6, <3>2, <3>3, <3>4
  <2>3. answering
    BY <2>1, <2>2
  <2>4. WorkersAreJustified'
    BY <2>1, <2>2 DEF ClaimInv, WorkersAreJustified
  <2> QED
    BY <1>1, <2>1, <2>3, <2>4
<1>7. ASSUME NEW i \in Ids, DeleteSecret(i) PROVE ClaimInv'
  <2>1. /\ UNCHANGED <<tenant, pc, ns, route, job, deploy>>
        /\ \A k \in Ids : secret'[k] # NoPassword => secret[k] # NoPassword
    BY <1>7 DEF DeleteSecret, UserFrame, workerVars, TypeOK
  <2> QED
    BY <1>1, <2>1 DEF ClaimInv, WorkersAreJustified
<1> QED
  BY <1>2, <1>3, <1>4, <1>5, <1>6, <1>7 DEF User

\* Every step keeps the claims.
LEMMA NextKeepsClaims == TypeOK /\ ClaimInv /\ [Next]_vars => ClaimInv'
<1> SUFFICES ASSUME TypeOK, ClaimInv, [Next]_vars PROVE ClaimInv'
  OBVIOUS
<1>1. ASSUME NEW t \in Tenants, Reconcile(t) PROVE ClaimInv'
  BY <1>1, PassKeepsClaims, FinalizeKeepsClaims, SurroundingsKeepClaims
  DEF Reconcile
<1>2. CASE UNCHANGED vars
  BY <1>2 DEF vars, objects, workerVars, ClaimInv, WorkersAreJustified,
     Answers, Has
<1> QED
  BY <1>1, <1>2, SurroundingsKeepClaims DEF Next

\* However many tenants share an ID, and whatever their workers do to each
\* other's objects, nothing of a tenant ID outlives the last SupabaseTenant
\* that has it: there is a tenant that answers for each object all the time.
THEOREM NothingIsUnclaimed == Spec => []NothingUnclaimed
<1>1. Init => ClaimInv
  BY DEF Init, ClaimInv, WorkersAreJustified
<1>2. Spec => []ClaimInv
  BY <1>1, TypeCorrect, NextKeepsClaims, PTL DEF Spec
<1>3. TypeOK /\ ClaimInv => NothingUnclaimed
  <2> SUFFICES ASSUME TypeOK, ClaimInv, NEW i \in Ids,
                      \A t \in Tenants : ~Has(t, i)
               PROVE  /\ i \notin ns /\ i \notin route
                      /\ secret[i] = NoPassword /\ job[i] = NoJob
                      /\ deploy[i] = NoDeployment
    BY DEF NothingUnclaimed
  <2>1. \A t \in Tenants : \A gone : ~Answers(t, i, gone)
    BY DEF Answers
  <2> QED
    BY <2>1 DEF ClaimInv
<1> QED
  BY <1>2, <1>3, TypeCorrect, PTL
=============================================================================
