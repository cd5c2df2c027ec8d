---------------------- MODULE PlatformReconcilerProofs ----------------------
(* Theorems about PlatformReconciler, for every value of its constants. *)
EXTENDS PlatformReconciler, TLAPS

-----------------------------------------------------------------------------
(* Types. *)

\* What Done and Restart reset the worker to is well typed.
LEMMA EmptyTypes ==
    /\ NoSupabase \in Supabases /\ NoStatus \in Statuses
    /\ NewPass \in Passes /\ 1 \in Services
<1>1. NoSupabase \in Supabases
  BY DEF NoSupabase, Supabases, AllModes
<1>2. NoStatus \in Statuses
  BY DEF NoStatus, Statuses, Phases, Conditions
<1>3. NewPass \in Passes
  BY DEF NewPass, Passes
<1>4. 1 \in Services
  BY ServicesAssumption DEF Services
<1> QED
  BY <1>1, <1>2, <1>3, <1>4

\* The names of the objects are keys, the names of the conditions conditions.
LEMMA NameTypes ==
    /\ {CLUSTER, BACKUP, GATEWAY} \subseteq Keys
    /\ {DatabaseReady, BackupReady, GatewayReady} \subseteq Conds
    /\ \A i \in Services : /\ {Config(i), Deploy(i), Svc(i)} \subseteq Keys
                           /\ ServiceReady(i) \in Conds
BY DEF Keys, Conds, Critical

\* The worker's variables are well typed when a pass ends.
LEMMA DoneType ==
    ASSUME TypeOK, NEW err \in BOOLEAN, NEW requeueAfter \in BOOLEAN,
           Done(err, requeueAfter)
    PROVE  /\ timer' \in BOOLEAN /\ failing' \in BOOLEAN
           /\ pc' \in Pcs /\ at' \in Services
           /\ my' \in Supabases /\ base' \in Statuses /\ work' \in Statuses
           /\ pass' \in Passes
BY EmptyTypes DEF Done, TypeOK, Pcs

\* A write keeps the type of the objects and of the workqueue.
LEMMA WriteType ==
    ASSUME TypeOK, NEW new \in [Keys -> ObjStates], Write(new)
    PROVE  api' \in [Keys -> ObjStates] /\ queued' \in BOOLEAN
BY DEF TypeOK, Write, Wakes

\* Spending a failure keeps the type of the count.
LEMMA SpendType ==
    ASSUME TypeOK, NEW out, Spend(out)
    PROVE  faults' \in Nat
BY DEF TypeOK, Spend

\* The merge patch of two statuses is a status.
LEMMA MergedType ==
    ASSUME NEW s \in Statuses, NEW from \in Statuses, NEW to \in Statuses,
           NEW sendConds \in BOOLEAN
    PROVE  Merged(s, from, to, sendConds) \in Statuses
BY DEF Merged, Statuses

\* The initial states are well typed.
LEMMA InitType == Init => TypeOK
<1> SUFFICES ASSUME Init PROVE TypeOK
  OBVIOUS
<1>1. api \in [Keys -> ObjStates] /\ owner \in [Keys -> Nat]
  BY DEF Init, ObjStates
<1> QED
  BY <1>1, EmptyTypes DEF Init, TypeOK, Pcs

\* Taking the key off the workqueue keeps the types.
LEMMA StartReconcileType == TypeOK /\ StartReconcile => TypeOK'
<1> SUFFICES ASSUME TypeOK, StartReconcile PROVE TypeOK'
  OBVIOUS
<1> PICK out \in {"ok", "unread"} :
        /\ Spend(out)
        /\ \/ Done(TRUE, FALSE)
           \/ Done(FALSE, FALSE)
           \/ /\ pc' = "preflight"
              /\ my' = seenSB /\ base' = seenStatus /\ work' = seenStatus
              /\ UNCHANGED <<at, pass, timer, failing>>
  BY DEF StartReconcile
<1>1. faults' \in Nat /\ queued' \in BOOLEAN
  BY SpendType DEF StartReconcile
<1>2. UNCHANGED <<sbVars, seenVars, kubeVars, edits, lives, deletes, crashes>>
  BY DEF StartReconcile
<1>3. CASE Done(TRUE, FALSE)
  BY <1>1, <1>2, <1>3, DoneType DEF TypeOK, sbVars, seenVars, kubeVars
<1>4. CASE Done(FALSE, FALSE)
  BY <1>1, <1>2, <1>4, DoneType DEF TypeOK, sbVars, seenVars, kubeVars
<1>5. CASE /\ pc' = "preflight"
           /\ my' = seenSB /\ base' = seenStatus /\ work' = seenStatus
           /\ UNCHANGED <<at, pass, timer, failing>>
  BY <1>1, <1>2, <1>5 DEF TypeOK, sbVars, seenVars, kubeVars, Pcs
<1> QED
  BY <1>3, <1>4, <1>5

\* Ending a component keeps the types.
LEMMA EndComponentType ==
    ASSUME TypeOK, NEW c \in Conds,
           NEW reason \in {"Ready", "NotReady", "Error"},
           EndComponent(c, reason)
    PROVE  /\ work' \in Statuses /\ pass' \in Passes
           /\ pc' \in Pcs /\ at' \in Services
<1>1. work' \in Statuses
  BY DEF TypeOK, EndComponent, Statuses, Conditions, Supabases
<1>2. pass' \in Passes
  BY DEF TypeOK, EndComponent, Passes
<1>3. pc' \in Pcs /\ at' \in Services
  <2>1. at \in Services /\ (at < NumServices => at + 1 \in Services)
    BY ServicesAssumption DEF TypeOK, Services
  <2>2. CASE c = DatabaseReady
    BY <2>1, <2>2 DEF EndComponent, Pcs, DatabaseReady
  <2>3. CASE c = BackupReady
    BY <2>1, <2>3 DEF EndComponent, Pcs, DatabaseReady, BackupReady
  <2>4. CASE c = GatewayReady
    BY <2>1, <2>4 DEF EndComponent, Pcs, DatabaseReady, BackupReady, GatewayReady
  <2>5. CASE c \notin {DatabaseReady, BackupReady, GatewayReady}
    BY <2>1, <2>5 DEF EndComponent, Pcs
  <2> QED
    BY <2>2, <2>3, <2>4, <2>5
<1> QED
  BY <1>1, <1>2, <1>3

\* A step of a component: what is left to check of it.
LEMMA PassType ==
    ASSUME TypeOK, PassFrame,
           pc' \in Pcs, at' \in Services, work' \in Statuses,
           pass' \in Passes, faults' \in Nat, owner' \in [Keys -> Nat],
           \/ UNCHANGED <<api, queued>>
           \/ \E new \in [Keys -> ObjStates] : Write(new)
    PROVE  TypeOK'
<1>1. api' \in [Keys -> ObjStates] /\ queued' \in BOOLEAN
  <2>1. CASE UNCHANGED <<api, queued>>
    BY <2>1 DEF TypeOK
  <2>2. CASE \E new \in [Keys -> ObjStates] : Write(new)
    BY <2>2, WriteType
  <2> QED
    BY <2>1, <2>2
<1> QED
  BY <1>1 DEF TypeOK, PassFrame, sbVars, seenVars

\* Creating or patching an object keeps the types.
LEMMA ReconcileObjectType ==
    ASSUME TypeOK, NEW k \in Keys, NEW want \in ObjStates, NEW next \in Pcs,
           NEW c \in Conds, ReconcileObject(k, want, next, c)
    PROVE  TypeOK'
<1> DEFINE new == [api EXCEPT ![k] = want]
<1> PICK out \in Outcomes, creates \in BOOLEAN :
        /\ Spend(out)
        /\ \/ /\ Write(new)
              /\ owner' = [owner EXCEPT ![k] = IF creates THEN my.uid ELSE @]
           \/ UNCHANGED <<api, owner, queued>>
        /\ \/ pc' = next /\ UNCHANGED <<work, pass, at>>
           \/ EndComponent(c, "Error")
  BY DEF ReconcileObject
<1>1. PassFrame /\ faults' \in Nat
  BY SpendType DEF ReconcileObject
<1>2. pc' \in Pcs /\ at' \in Services /\ work' \in Statuses /\ pass' \in Passes
  BY EndComponentType DEF TypeOK
<1>3. new \in [Keys -> ObjStates]
  BY DEF TypeOK
<1>4. owner' \in [Keys -> Nat]
  BY DEF TypeOK, Supabases
<1>5. UNCHANGED <<api, queued>> \/ \E n \in [Keys -> ObjStates] : Write(n)
  BY <1>3
<1> QED
  BY <1>1, <1>2, <1>4, <1>5, PassType

\* A health check keeps the types.
LEMMA CheckHealthType ==
    ASSUME TypeOK, NEW healthy, NEW c \in Conds, CheckHealth(healthy, c)
    PROVE  TypeOK'
<1> PICK out \in {"ok", "unread"} :
        /\ Spend(out)
        /\ EndComponent(c, CASE out = "unread" -> "Error"
                             [] out = "ok" /\ healthy -> "Ready"
                             [] OTHER -> "NotReady")
  BY DEF CheckHealth
<1>1. PassFrame /\ UNCHANGED <<api, owner, queued>> /\ faults' \in Nat
  BY SpendType DEF CheckHealth
<1>2. (CASE out = "unread" -> "Error"
         [] out = "ok" /\ healthy -> "Ready"
         [] OTHER -> "NotReady") \in {"Ready", "NotReady", "Error"}
  OBVIOUS
<1>3. pc' \in Pcs /\ at' \in Services /\ work' \in Statuses /\ pass' \in Passes
  BY <1>2, EndComponentType
<1>4. owner' \in [Keys -> Nat]
  BY <1>1 DEF TypeOK
<1> QED
  BY <1>1, <1>3, <1>4, PassType

\* Passing over a component keeps the types.
LEMMA PassOverType ==
    ASSUME TypeOK, NEW c \in Conds, PassOver(c)
    PROVE  TypeOK'
<1>1. PassFrame /\ UNCHANGED <<api, owner, queued, faults>>
  BY DEF PassOver
<1>2. pc' \in Pcs /\ at' \in Services /\ work' \in Statuses /\ pass' \in Passes
  BY EndComponentType DEF PassOver
<1>3. owner' \in [Keys -> Nat] /\ faults' \in Nat
  BY <1>1 DEF TypeOK
<1> QED
  BY <1>1, <1>2, <1>3, PassType

\* The builders make objects.
LEMMA BuilderTypes ==
    /\ {buildCluster, buildScheduledBackup, buildGateway, BuildConfigMap,
        BuildService} \subseteq ObjStates
    /\ \A mode : BuildDeployment(mode) \in ObjStates
BY DEF buildCluster, buildScheduledBackup, buildGateway, BuildConfigMap,
       BuildService, BuildDeployment, Created, ObjStates

\* The critical components keep the types.
LEMMA CriticalType ==
    TypeOK /\ (CNPGCluster \/ ScheduledBackup \/ Gateway) => TypeOK'
<1> SUFFICES ASSUME TypeOK, CNPGCluster \/ ScheduledBackup \/ Gateway
             PROVE  TypeOK'
  OBVIOUS
<1>1. {"clusterHealth", "backupHealth", "gatewayHealth"} \subseteq Pcs
  BY DEF Pcs
<1>2. CASE CNPGCluster
  BY <1>1, <1>2, NameTypes, BuilderTypes, ReconcileObjectType, CheckHealthType
  DEF CNPGCluster
<1>3. CASE ScheduledBackup
  BY <1>1, <1>3, NameTypes, BuilderTypes, ReconcileObjectType, CheckHealthType,
     PassOverType
  DEF ScheduledBackup
<1>4. CASE Gateway
  BY <1>1, <1>4, NameTypes, BuilderTypes, ReconcileObjectType, CheckHealthType
  DEF Gateway
<1> QED
  BY <1>2, <1>3, <1>4

\* The services keep the types.
LEMMA ServiceType ==
    TypeOK /\ (ServiceReconcile \/ ServiceHealthcheck) => TypeOK'
<1> SUFFICES ASSUME TypeOK, ServiceReconcile \/ ServiceHealthcheck
             PROVE  TypeOK'
  OBVIOUS
<1>1. {"deploy", "svc", "svcHealth"} \subseteq Pcs
  BY DEF Pcs
<1>2. /\ {Config(at), Deploy(at), Svc(at)} \subseteq Keys
      /\ ServiceReady(at) \in Conds
  BY NameTypes DEF TypeOK
<1>3. CASE pc = "config" /\ PassOver(ServiceReady(at))
  BY <1>2, <1>3, PassOverType
<1>4. CASE ReconcileObject(Config(at), BuildConfigMap, "deploy",
                           ServiceReady(at))
  BY <1>1, <1>2, <1>4, BuilderTypes, ReconcileObjectType
<1>5. CASE /\ pc' = "deploy"
           /\ UNCHANGED <<api, owner, work, pass, at, queued, faults>>
           /\ PassFrame
  BY <1>1, <1>5 DEF TypeOK, PassFrame, sbVars, seenVars
<1>6. CASE ReconcileObject(Deploy(at), BuildDeployment(my.mode[at]), "svc",
                           ServiceReady(at))
  BY <1>1, <1>2, <1>6, BuilderTypes, ReconcileObjectType
<1>7. CASE ReconcileObject(Svc(at), BuildService, "svcHealth",
                           ServiceReady(at))
  BY <1>1, <1>2, <1>7, BuilderTypes, ReconcileObjectType
<1>8. CASE ServiceHealthcheck
  BY <1>2, <1>8, CheckHealthType DEF ServiceHealthcheck
<1> QED
  BY <1>3, <1>4, <1>5, <1>6, <1>7, <1>8 DEF ServiceReconcile

\* The preflight checks keep the types.
LEMMA PreflightType == TypeOK /\ preflightChecks => TypeOK'
<1> SUFFICES ASSUME TypeOK, preflightChecks PROVE TypeOK'
  OBVIOUS
<1> PICK out \in {"ok", "unread"} :
        Spend(out) /\ pc' = IF out = "ok" THEN "cluster" ELSE "patchError"
  BY DEF preflightChecks
<1>1. faults' \in Nat /\ pc' \in Pcs
  BY SpendType DEF Pcs
<1> QED
  BY <1>1 DEF preflightChecks, TypeOK, PassFrame, sbVars, seenVars

\* derivePhase derives phases.
LEMMA PhaseType == \A p : derivePhase(p) \in Phases
<1> SUFFICES ASSUME NEW p
             PROVE  derivePhase(p) \in {"Error", "Ready", "Degraded", "Provisioning"}
  BY DEF Phases
<1> QED
  BY Zenon DEF derivePhase

\* The status patch keeps the types.
LEMMA updateStatusType ==
    ASSUME TypeOK, NEW to \in Statuses, NEW reconcileErr \in BOOLEAN,
           updateStatus(to, reconcileErr)
    PROVE  TypeOK'
<1> PICK out \in {"ok", "undone", "lost"}, sendConds \in BOOLEAN :
        /\ Spend(out)
        /\ IF sb.uid # 0 /\ out # "undone"
           THEN LET new == Merged(status, base, to, sendConds)
                IN  /\ status' = new
                    /\ sbEvent' = (sbEvent \/ sendConds \/ new # status)
           ELSE UNCHANGED <<status, sbEvent>>
        /\ Done(out # "ok" \/ sb.uid = 0 \/ reconcileErr, to.phase # "Error")
  BY DEF updateStatus
<1>1. faults' \in Nat
  BY SpendType
<1> DEFINE new == Merged(status, base, to, sendConds)
<1>2. status' \in Statuses /\ sbEvent' \in BOOLEAN
  <2>1. new \in Statuses
    BY MergedType DEF TypeOK
  <2>2. CASE /\ status' = new
             /\ sbEvent' = (sbEvent \/ sendConds \/ new # status)
    <3> HIDE DEF new
    <3>1. (sbEvent \/ sendConds \/ new # status) \in BOOLEAN
      OBVIOUS
    <3> QED
      BY <2>1, <2>2, <3>1
  <2>3. CASE UNCHANGED <<status, sbEvent>>
    BY <2>3 DEF TypeOK
  <2> QED
    BY <2>2, <2>3
<1>3. /\ timer' \in BOOLEAN /\ failing' \in BOOLEAN
      /\ pc' \in Pcs /\ at' \in Services
      /\ my' \in Supabases /\ base' \in Statuses /\ work' \in Statuses
      /\ pass' \in Passes
  BY DoneType
<1>4. UNCHANGED <<sb, seenVars, kubeVars, queued, edits, lives, deletes, crashes>>
  BY DEF updateStatus
<1> QED
  BY <1>1, <1>2, <1>3, <1>4 DEF TypeOK, seenVars, kubeVars

\* Both ends of a pass keep the types.
LEMMA PatchStatusType == TypeOK /\ PatchStatus => TypeOK'
<1> SUFFICES ASSUME TypeOK, PatchStatus PROVE TypeOK'
  OBVIOUS
<1>1. [work EXCEPT !.phase = "Error", !.obs = my.gen] \in Statuses
  BY DEF TypeOK, Statuses, Supabases, Phases
<1>2. [work EXCEPT !.phase = derivePhase(pass), !.obs = my.gen,
                   !.databaseReady = isConditionTrue(DatabaseReady),
                   !.gatewayReady = isConditionTrue(GatewayReady)] \in Statuses
  BY PhaseType DEF TypeOK, Statuses, Supabases, isConditionTrue
<1> QED
  BY <1>1, <1>2, updateStatusType DEF PatchStatus

\* The workqueue, the informers and restarts keep the types.
LEMMA QueueType ==
    ASSUME TypeOK,
           \/ TimerFires \/ DeliverSupabase \/ Restart
           \/ \E kind \in Lagging : Deliver(kind)
    PROVE  TypeOK'
<1>1. CASE TimerFires
  BY <1>1
  DEF TimerFires, TypeOK, sbVars, seenVars, kubeVars, workerVars, bounds
<1>2. CASE DeliverSupabase
  BY <1>2 DEF DeliverSupabase, TypeOK, kubeVars, workerVars, bounds
<1>3. CASE \E kind \in Lagging : Deliver(kind)
  <2> PICK kind \in Lagging : Deliver(kind)
    BY <1>3
  <2>1. cache' \in [Keys -> ObjStates] /\ queued' \in BOOLEAN
    BY DEF TypeOK, Deliver
  <2>2. UNCHANGED <<sbVars, seenVars, api, owner, workerVars, timer, failing, bounds>>
    BY DEF Deliver
  <2> QED
    BY <2>1, <2>2 DEF TypeOK, sbVars, seenVars, workerVars, bounds
<1>4. CASE Restart
  <2>1. cache' \in [Keys -> ObjStates] /\ queued' \in BOOLEAN
    <3>1. queued' = (sb.uid # 0)
      BY <1>4 DEF Restart
    <3>2. cache' = [k \in Keys |-> IF k[1] \in Lagging THEN api[k] ELSE cache[k]]
      BY <1>4 DEF Restart
    <3>3. (sb.uid # 0) \in BOOLEAN
      OBVIOUS
    <3>4. cache' \in [Keys -> ObjStates]
      BY <3>2 DEF TypeOK
    <3> QED
      BY <3>1, <3>3, <3>4
  <2>2. /\ timer' \in BOOLEAN /\ failing' \in BOOLEAN
        /\ sbEvent' \in BOOLEAN /\ crashes' \in Nat
        /\ seenSB' \in Supabases /\ seenStatus' \in Statuses
    <3>1. /\ timer' = FALSE /\ failing' = FALSE /\ sbEvent' = FALSE /\ crashes' = crashes + 1
          /\ seenSB' = sb /\ seenStatus' = status
      BY <1>4 DEF Restart
    <3>2. FALSE \in BOOLEAN
      OBVIOUS
    <3>3. crashes + 1 \in Nat /\ sb \in Supabases /\ status \in Statuses
      BY DEF TypeOK
    <3> QED
      BY <3>1, <3>2, <3>3
  <2>3. /\ pc' \in Pcs /\ at' \in Services /\ pass' \in Passes
        /\ my' \in Supabases /\ base' \in Statuses /\ work' \in Statuses
    BY <1>4, EmptyTypes DEF Restart, Pcs
  <2>4. UNCHANGED <<sb, status, api, owner, faults, edits, lives, deletes>>
    BY <1>4 DEF Restart
  <2> QED
    BY <2>1, <2>2, <2>3, <2>4 DEF TypeOK
<1> QED
  BY <1>1, <1>2, <1>3, <1>4

\* Users keep the types.
LEMMA UserType == TypeOK /\ User => TypeOK'
<1> SUFFICES ASSUME TypeOK, User PROVE TypeOK'
  OBVIOUS
<1>1. /\ UNCHANGED <<seenVars, kubeVars, workerVars, queueVars, faults, crashes>>
      /\ edits' \in Nat /\ lives' \in Nat /\ deletes' \in Nat /\ sbEvent'
  BY DEF TypeOK, User, CreateSupabase, DeleteSupabase, EditSupabase, UserFrame
<1>2. status' \in Statuses
  BY EmptyTypes DEF TypeOK, User, CreateSupabase, DeleteSupabase, EditSupabase
<1>3. sb' \in Supabases
  <2>1. CASE CreateSupabase
    <3> PICK b \in Backups, m \in [Services -> Modes] :
            sb' = [uid |-> lives + 1, gen |-> 1, backup |-> b, mode |-> m]
      BY <2>1 DEF CreateSupabase
    <3>1. b \in BOOLEAN /\ m \in [Services -> AllModes]
      BY BackupsAssumption, ModesAssumption
    <3> QED
      BY <3>1 DEF TypeOK, Supabases
  <2>2. CASE DeleteSupabase
    BY <2>2, EmptyTypes DEF DeleteSupabase
  <2>3. CASE EditSupabase
    <3>1. \A b \in BOOLEAN, m \in [Services -> AllModes] :
             Edited(b, m) \in Supabases
      BY DEF TypeOK, Supabases, Edited
    <3>2. sb.backup \in BOOLEAN /\ sb.mode \in [Services -> AllModes]
      BY DEF TypeOK, Supabases
    <3>3. CASE \E b \in Backups \ {sb.backup} : sb' = Edited(b, sb.mode)
      BY <3>1, <3>2, <3>3, BackupsAssumption
    <3>4. CASE \E i \in Services : \E m \in Modes \ {sb.mode[i]} :
                  sb' = Edited(sb.backup, [sb.mode EXCEPT ![i] = m])
      BY <3>1, <3>2, <3>4, ModesAssumption
    <3> QED
      BY <2>3, <3>3, <3>4 DEF EditSupabase
  <2> QED
    BY <2>1, <2>2, <2>3 DEF User
<1> QED
  BY <1>1, <1>2, <1>3 DEF TypeOK, seenVars, kubeVars, workerVars, queueVars

\* The other controllers of the cluster keep the types.
LEMMA ClusterType == TypeOK /\ Cluster => TypeOK'
<1> SUFFICES ASSUME TypeOK, Cluster PROVE TypeOK'
  OBVIOUS
<1> PICK k \in Keys : CollectGarbage(k) \/ TurnsReady(k) \/ TurnsUnhealthy(k)
  BY DEF Cluster
<1>1. PICK s \in ObjStates : Write([api EXCEPT ![k] = s])
  BY DEF CollectGarbage, TurnsReady, TurnsUnhealthy, ObjStates
<1>2. api' \in [Keys -> ObjStates] /\ queued' \in BOOLEAN
  <2>1. [api EXCEPT ![k] = s] \in [Keys -> ObjStates]
    BY DEF TypeOK
  <2> QED
    BY <1>1, <2>1, WriteType
<1>3. owner' \in [Keys -> Nat]
  BY DEF TypeOK, CollectGarbage, TurnsReady, TurnsUnhealthy
<1>4. faults' \in Nat
  BY SpendType DEF TypeOK, CollectGarbage, TurnsReady, TurnsUnhealthy
<1>5. ClusterFrame
  BY DEF CollectGarbage, TurnsReady, TurnsUnhealthy
<1> QED
  BY <1>2, <1>3, <1>4, <1>5 DEF TypeOK, ClusterFrame, sbVars, seenVars, workerVars

\* Every step keeps the types.
LEMMA NextType == TypeOK /\ [Next]_vars => TypeOK'
<1> SUFFICES ASSUME TypeOK, [Next]_vars PROVE TypeOK'
  OBVIOUS
<1>1. CASE StartReconcile
  BY <1>1, StartReconcileType
<1>2. CASE WorkerStep
  BY <1>2, PreflightType, CriticalType, ServiceType, PatchStatusType
  DEF WorkerStep
<1>3. CASE \/ TimerFires \/ DeliverSupabase \/ Restart
           \/ \E kind \in Lagging : Deliver(kind)
  BY <1>3, QueueType
<1>4. CASE User
  BY <1>4, UserType
<1>5. CASE Cluster
  BY <1>5, ClusterType
<1>6. CASE UNCHANGED vars
  BY <1>6
  DEF TypeOK, vars, sbVars, seenVars, kubeVars, workerVars, queueVars, bounds
<1> QED
  BY <1>1, <1>2, <1>3, <1>4, <1>5, <1>6 DEF Next

\* The state of the platform's controller, of its workqueue and of the objects
\* it manages keeps its type in every behaviour.
THEOREM TypeCorrect == Spec => []TypeOK
<1> QED
  BY InitType, NextType, PTL DEF Spec

-----------------------------------------------------------------------------
(* A platform that is not in Error has a wakeup coming. *)

\* The initial states satisfy the invariant.
LEMMA InitWakeupInv == Init => WakeupInv
BY DEF Init, NoSupabase, WakeupInv, CacheIsCurrent, BaseIsCurrent,
       OnlyErrorIsLeftAlone

\* A pass starts from the cache; it stops at once only when the cache has no
\* Supabase, or with a requeue.
LEMMA StartReconcileInv ==
    TypeOK /\ WakeupInv /\ StartReconcile => WakeupInv'
<1> SUFFICES ASSUME TypeOK, WakeupInv, StartReconcile PROVE WakeupInv'
  OBVIOUS
<1>1. UNCHANGED <<sb, status, sbEvent, seenSB, seenStatus>>
  BY DEF StartReconcile, sbVars, seenVars
<1>2. CASE Done(TRUE, FALSE)
  BY <1>1, <1>2
  DEF Done, WakeupInv, CacheIsCurrent, BaseIsCurrent, OnlyErrorIsLeftAlone
<1>3. CASE seenSB.uid = 0 /\ Done(FALSE, FALSE)
  BY <1>1, <1>3
  DEF Done, WakeupInv, CacheIsCurrent, BaseIsCurrent, OnlyErrorIsLeftAlone
<1>4. CASE pc' = "preflight" /\ base' = seenStatus
  BY <1>1, <1>4
  DEF WakeupInv, CacheIsCurrent, BaseIsCurrent, OnlyErrorIsLeftAlone
<1> QED
  BY <1>2, <1>3, <1>4 DEF StartReconcile

\* A step of the pass keeps its base and cancels no wakeup.
LEMMA PassStep ==
    ASSUME WakeupInv, pc # "idle", pc' # "idle",
           UNCHANGED <<sb, status, sbEvent, seenSB, seenStatus, base>>,
           queued => queued'
    PROVE  WakeupInv'
BY DEF WakeupInv, CacheIsCurrent, BaseIsCurrent, OnlyErrorIsLeftAlone

\* What the steps between the first and the last of a pass have in common.
LEMMA WorkKeepsWakeups ==
    TypeOK /\ (\/ preflightChecks \/ CNPGCluster \/ ScheduledBackup \/ Gateway
               \/ ServiceReconcile \/ ServiceHealthcheck)
        => /\ pc # "idle" /\ pc' # "idle"
           /\ UNCHANGED <<sb, status, sbEvent, seenSB, seenStatus, base>>
           /\ queued => queued'
<1> DEFINE Kept == /\ pc' # "idle"
                   /\ UNCHANGED <<sb, status, sbEvent, seenSB, seenStatus, base>>
                   /\ queued => queued'
<1>1. ASSUME NEW c, NEW reason, EndComponent(c, reason) PROVE pc' # "idle"
  <2>1. pc' \in {"backup", "gateway", "patch", "config"}
    <3>1. CASE c = DatabaseReady
      BY <1>1, <3>1 DEF EndComponent, DatabaseReady
    <3>2. CASE c = BackupReady
      BY <1>1, <3>2 DEF EndComponent, DatabaseReady, BackupReady
    <3>3. CASE c = GatewayReady
      BY <1>1, <3>3 DEF EndComponent, DatabaseReady, BackupReady, GatewayReady
    <3>4. CASE c \notin {DatabaseReady, BackupReady, GatewayReady}
      BY <1>1, <3>4 DEF EndComponent
    <3> QED
      BY <3>1, <3>2, <3>3, <3>4
  <2> QED
    BY <2>1
<1>2. ASSUME PassFrame
      PROVE  UNCHANGED <<sb, status, sbEvent, seenSB, seenStatus, base>>
  BY <1>2 DEF PassFrame, sbVars, seenVars
<1>3. ASSUME NEW k, NEW want, NEW next, next # "idle", NEW c,
             ReconcileObject(k, want, next, c)
      PROVE  Kept
  <2>1. PassFrame
    BY <1>3 DEF ReconcileObject
  <2>2. pc' = next \/ EndComponent(c, "Error")
    BY <1>3 DEF ReconcileObject
  <2>3. (\E new : Write(new)) \/ UNCHANGED queued
    BY <1>3 DEF ReconcileObject
  <2>4. queued => queued'
    BY <2>3 DEF Write
  <2> QED
    BY <1>1, <1>2, <1>3, <2>1, <2>2, <2>4
<1>4. ASSUME NEW healthy, NEW c, CheckHealth(healthy, c) PROVE Kept
  <2>1. PassFrame /\ UNCHANGED queued /\ \E reason : EndComponent(c, reason)
    BY <1>4 DEF CheckHealth
  <2> QED
    BY <1>1, <1>2, <2>1
<1>5. ASSUME NEW c, PassOver(c) PROVE Kept
  <2>1. PassFrame /\ UNCHANGED queued /\ EndComponent(c, "Ready")
    BY <1>5 DEF PassOver
  <2> QED
    BY <1>1, <1>2, <2>1
<1> HIDE DEF Kept
<1>6. preflightChecks => Kept
  BY <1>2 DEF preflightChecks, Kept
<1>7. CNPGCluster \/ ScheduledBackup \/ Gateway => Kept
  BY <1>3, <1>4, <1>5 DEF CNPGCluster, ScheduledBackup, Gateway
<1>8. ServiceReconcile => Kept
  <2>1. ASSUME pc' = "deploy", PassFrame,
               UNCHANGED <<api, owner, work, pass, at, queued, faults>>
        PROVE  Kept
    <3>1. pc' # "idle"
      BY <2>1
    <3>2. queued => queued'
      BY <2>1
    <3>3. UNCHANGED <<sb, status, sbEvent, seenSB, seenStatus, base>>
      BY <1>2, <2>1
    <3> QED
      BY <3>1, <3>2, <3>3 DEF Kept
  <2> QED
    BY <1>3, <1>5, <2>1 DEF ServiceReconcile
<1>9. ServiceHealthcheck => Kept
  BY <1>4 DEF ServiceHealthcheck
<1>10. (\/ preflightChecks \/ CNPGCluster \/ ScheduledBackup \/ Gateway
        \/ ServiceReconcile \/ ServiceHealthcheck) => pc # "idle"
  BY DEF preflightChecks, CNPGCluster, ScheduledBackup, Gateway,
         ServiceReconcile, ServiceHealthcheck
<1> QED
  BY <1>6, <1>7, <1>8, <1>9, <1>10 DEF Kept

\* The end of a pass.  When it neither requeues nor meets a wakeup, it wrote
\* phase Error, and its base was the status on the server: the patch left out
\* no phase that the server does not have.
LEMMA PatchStatusInv ==
    TypeOK /\ WakeupInv /\ PatchStatus => WakeupInv'
<1> SUFFICES ASSUME TypeOK, WakeupInv, PatchStatus PROVE WakeupInv'
  OBVIOUS
<1>1. PICK reconcileErr \in BOOLEAN :
          pc # "idle" /\ \E to : updateStatus(to, reconcileErr)
  BY DEF PatchStatus
<1> PICK to : updateStatus(to, reconcileErr)
  BY <1>1
<1> PICK out \in {"ok", "undone", "lost"}, sendConds \in BOOLEAN :
        /\ IF sb.uid # 0 /\ out # "undone"
           THEN LET new == Merged(status, base, to, sendConds)
                IN  /\ status' = new
                    /\ sbEvent' = (sbEvent \/ sendConds \/ new # status)
           ELSE UNCHANGED <<status, sbEvent>>
        /\ Done(out # "ok" \/ sb.uid = 0 \/ reconcileErr, to.phase # "Error")
  BY <1>1 DEF updateStatus
<1> DEFINE again == out # "ok" \/ sb.uid = 0 \/ reconcileErr \/ to.phase # "Error"
<1> DEFINE new == Merged(status, base, to, sendConds)
<1>2. /\ UNCHANGED <<sb, seenSB, seenStatus, queued>>
      /\ pc' = "idle" /\ timer' = (timer \/ again)
  BY <1>1 DEF updateStatus, Done, seenVars
<1>3. \/ UNCHANGED <<status, sbEvent>>
      \/ /\ status' = new
         /\ sbEvent' = (sbEvent \/ sendConds \/ new # status)
  OBVIOUS
<1>4. CacheIsCurrent'
  <2> HIDE DEF new
  <2> QED
    BY <1>2, <1>3 DEF WakeupInv, CacheIsCurrent
<1>5. BaseIsCurrent'
  BY <1>2 DEF BaseIsCurrent
<1>6. OnlyErrorIsLeftAlone'
  <2>1. CASE again
    BY <1>2, <2>1 DEF OnlyErrorIsLeftAlone
  <2>2. CASE ~again
    <3>1. /\ sb.uid # 0 /\ out # "undone" /\ to.phase = "Error"
          /\ status' = new
          /\ sbEvent' = (sbEvent \/ sendConds \/ new # status)
      BY <2>2
    <3>2. CASE base = status
      <4>1. new.phase = "Error"
        BY <3>1, <3>2 DEF Merged
      <4> QED
        BY <3>1, <4>1 DEF OnlyErrorIsLeftAlone
    <3>3. CASE sbEvent \/ queued
      <4> HIDE DEF new
      <4> QED
        BY <1>2, <3>1, <3>3 DEF OnlyErrorIsLeftAlone
    <3> QED
      BY <1>1, <3>2, <3>3 DEF WakeupInv, BaseIsCurrent
  <2> QED
    BY <2>1, <2>2
<1> QED
  BY <1>4, <1>5, <1>6 DEF WakeupInv

\* A step that wakes the worker, or changes nothing that matters.
LEMMA ElsewhereInv ==
    ASSUME WakeupInv, UNCHANGED <<pc, base, timer, seenSB, seenStatus>>,
           queued => queued', sbEvent => sbEvent',
           UNCHANGED <<sb, status>> \/ sbEvent'
    PROVE  WakeupInv'
BY DEF WakeupInv, CacheIsCurrent, BaseIsCurrent, OnlyErrorIsLeftAlone

\* The workqueue, the informers and restarts keep the invariant.
LEMMA QueueInv ==
    ASSUME WakeupInv,
           \/ TimerFires \/ DeliverSupabase \/ Restart
           \/ \E kind \in Lagging : Deliver(kind)
    PROVE  WakeupInv'
<1>1. CASE TimerFires
  BY <1>1
  DEF TimerFires, sbVars, seenVars, workerVars, WakeupInv, CacheIsCurrent,
      BaseIsCurrent, OnlyErrorIsLeftAlone
<1>2. CASE DeliverSupabase
  BY <1>2
  DEF DeliverSupabase, workerVars, WakeupInv, CacheIsCurrent, BaseIsCurrent,
      OnlyErrorIsLeftAlone
<1>3. CASE \E kind \in Lagging : Deliver(kind)
  <2>1. UNCHANGED <<sbVars, seenVars, workerVars, timer>> /\ queued'
    BY <1>3 DEF Deliver
  <2> QED
    BY <2>1, ElsewhereInv DEF sbVars, seenVars, workerVars
<1>4. CASE Restart
  <2>1. /\ pc' = "idle" /\ seenSB' = sb /\ seenStatus' = status
        /\ UNCHANGED <<sb, status>>
    BY <1>4 DEF Restart
  <2>2. sb.uid # 0 => queued'
    BY <1>4 DEF Restart
  <2> QED
    BY <2>1, <2>2
    DEF WakeupInv, CacheIsCurrent, BaseIsCurrent, OnlyErrorIsLeftAlone
<1> QED
  BY <1>1, <1>2, <1>3, <1>4

\* Every step keeps the invariant.
LEMMA NextWakeupInv ==
    TypeOK /\ WakeupInv /\ [Next]_vars => WakeupInv'
<1> SUFFICES ASSUME TypeOK, WakeupInv, [Next]_vars PROVE WakeupInv'
  OBVIOUS
<1>1. CASE StartReconcile
  BY <1>1, StartReconcileInv
<1>2. CASE WorkerStep
  BY <1>2, WorkKeepsWakeups, PassStep, PatchStatusInv DEF WorkerStep
<1>3. CASE \/ TimerFires \/ DeliverSupabase \/ Restart
           \/ \E kind \in Lagging : Deliver(kind)
  BY <1>3, QueueInv
<1>4. CASE User
  <2>1. sbEvent' /\ UNCHANGED <<seenVars, workerVars, queueVars>>
    BY <1>4
    DEF User, CreateSupabase, DeleteSupabase, EditSupabase, UserFrame
  <2> QED
    BY <2>1, ElsewhereInv DEF seenVars, workerVars, queueVars
<1>5. CASE Cluster
  <2> PICK k \in Keys : CollectGarbage(k) \/ TurnsReady(k) \/ TurnsUnhealthy(k)
    BY <1>5 DEF Cluster
  <2>1. UNCHANGED <<sbVars, seenVars, workerVars, timer>>
    BY DEF CollectGarbage, TurnsReady, TurnsUnhealthy, ClusterFrame
  <2>2. \E new : Write(new)
    BY DEF CollectGarbage, TurnsReady, TurnsUnhealthy
  <2>3. queued => queued'
    BY <2>2 DEF Write
  <2> QED
    BY <2>1, <2>3, ElsewhereInv DEF sbVars, seenVars, workerVars
<1>6. CASE UNCHANGED vars
  BY <1>6, ElsewhereInv DEF vars, sbVars, seenVars, workerVars, queueVars
<1> QED
  BY <1>1, <1>2, <1>3, <1>4, <1>5, <1>6 DEF Next

\* The inductive invariant holds: the patch base of a pass is the status on
\* the server, or a wakeup is coming.
THEOREM WakeupInvariant == Spec => []WakeupInv
<1> QED
  BY InitWakeupInv, NextWakeupInv, TypeCorrect, PTL DEF Spec

\* Only a platform in phase Error is ever left without a wakeup, although
\* phases are merged into a status from a base that may be old, calls fail
\* and the operator restarts.
THEOREM PlatformLeftAloneInError == Spec => []OnlyErrorIsLeftAlone
<1>1. WakeupInv => OnlyErrorIsLeftAlone
  BY DEF WakeupInv
<1> QED
  BY <1>1, WakeupInvariant, PTL

=============================================================================
