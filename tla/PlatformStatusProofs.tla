------------------------ MODULE PlatformStatusProofs ------------------------
(* The status of a platform at rest is true: theorems about                *)
(* PlatformReconciler, for every value of its constants.                   *)
EXTENDS PlatformReconcilerProofs

-----------------------------------------------------------------------------
(* What the worker sees. *)

\* A write that does not wake the worker changes nothing that it reads.
LEMMA QuietWrite ==
    ASSUME TypeOK, NEW new, Write(new), UNCHANGED cache, ~queued'
    PROVE  \A k \in Keys : View(k)' = View(k)
BY DEF Write, Wakes, View

\* Conditions are different from one another.
LEMMA DistinctConds ==
    /\ DatabaseReady # BackupReady /\ DatabaseReady # GatewayReady
    /\ BackupReady # GatewayReady
    /\ \A i \in Services : ServiceReady(i) \notin Critical
    /\ \A i, j \in Services : ServiceReady(i) = ServiceReady(j) => i = j
BY DEF DatabaseReady, BackupReady, GatewayReady, ServiceReady, Critical

\* What backs a condition lasts while the worker sees the same and the
\* Supabase is not edited.
LEMMA BackedLasts ==
    ASSUME UNCHANGED sb, \A k \in Keys : View(k)' = View(k)
    PROVE  \A c : Backed(c)' <=> Backed(c)
BY NameTypes DEF Backed

-----------------------------------------------------------------------------
(* The flags of a pass and the conditions it sets. *)

\* A pass sets conditions of the platform's components.
LEMMA VisitedConds == TypeOK => Visited \subseteq Conds
<1> SUFFICES ASSUME TypeOK PROVE Visited \subseteq Conds
  OBVIOUS
<1>1. Critical \subseteq Conds
  BY DEF Conds
<1>2. CASE pc \in ServicePcs
  <2>1. Visited = Critical \cup {ServiceReady(i) : i \in 1 .. at - 1}
    BY <1>2 DEF Visited, ServicePcs
  <2>2. 1 .. at - 1 \subseteq Services
    BY ServicesAssumption DEF TypeOK, Services
  <2> QED
    BY <2>1, <2>2 DEF Conds
<1>3. CASE pc = "patch"
  BY <1>1, <1>3 DEF Visited, ServicePcs
<1>4. CASE pc \notin ServicePcs \cup {"patch"}
  <2>1. Visited \in {{}, {DatabaseReady}, {DatabaseReady, BackupReady}}
    BY <1>4, Zenon DEF Visited
  <2> QED
    BY <2>1, NameTypes
<1> QED
  BY <1>2, <1>3, <1>4

\* The condition the worker is about to set.
Current(c) ==
    \/ pc \in {"cluster", "clusterHealth"} /\ c = DatabaseReady
    \/ pc \in {"backup", "backupHealth"} /\ c = BackupReady
    \/ pc \in {"gateway", "gatewayHealth"} /\ c = GatewayReady
    \/ pc \in ServicePcs /\ c = ServiceReady(at)

\* Ending a component visits its condition, once.
LEMMA EndComponentVisits ==
    ASSUME TypeOK, ServicesComeLast, NEW c, Current(c),
           NEW reason \in {"Ready", "NotReady", "Error"},
           EndComponent(c, reason)
    PROVE  /\ Visited' = Visited \cup {c} /\ c \notin Visited
           /\ ServicesComeLast'
           /\ pc' # "idle"
<1> USE DistinctConds
<1>1. CASE c = DatabaseReady
  <2>1. pc' = "backup" /\ at' = at
    BY <1>1 DEF EndComponent
  <2>2. pc \in {"cluster", "clusterHealth"}
    BY <1>1 DEF Current, Critical, TypeOK
  <2> QED
    BY <1>1, <2>1, <2>2 DEF Visited, ServicesComeLast, ServicePcs
<1>2. CASE c = BackupReady
  <2>1. pc' = "gateway" /\ at' = at
    BY <1>2 DEF EndComponent
  <2>2. pc \in {"backup", "backupHealth"}
    BY <1>2 DEF Current, Critical, TypeOK
  <2> QED
    BY <1>2, <2>1, <2>2 DEF Visited, ServicesComeLast, ServicePcs
<1>3. CASE c = GatewayReady
  <2>1. /\ pc' = IF pass'.criticalFailed THEN "patch" ELSE "config"
        /\ at' = at
    BY <1>3 DEF EndComponent
  <2>2. pc \in {"gateway", "gatewayHealth"}
    BY <1>3 DEF Current, Critical, TypeOK
  <2>3. Visited = {DatabaseReady, BackupReady} /\ at = 1
    BY <2>2 DEF Visited, ServicesComeLast, ServicePcs
  <2>4. pass'.criticalFailed \in BOOLEAN
    BY EndComponentType, NameTypes, <1>3 DEF Passes
  <2>5. Visited' = Critical
    <3>1. CASE pass'.criticalFailed
      BY <2>1, <3>1 DEF Visited, ServicePcs
    <3>2. CASE ~pass'.criticalFailed
      <4>1. 1 .. at' - 1 = {}
        BY <2>1, <2>3
      <4>2. pc' \in ServicePcs
        BY <2>1, <3>2 DEF ServicePcs
      <4> QED
        BY <4>1, <4>2 DEF Visited, ServicePcs
    <3> QED
      BY <3>1, <3>2
  <2> QED
    BY <1>3, <2>1, <2>3, <2>4, <2>5 DEF ServicesComeLast, ServicePcs, Critical
<1>4. CASE c = ServiceReady(at) /\ pc \in ServicePcs
  <2>1. at \in Services /\ NumServices \in Nat
    BY ServicesAssumption DEF TypeOK
  <2>2. c \notin Critical
    BY <1>4, <2>1
  <2>3. IF at < NumServices THEN pc' = "config" /\ at' = at + 1
                            ELSE pc' = "patch" /\ at' = at
    BY <2>2 DEF EndComponent, Critical
  <2>4. ~pass'.criticalFailed
    BY <1>4, <2>2 DEF EndComponent, ServicesComeLast, TypeOK, Passes
  <2>5. Visited = Critical \cup {ServiceReady(i) : i \in 1 .. at - 1}
    BY <1>4 DEF Visited, ServicePcs
  <2>6. c \notin Visited
    <3>1. \A i \in 1 .. at - 1 : i \in Services /\ i # at
      BY <2>1 DEF Services
    <3> QED
      BY <1>4, <2>1, <2>2, <2>5, <3>1
  <2>7. 1 .. at = (1 .. at - 1) \cup {at}
    BY <2>1 DEF Services
  <2>8. Visited' = Critical \cup {ServiceReady(i) : i \in 1 .. at}
    <3>1. CASE at < NumServices
      <4>1. pc' \in ServicePcs /\ at' = at + 1
        BY <2>3, <3>1 DEF ServicePcs
      <4>2. 1 .. at' - 1 = 1 .. at
        BY <2>1, <4>1 DEF Services
      <4> QED
        BY <4>1, <4>2 DEF Visited, ServicePcs
    <3>2. CASE ~(at < NumServices)
      <4>1. pc' = "patch" /\ 1 .. at = Services
        BY <2>1, <2>3, <3>2 DEF Services
      <4> QED
        BY <2>4, <4>1 DEF Visited, ServicePcs, Conds
    <3> QED
      BY <3>1, <3>2
  <2> QED
    BY <1>4, <2>3, <2>4, <2>5, <2>6, <2>7, <2>8
    DEF ServicesComeLast, ServicePcs
<1> QED
  BY <1>1, <1>2, <1>3, <1>4 DEF Current

\* Ending a component keeps the flags in step with the conditions.
LEMMA EndComponentFlags ==
    ASSUME TypeOK, ServicesComeLast, FlagsTellWork, NEW c \in Conds,
           Current(c), NEW reason \in {"Ready", "NotReady", "Error"},
           EndComponent(c, reason)
    PROVE  /\ FlagsTellWork'
           /\ \A d \in Conds : work'.conds[d].reason =
                  IF d = c THEN reason ELSE work.conds[d].reason
<1>1. \A d \in Conds : work'.conds[d].reason =
          IF d = c THEN reason ELSE work.conds[d].reason
  BY DEF EndComponent, TypeOK, Statuses
<1>2. /\ pass'.allReady = (pass.allReady /\ reason = "Ready")
      /\ pass'.hasError = (pass.hasError \/ reason = "Error")
      /\ pass'.criticalFailed
            = (pass.criticalFailed \/ (c \in Critical /\ reason = "Error"))
  BY DEF EndComponent, TypeOK, Passes
<1>3. Visited' = Visited \cup {c} /\ c \notin Visited
  BY EndComponentVisits
<1>4. Visited \subseteq Conds
  BY VisitedConds
<1>5. \A d \in Visited : work'.conds[d].reason = work.conds[d].reason
  BY <1>1, <1>3, <1>4
<1>6. (\A d \in Visited' : isConditionTrue(d)')
          = ((\A d \in Visited : isConditionTrue(d)) /\ reason = "Ready")
  BY <1>1, <1>3, <1>5 DEF isConditionTrue
<1>7. pass'.hasError => \E d \in Visited' : work'.conds[d].reason = "Error"
  BY <1>1, <1>2, <1>3, <1>5 DEF FlagsTellWork
<1>8. pass'.allReady = (\A d \in Visited' : isConditionTrue(d)')
  BY <1>2, <1>6 DEF FlagsTellWork
<1>9. pass'.criticalFailed => pass'.hasError
  BY <1>2 DEF FlagsTellWork
<1> QED
  BY <1>1, <1>7, <1>8, <1>9 DEF FlagsTellWork

\* The phase that a full pass derives is Ready when all its conditions are.
LEMMA PhaseAndConditionsAgree ==
    ASSUME TypeOK, FlagsTellWork, pc = "patch"
    PROVE  /\ (derivePhase(pass) = "Ready") = AllTrue(work)
           /\ AllTrue(work) => Visited = Conds
<1>1. Visited = IF pass.criticalFailed THEN Critical ELSE Conds
  BY DEF Visited, ServicePcs
<1>2. pass.allReady => ~pass.hasError
  BY DEF FlagsTellWork, isConditionTrue
<1>3. pass.allReady => Visited = Conds
  BY <1>1, <1>2 DEF FlagsTellWork
<1>4. pass.allReady = AllTrue(work)
  <2>1. Visited \subseteq Conds
    BY <1>1 DEF Conds
  <2> QED
    BY <1>3, <2>1 DEF FlagsTellWork, AllTrue, isConditionTrue, TypeOK, Passes
<1>5. (derivePhase(pass) = "Ready") = pass.allReady
  <2>1. pass.allReady \in BOOLEAN /\ pass.hasError \in BOOLEAN
    BY DEF TypeOK, Passes
  <2>2. CASE pass.allReady
    <3>1. ~(pass.hasError /\ ~pass.dbReady)
      BY <1>2, <2>2
    <3> QED
      BY <2>2, <3>1 DEF derivePhase
  <2>3. CASE ~pass.allReady
    <3>1. derivePhase(pass) \in {"Error", "Degraded", "Provisioning"}
      BY <2>3, Zenon DEF derivePhase
    <3>2. derivePhase(pass) # "Ready"
      BY <3>1
    <3> QED
      BY <2>1, <2>3, <3>2
  <2> QED
    BY <2>1, <2>2, <2>3
<1> QED
  BY <1>3, <1>4, <1>5

-----------------------------------------------------------------------------
(* The steps of a pass. *)

\* The initial states satisfy the invariant.
LEMMA InitStatusInv == Init => StatusInv
<1> SUFFICES ASSUME Init PROVE StatusInv
  OBVIOUS
<1>1. pc = "idle" /\ at = 1 /\ pass = NewPass /\ sb.uid = 0
  BY DEF Init, NoSupabase
<1>2. Visited = {}
  BY <1>1 DEF Visited, ServicePcs
<1> QED
  BY <1>1, <1>2
  DEF StatusInv, ServicesComeLast, FlagsTellWork, PassIsTrue, RestIsTrue,
      ServicePcs, NewPass

\* A pass starts from the newest Supabase and status, or it is overtaken.
LEMMA StartReconcileStatus ==
    ASSUME WakeupInv, StatusInv, StartReconcile
    PROVE  StatusInv'
<1> USE DEF StatusInv, ServicesComeLast, FlagsTellWork, PassIsTrue, RestIsTrue
<1>1. UNCHANGED <<sb, status, sbEvent, seenSB, seenStatus>> /\ pc = "idle"
  BY DEF StartReconcile, sbVars, seenVars
<1>2. Visited = {}
  BY <1>1 DEF Visited, ServicePcs
<1>3. CASE Done(FALSE, FALSE) /\ seenSB.uid = 0
  <2>1. Visited' = {}
    BY <1>3 DEF Done, Visited, ServicePcs
  <2> QED
    BY <1>1, <1>3, <2>1
    DEF Done, NewPass, ServicePcs, WakeupInv, CacheIsCurrent
<1>4. CASE /\ pc' = "preflight"
           /\ my' = seenSB /\ base' = seenStatus
           /\ UNCHANGED <<at, pass>>
  <2>1. Visited' = {}
    BY <1>4 DEF Visited, ServicePcs
  <2> QED
    BY <1>1, <1>2, <1>4, <2>1
    DEF ServicePcs, WakeupInv, CacheIsCurrent
<1>5. CASE Done(TRUE, FALSE)
  <2>1. Visited' = {}
    BY <1>5 DEF Done, Visited, ServicePcs
  <2> QED
    BY <1>5, <2>1 DEF Done, NewPass, ServicePcs
<1> QED
  BY <1>3, <1>4, <1>5 DEF StartReconcile

\* A step that goes on within a component keeps the invariant.
LEMMA GoesOn ==
    ASSUME TypeOK, StatusInv, pc # "idle", PassFrame,
           UNCHANGED <<work, pass, at>>,
           Visited' = Visited, ServicesComeLast',
           pc' # "idle",
           queued => queued',
           ~queued' => \A k \in Keys : View(k)' = View(k)
    PROVE  StatusInv'
<1>1. UNCHANGED <<sb, status, sbEvent, my, base>>
  BY DEF PassFrame, sbVars
<1>2. FlagsTellWork'
  BY DEF StatusInv, FlagsTellWork, isConditionTrue
<1>3. PassIsTrue'
  <2> SUFFICES ASSUME ~queued', ~sbEvent'
               PROVE  /\ my' = sb' /\ base' = status'
                      /\ \A c \in Visited' : isConditionTrue(c)' => Backed(c)'
    BY DEF PassIsTrue
  <2>1. /\ my = sb /\ base = status
        /\ \A c \in Visited : isConditionTrue(c) => Backed(c)
    BY <1>1 DEF StatusInv, PassIsTrue
  <2>2. \A c : Backed(c)' <=> Backed(c)
    BY <1>1, BackedLasts
  <2> QED
    BY <1>1, <2>1, <2>2 DEF isConditionTrue
<1> QED
  BY <1>2, <1>3 DEF StatusInv, RestIsTrue

\* A step that ends a component keeps the invariant, if a condition that it
\* sets to True is backed by what the worker sees.
LEMMA EndsComponent ==
    ASSUME TypeOK, StatusInv, NEW c \in Conds, Current(c), PassFrame,
           NEW reason \in {"Ready", "NotReady", "Error"},
           EndComponent(c, reason),
           queued => queued',
           ~queued' => \A k \in Keys : View(k)' = View(k),
           my = sb /\ reason = "Ready" => Backed(c)
    PROVE  StatusInv'
<1>1. UNCHANGED <<sb, status, sbEvent, my, base>>
  BY DEF PassFrame, sbVars
<1>2. /\ Visited' = Visited \cup {c} /\ c \notin Visited
      /\ ServicesComeLast' /\ pc' # "idle"
  BY EndComponentVisits DEF StatusInv
<1>3. /\ FlagsTellWork'
      /\ \A d \in Conds : work'.conds[d].reason =
             IF d = c THEN reason ELSE work.conds[d].reason
  BY EndComponentFlags DEF StatusInv
<1>4. Visited \subseteq Conds
  BY VisitedConds
<1>5. pc # "idle"
  BY DEF Current, ServicePcs
<1>6. PassIsTrue'
  <2> SUFFICES ASSUME ~queued', ~sbEvent'
               PROVE  /\ my' = sb' /\ base' = status'
                      /\ \A d \in Visited' : isConditionTrue(d)' => Backed(d)'
    BY DEF PassIsTrue
  <2>1. /\ my = sb /\ base = status
        /\ \A d \in Visited : isConditionTrue(d) => Backed(d)
    BY <1>1, <1>5 DEF StatusInv, PassIsTrue
  <2>2. \A d : Backed(d)' <=> Backed(d)
    BY <1>1, BackedLasts
  <2>3. reason = "Ready" => Backed(c)
    BY <2>1
  <2>4. \A d \in Visited' : isConditionTrue(d)' => Backed(d)
    BY <1>2, <1>3, <1>4, <2>1, <2>3 DEF isConditionTrue
  <2> QED
    BY <1>1, <2>1, <2>2, <2>4
<1> QED
  BY <1>2, <1>3, <1>6 DEF StatusInv, RestIsTrue

\* Creating or patching an object wakes the worker, or changes nothing that it
\* sees; it sets no condition to True.
LEMMA ReconcileObjectStatus ==
    ASSUME TypeOK, StatusInv, NEW k \in Keys, NEW want \in ObjStates,
           NEW next \in Pcs, NEW c \in Conds, Current(c),
           ReconcileObject(k, want, next, c),
           pc' = next => Visited' = Visited /\ (at' = at => ServicesComeLast'),
           next # "idle"
    PROVE  StatusInv'
<1>1. PassFrame /\ UNCHANGED cache
  BY DEF ReconcileObject, PassFrame
<1>2. (\E new : Write(new)) \/ UNCHANGED <<api, queued>>
  BY DEF ReconcileObject
<1>3. queued => queued'
  BY <1>2 DEF Write
<1>4. ~queued' => \A o \in Keys : View(o)' = View(o)
  <2>1. CASE UNCHANGED api
    BY <1>1, <2>1 DEF View
  <2> QED
    BY <1>1, <1>2, <2>1, QuietWrite
<1>5. pc # "idle"
  BY DEF Current, ServicePcs
<1>6. CASE pc' = next /\ UNCHANGED <<work, pass, at>>
  BY <1>1, <1>3, <1>4, <1>5, <1>6, GoesOn
<1>7. CASE EndComponent(c, "Error")
  BY <1>1, <1>3, <1>4, <1>7, EndsComponent
<1> QED
  BY <1>6, <1>7 DEF ReconcileObject

\* A health check sets a condition to True when what it saw backs it.
LEMMA CheckHealthStatus ==
    ASSUME TypeOK, StatusInv, NEW healthy, NEW c \in Conds, Current(c),
           CheckHealth(healthy, c), healthy => Backed(c)
    PROVE  StatusInv'
<1>1. PassFrame /\ UNCHANGED <<api, cache, queued>>
  BY DEF CheckHealth, PassFrame
<1>2. \A o \in Keys : View(o)' = View(o)
  BY <1>1 DEF View
<1>3. PICK out \in {"ok", "unread"} :
          EndComponent(c, CASE out = "unread" -> "Error"
                            [] out = "ok" /\ healthy -> "Ready"
                            [] OTHER -> "NotReady")
  BY DEF CheckHealth
<1> DEFINE reason == CASE out = "unread" -> "Error"
                       [] out = "ok" /\ healthy -> "Ready"
                       [] OTHER -> "NotReady"
<1>4. reason \in {"Ready", "NotReady", "Error"}
  OBVIOUS
<1>5. reason = "Ready" => healthy
  OBVIOUS
<1> HIDE DEF reason
<1>6. EndComponent(c, reason)
  BY <1>3 DEF reason
<1> QED
  BY <1>1, <1>2, <1>4, <1>5, <1>6, EndsComponent

\* A component that is passed over makes its condition True, which nothing
\* needs to back.
LEMMA PassOverStatus ==
    ASSUME TypeOK, StatusInv, NEW c \in Conds, Current(c), PassOver(c),
           my = sb => Backed(c)
    PROVE  StatusInv'
<1>1. PassFrame /\ UNCHANGED <<api, cache, queued>>
  BY DEF PassOver, PassFrame
<1>2. \A o \in Keys : View(o)' = View(o)
  BY <1>1 DEF View
<1>3. EndComponent(c, "Ready")
  BY DEF PassOver
<1> QED
  BY <1>1, <1>2, <1>3, EndsComponent

\* The critical components keep the invariant.
LEMMA CriticalStatus ==
    ASSUME TypeOK, StatusInv, CNPGCluster \/ ScheduledBackup \/ Gateway
    PROVE  StatusInv'
<1> USE NameTypes, BuilderTypes, DistinctConds
<1>1. {"clusterHealth", "backupHealth", "gatewayHealth"} \subseteq Pcs
  BY DEF Pcs
<1>2. \A c : Backed(c) = (/\ c = DatabaseReady => View(CLUSTER) = "ready"
                          /\ c = GatewayReady => View(GATEWAY) = "ready"
                          /\ \A i \in Services :
                                c = ServiceReady(i) /\ IsEnabled(sb.mode[i])
                                    => View(Deploy(i)) = "ready")
  BY DEF Backed
<1>3. Backed(BackupReady)
  BY <1>2 DEF Critical
<1>4. (View(CLUSTER) = "ready") => Backed(DatabaseReady)
  BY <1>2 DEF Critical
<1>5. (View(GATEWAY) = "ready") => Backed(GatewayReady)
  BY <1>2 DEF Critical
<1>6. CASE CNPGCluster
  <2>1. CASE pc = "cluster"
    <3>1. pc' = "clusterHealth" =>
              Visited' = Visited /\ (at' = at => ServicesComeLast')
      BY <2>1 DEF Visited, ServicePcs, ServicesComeLast, StatusInv
    <3>2. Current(DatabaseReady)
      BY <2>1 DEF Current
    <3> QED
      BY <1>1, <1>6, <2>1, <3>1, <3>2, ReconcileObjectStatus DEF CNPGCluster
  <2>2. CASE pc = "clusterHealth"
    BY <1>4, <1>6, <2>2, CheckHealthStatus DEF CNPGCluster, Current
  <2> QED
    BY <1>6, <2>1, <2>2 DEF CNPGCluster
<1>7. CASE ScheduledBackup
  <2>1. CASE pc = "backup" /\ ~PassOver(BackupReady)
    <3>1. pc' = "backupHealth" =>
              Visited' = Visited /\ (at' = at => ServicesComeLast')
      BY <2>1 DEF Visited, ServicePcs, ServicesComeLast, StatusInv
    <3>2. Current(BackupReady)
      BY <2>1 DEF Current
    <3> QED
      BY <1>1, <1>7, <2>1, <3>1, <3>2, ReconcileObjectStatus
      DEF ScheduledBackup
  <2>2. CASE pc = "backup" /\ PassOver(BackupReady)
    BY <1>3, <2>2, PassOverStatus DEF Current
  <2>3. CASE pc = "backupHealth"
    BY <1>3, <1>7, <2>3, CheckHealthStatus DEF ScheduledBackup, Current
  <2> QED
    BY <1>7, <2>1, <2>2, <2>3 DEF ScheduledBackup
<1>8. CASE Gateway
  <2>1. CASE pc = "gateway"
    <3>1. pc' = "gatewayHealth" =>
              Visited' = Visited /\ (at' = at => ServicesComeLast')
      BY <2>1 DEF Visited, ServicePcs, ServicesComeLast, StatusInv
    <3>2. Current(GatewayReady)
      BY <2>1 DEF Current
    <3> QED
      BY <1>1, <1>8, <2>1, <3>1, <3>2, ReconcileObjectStatus DEF Gateway
  <2>2. CASE pc = "gatewayHealth"
    BY <1>5, <1>8, <2>2, CheckHealthStatus DEF Gateway, Current
  <2> QED
    BY <1>8, <2>1, <2>2 DEF Gateway
<1> QED
  BY <1>6, <1>7, <1>8

\* The services keep the invariant.
LEMMA ServiceStatus ==
    ASSUME TypeOK, StatusInv, ServiceReconcile \/ ServiceHealthcheck
    PROVE  StatusInv'
<1>1. /\ {Config(at), Deploy(at), Svc(at)} \subseteq Keys
      /\ ServiceReady(at) \in Conds /\ at \in Services
  BY NameTypes DEF TypeOK
<1>2. pc \in ServicePcs /\ Current(ServiceReady(at))
  BY DEF ServiceReconcile, ServiceHealthcheck, ServicePcs, Current
<1>3. (IsEnabled(sb.mode[at]) => View(Deploy(at)) = "ready")
          => Backed(ServiceReady(at))
  BY <1>1, DistinctConds DEF Backed, Critical
<1>4. ASSUME pc' \in ServicePcs, UNCHANGED at
      PROVE  Visited' = Visited
  BY <1>2, <1>4 DEF Visited, ServicePcs
<1>5. ASSUME pc' \in ServicePcs, UNCHANGED <<at, pass>>
      PROVE  ServicesComeLast'
  BY <1>2, <1>5 DEF ServicesComeLast, StatusInv
<1>6. CASE ~IsEnabled(my.mode[at]) /\ PassOver(ServiceReady(at))
  BY <1>1, <1>2, <1>3, <1>6, PassOverStatus
<1>7. CASE /\ pc' = "deploy"
           /\ UNCHANGED <<api, owner, work, pass, at, queued, faults>>
           /\ PassFrame
  <2>1. \A o \in Keys : View(o)' = View(o)
    BY <1>7 DEF View, PassFrame
  <2> QED
    BY <1>2, <1>4, <1>5, <1>7, <2>1, GoesOn DEF ServicePcs
<1>8. ASSUME NEW k \in Keys, NEW want \in ObjStates, NEW next \in ServicePcs,
             ReconcileObject(k, want, next, ServiceReady(at))
      PROVE  StatusInv'
  <2>1. next \in Pcs /\ next # "idle"
    BY DEF ServicePcs, Pcs
  <2>2. \/ pc' = next /\ UNCHANGED <<work, pass, at>>
        \/ EndComponent(ServiceReady(at), "Error")
    BY <1>8 DEF ReconcileObject
  <2>3. (\E new : Write(new)) \/ UNCHANGED <<api, queued>>
    BY <1>8 DEF ReconcileObject
  <2>4. PassFrame /\ UNCHANGED cache /\ (queued => queued')
    <3>1. PassFrame /\ UNCHANGED cache
      BY <1>8 DEF ReconcileObject, PassFrame
    <3>2. queued => queued'
      BY <2>3 DEF Write
    <3> QED
      BY <3>1, <3>2
  <2>5. ~queued' => \A o \in Keys : View(o)' = View(o)
    <3>1. CASE UNCHANGED api
      BY <2>4, <3>1 DEF View
    <3> QED
      BY <2>3, <2>4, <3>1, QuietWrite
  <2>6. CASE pc' = next /\ UNCHANGED <<work, pass, at>>
    BY <1>2, <1>4, <1>5, <2>1, <2>4, <2>5, <2>6, GoesOn DEF ServicePcs
  <2>7. CASE EndComponent(ServiceReady(at), "Error")
    BY <1>1, <1>2, <2>4, <2>5, <2>7, EndsComponent
  <2> QED
    BY <2>2, <2>6, <2>7
<1>9. CASE ServiceReconcile
  BY <1>1, <1>6, <1>7, <1>8, <1>9, BuilderTypes
  DEF ServiceReconcile, ServicePcs
<1>10. CASE ServiceHealthcheck
  BY <1>1, <1>2, <1>3, <1>10, CheckHealthStatus DEF ServiceHealthcheck
<1> QED
  BY <1>9, <1>10

\* The List of the preflight checks leads on, or to the end of the pass.
LEMMA PreflightStatus ==
    ASSUME TypeOK, StatusInv, preflightChecks
    PROVE  StatusInv'
<1>1. pc = "preflight" /\ pc' \in {"cluster", "patchError"}
  BY DEF preflightChecks
<1>2. PassFrame /\ UNCHANGED <<work, pass, at, queued, api, cache>>
  BY DEF preflightChecks, PassFrame
<1>3. Visited' = Visited
  BY <1>1 DEF Visited, ServicePcs
<1>4. ServicesComeLast'
  BY <1>1, <1>2 DEF ServicesComeLast, StatusInv, ServicePcs
<1>5. \A k \in Keys : View(k)' = View(k)
  BY <1>2 DEF View
<1> QED
  BY <1>1, <1>2, <1>3, <1>4, <1>5, GoesOn

\* After the end of a pass nothing is left of it.
LEMMA DoneStatus ==
    ASSUME NEW err, NEW requeueAfter, Done(err, requeueAfter)
    PROVE  ServicesComeLast' /\ FlagsTellWork'
<1>1. pc' = "idle" /\ at' = 1 /\ pass' = NewPass
  BY DEF Done
<1>2. Visited' = {}
  BY <1>1 DEF Visited, ServicePcs
<1> QED
  BY <1>1, <1>2 DEF ServicesComeLast, FlagsTellWork, ServicePcs, NewPass

\* A pass that fails is retried.
LEMMA FailsStatus ==
    ASSUME StatusInv, NEW err, err, NEW requeueAfter, Done(err, requeueAfter)
    PROVE  StatusInv'
<1>1. pc' = "idle" /\ failing' /\ timer'
  BY DEF Done
<1>2. ServicesComeLast' /\ FlagsTellWork'
  BY DoneStatus
<1> QED
  BY <1>1, <1>2 DEF StatusInv, PassIsTrue, RestIsTrue

\* The pass that sends nothing new leaves a status that is true.
LEMMA FullPassStatus ==
    ASSUME TypeOK, StatusInv, pc = "patch", sb.uid # 0,
           NEW to \in Statuses, to.obs = my.gen, to.conds = work.conds,
           to.phase = derivePhase(pass),
           to.databaseReady = isConditionTrue(DatabaseReady),
           NEW sendConds \in BOOLEAN,
           status' = Merged(status, base, to, sendConds),
           sbEvent' = (sbEvent \/ sendConds \/ status' # status),
           NEW requeueAfter, Done(FALSE, requeueAfter),
           UNCHANGED <<sb, api, cache, queued>>
    PROVE  StatusInv'
<1>1. ServicesComeLast' /\ FlagsTellWork'
  BY DoneStatus
<1>2. pc' = "idle" /\ ~failing'
  BY DEF Done
<1>3. RestIsTrue'
  <2> SUFFICES ASSUME ~queued', ~sbEvent'
               PROVE  /\ status'.obs = sb'.gen
                      /\ (status'.phase = "Ready") = AllTrue(status')
                      /\ status'.databaseReady
                            = (status'.conds[DatabaseReady].reason = "Ready")
                      /\ status'.phase = "Ready" => \A c \in Conds : Backed(c)'
    BY <1>2 DEF RestIsTrue, AllTrue
  <2>1. ~sbEvent /\ ~sendConds /\ status' = status
    BY DEF TypeOK
  <2>2. /\ my = sb /\ base = status
        /\ \A c \in Visited : isConditionTrue(c) => Backed(c)
    BY <2>1 DEF StatusInv, PassIsTrue
  <2>3. /\ status'.obs = to.obs /\ status'.conds = to.conds
        /\ status'.phase = to.phase
        /\ status'.databaseReady = to.databaseReady
    BY <2>1, <2>2 DEF Merged
  <2>4. \A c : Backed(c)' <=> Backed(c)
    <3>1. \A k \in Keys : View(k)' = View(k)
      BY DEF View
    <3> QED
      BY <3>1, BackedLasts
  <2>5. /\ (derivePhase(pass) = "Ready") = AllTrue(work)
        /\ AllTrue(work) => Visited = Conds
    BY PhaseAndConditionsAgree DEF StatusInv
  <2>6. AllTrue(status') = AllTrue(work)
    BY <2>3 DEF AllTrue
  <2>7. AllTrue(work) => \A c \in Conds : Backed(c)
    BY <2>2, <2>5 DEF AllTrue, isConditionTrue
  <2> QED
    BY <2>2, <2>3, <2>4, <2>5, <2>6, <2>7 DEF isConditionTrue
<1> QED
  BY <1>1, <1>2, <1>3 DEF StatusInv, PassIsTrue

\* Both ends of a pass keep the invariant.
LEMMA PatchStatusStatus ==
    ASSUME TypeOK, StatusInv, PatchStatus
    PROVE  StatusInv'
<1> DEFINE to == [work EXCEPT !.phase = derivePhase(pass),
                              !.obs = my.gen,
                              !.databaseReady = isConditionTrue(DatabaseReady),
                              !.gatewayReady = isConditionTrue(GatewayReady)]
<1>1. CASE \E e : updateStatus(e, TRUE)
  <2> PICK e : updateStatus(e, TRUE)
    BY <1>1
  <2>1. \E out : Done(out # "ok" \/ sb.uid = 0 \/ TRUE, e.phase # "Error")
    BY DEF updateStatus
  <2> QED
    BY <2>1, FailsStatus
<1>2. CASE pc = "patch" /\ updateStatus(to, FALSE)
  <2>1. /\ to \in Statuses /\ to.obs = my.gen /\ to.conds = work.conds
        /\ to.phase = derivePhase(pass)
        /\ to.databaseReady = isConditionTrue(DatabaseReady)
    BY PhaseType DEF TypeOK, Statuses, Supabases, isConditionTrue
  <2> HIDE DEF to
  <2>2. PICK out \in {"ok", "undone", "lost"}, sendConds \in BOOLEAN :
           /\ IF sb.uid # 0 /\ out # "undone"
              THEN LET new == Merged(status, base, to, sendConds)
                   IN  /\ status' = new
                       /\ sbEvent' = (sbEvent \/ sendConds \/ new # status)
              ELSE UNCHANGED <<status, sbEvent>>
           /\ Done(out # "ok" \/ sb.uid = 0 \/ FALSE, to.phase # "Error")
    BY <1>2, Zenon DEF updateStatus
  <2>3. UNCHANGED <<sb, api, cache, queued>>
    BY <1>2 DEF updateStatus, kubeVars
  <2>4. CASE out # "ok" \/ sb.uid = 0
    BY <2>2, <2>4, FailsStatus
  <2>5. CASE out = "ok" /\ sb.uid # 0
    <3>1. Done(FALSE, to.phase # "Error")
      BY <2>2, <2>5, Zenon
    <3>2. /\ status' = Merged(status, base, to, sendConds)
          /\ sbEvent' = (sbEvent \/ sendConds \/ status' # status)
      BY <2>2, <2>5
    <3> QED
      BY <1>2, <2>1, <2>3, <2>5, <3>1, <3>2, FullPassStatus
  <2> QED
    BY <2>4, <2>5
<1> QED
  BY <1>1, <1>2, Zenon DEF PatchStatus

-----------------------------------------------------------------------------
(* The surroundings, and the theorems. *)

\* What the pass has found stays what it was while the worker does not move.
LEMMA WorkerRests ==
    ASSUME StatusInv, UNCHANGED workerVars
    PROVE  /\ ServicesComeLast' /\ FlagsTellWork'
           /\ Visited' = Visited
BY DEF StatusInv, workerVars, ServicesComeLast, FlagsTellWork, Visited,
       isConditionTrue

\* A step that leaves a wakeup keeps the invariant.
LEMMA WakesStatus ==
    ASSUME StatusInv, UNCHANGED workerVars, queued' \/ sbEvent'
    PROVE  StatusInv'
BY WorkerRests DEF StatusInv, PassIsTrue, RestIsTrue

\* So does one that leaves alone what the worker sees.
LEMMA SeesTheSame ==
    ASSUME StatusInv, UNCHANGED <<workerVars, sb, status, timer, failing>>,
           queued => queued', sbEvent => sbEvent',
           ~queued' => \A k \in Keys : View(k)' = View(k)
    PROVE  StatusInv'
<1>1. CASE queued' \/ sbEvent'
  BY <1>1, WakesStatus
<1>2. CASE ~queued' /\ ~sbEvent'
  <2>1. \A c : Backed(c)' <=> Backed(c)
    BY <1>2, BackedLasts
  <2>2. Visited' = Visited
    BY WorkerRests
  <2>3. PassIsTrue'
    BY <1>2, <2>1, <2>2
    DEF StatusInv, PassIsTrue, workerVars, isConditionTrue
  <2>4. RestIsTrue'
    BY <1>2, <2>1
    DEF StatusInv, RestIsTrue, workerVars, AllTrue
  <2> QED
    BY <2>3, <2>4, WorkerRests DEF StatusInv
<1> QED
  BY <1>1, <1>2

\* A restart ends the pass and queues the Supabase that there is.
LEMMA RestartStatus == ASSUME Restart PROVE StatusInv'
<1>1. pc' = "idle" /\ at' = 1 /\ pass' = NewPass
  BY DEF Restart
<1>2. Visited' = {}
  BY <1>1 DEF Visited, ServicePcs
<1>3. ServicesComeLast' /\ FlagsTellWork'
  BY <1>1, <1>2 DEF ServicesComeLast, FlagsTellWork, ServicePcs, NewPass
<1>4. ~queued' => sb'.uid = 0
  BY DEF Restart
<1> QED
  BY <1>1, <1>3, <1>4 DEF StatusInv, PassIsTrue, RestIsTrue

\* Every step keeps the invariant.
LEMMA NextStatusInv ==
    ASSUME TypeOK, WakeupInv, StatusInv, [Next]_vars
    PROVE  StatusInv'
<1>1. CASE StartReconcile
  BY <1>1, StartReconcileStatus
<1>2. CASE WorkerStep
  BY <1>2, PreflightStatus, CriticalStatus, ServiceStatus, PatchStatusStatus
  DEF WorkerStep
<1>3. CASE TimerFires \/ DeliverSupabase \/ \E kind \in Lagging : Deliver(kind)
  <2>1. queued' /\ UNCHANGED workerVars
    BY <1>3 DEF TimerFires, DeliverSupabase, Deliver
  <2> QED
    BY <2>1, WakesStatus
<1>4. CASE Restart
  BY <1>4, RestartStatus
<1>5. CASE User
  <2>1. sbEvent' /\ UNCHANGED workerVars
    BY <1>5
    DEF User, CreateSupabase, DeleteSupabase, EditSupabase, UserFrame
  <2> QED
    BY <2>1, WakesStatus
<1>6. CASE Cluster
  <2> PICK k \in Keys : CollectGarbage(k) \/ TurnsReady(k) \/ TurnsUnhealthy(k)
    BY <1>6 DEF Cluster
  <2>1. UNCHANGED <<sbVars, cache, workerVars, timer, failing>>
    BY DEF CollectGarbage, TurnsReady, TurnsUnhealthy, ClusterFrame
  <2>2. PICK new : Write(new)
    BY DEF CollectGarbage, TurnsReady, TurnsUnhealthy
  <2>3. queued => queued'
    BY <2>2 DEF Write
  <2>4. ~queued' => \A o \in Keys : View(o)' = View(o)
    BY <2>1, <2>2, QuietWrite
  <2> QED
    BY <2>1, <2>3, <2>4, SeesTheSame DEF sbVars
<1>7. CASE UNCHANGED vars
  <2>1. \A o \in Keys : View(o)' = View(o)
    BY <1>7 DEF vars, kubeVars, View
  <2> QED
    BY <1>7, <2>1, SeesTheSame DEF vars, sbVars, queueVars
<1> QED
  BY <1>1, <1>2, <1>3, <1>4, <1>5, <1>6, <1>7 DEF Next

\* The inductive invariant: a pass that nothing overtakes is about the current
\* Supabase and status, and what it has found so far holds to its end.
THEOREM StatusInvariant == Spec => []StatusInv
<1>1. Init => StatusInv
  BY InitStatusInv
<1>2. TypeOK /\ WakeupInv /\ StatusInv /\ [Next]_vars => StatusInv'
  BY NextStatusInv
<1> QED
  BY <1>1, <1>2, TypeCorrect, WakeupInvariant, PTL DEF Spec

\* What a Supabase says when nothing is under way is true, or a retry of the
\* reconcile that failed to say it is coming: although any call fails, caches
\* are behind, answers are lost, the operator restarts, and each pass sends
\* only what differs from a base that may be old.
THEOREM PlatformStatusIsTrue == Spec => []QuietStatusIsTrue
<1>1. StatusInv => QuietStatusIsTrue
  <2> SUFFICES ASSUME StatusInv, Quiet, sb.uid # 0
               PROVE  IF failing THEN timer
                      ELSE /\ status.obs = sb.gen
                           /\ (status.phase = "Ready") = AllTrue(status)
                           /\ status.databaseReady
                                 = (status.conds[DatabaseReady].reason = "Ready")
                           /\ status.phase = "Ready" =>
                                 /\ api[CLUSTER] = "ready"
                                 /\ api[GATEWAY] = "ready"
                                 /\ \A i \in Services : IsEnabled(sb.mode[i])
                                       => api[Deploy(i)] = "ready"
    BY DEF QuietStatusIsTrue
  <2>1. CASE failing
    BY <2>1 DEF StatusInv, RestIsTrue, Quiet
  <2>2. CASE ~failing
    <3>1. /\ status.obs = sb.gen
          /\ (status.phase = "Ready") = AllTrue(status)
          /\ status.databaseReady
                = (status.conds[DatabaseReady].reason = "Ready")
          /\ status.phase = "Ready" => \A c \in Conds : Backed(c)
      BY <2>2 DEF StatusInv, RestIsTrue, Quiet
    <3>2. \A k \in Keys : View(k) = api[k]
      BY DEF Quiet
    <3>3. ASSUME \A c \in Conds : Backed(c)
          PROVE  /\ View(CLUSTER) = "ready" /\ View(GATEWAY) = "ready"
                 /\ \A i \in Services :
                       IsEnabled(sb.mode[i]) => View(Deploy(i)) = "ready"
      BY <3>3, NameTypes DEF Backed
    <3> QED
      BY <2>2, <3>1, <3>2, <3>3, NameTypes
  <2> QED
    BY <2>1, <2>2
<1> QED
  BY <1>1, StatusInvariant, PTL

=============================================================================
