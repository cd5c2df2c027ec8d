------------------------- MODULE MCTenantReconciler -------------------------
(***************************************************************************)
(* Instances of TenantReconciler for TLC, and what the documentation says  *)
(* of the controller that its code does not do.                            *)
(***************************************************************************)
EXTENDS TenantReconciler

\* Everything has been delivered and nothing is in hand; an object of a kind
\* that lags is in the cache as cached has it.
AtRest(tenant, report, objects, cached) ==
    /\ cr = tenant /\ seenCR = tenant /\ crEvent = FALSE
    /\ status = report /\ seenStatus = report
    /\ api = objects
    /\ cache = [k \in Keys |-> IF k[1] \in Lagging THEN cached[k] ELSE objects[k]]
    /\ pgdb = "exists" /\ orphaned = FALSE
    /\ pc = "idle" /\ at = 1
    /\ my = NoCR /\ base = NoStatus /\ work = NoStatus
    /\ rvOK = FALSE /\ allReady = TRUE
    /\ queued = FALSE /\ timer = tenant.present
    /\ faults = 0 /\ edits = 0 /\ lives = 1 /\ crashes = 0

\* What a pass that has gone well leaves.
Provisioned ==
    [k \in Keys |-> CASE k = NS                -> "active"
                      [] k = DATABASE          -> "applied"
                      [] k = JOB               -> "succeeded"
                      [] k[1] = "deploy"       -> "ready"
                      [] OTHER                 -> "present"]

Reports(phase) == [phase |-> phase, obs |-> 1, endpoint |-> TRUE,
                   conds |-> [c \in Conds |->
                                 IF c = ReadyCond THEN Unset
                                 ELSE [reason |-> "Ready", gen |-> 1]]]

\* A tenant that is Ready, and one that is Suspended.
LiveTenant == [NoCR EXCEPT !.present = TRUE, !.fin = TRUE, !.gen = 1]

ReadyStart ==
    AtRest(LiveTenant, Reports("Ready"), Provisioned, Provisioned)

SuspendedStart ==
    LET down == [k \in Keys |-> CASE k = ROUTE      -> "absent"
                                  [] k[1] = "deploy" -> "zero"
                                  [] OTHER           -> Provisioned[k]]
    IN  AtRest([LiveTenant EXCEPT !.susp = TRUE], Reports("Suspended"), down, down)

\* A tenant that has just been finalized: its namespace is on its way out, and
\* the caches that lag still show what it had.
GoneStart ==
    AtRest(NoCR, NoStatus,
           [Provisioned EXCEPT ![NS] = "terminating", ![ROUTE] = "absent",
                               ![DATABASE] = "absent", ![JOB] = "absent"],
           Provisioned)

\* What happens to a tenant that was Ready or Suspended.
FairSpecFromRest == (ReadyStart \/ SuspendedStart) /\ [][Next]_vars /\ Fairness

\* docs/admin-guide.md: "Deleting a `SupabaseTenant` triggers the finalizer,
\* which cleans up routing, the tenant database, and the tenant namespace in
\* reverse order".  The finalizer comes off once they are cleaned up.
FinalizerCleansUp ==
    [][cr.present /\ ~cr'.present /\ cr.fin => Cleaned]_vars
=============================================================================
