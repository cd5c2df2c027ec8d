------------------------ MODULE MCPlatformReconciler ------------------------
(***************************************************************************)
(* Instances of PlatformReconciler for TLC, and what comments and          *)
(* documentation say of the controller that its code does not do.          *)
(***************************************************************************)
EXTENDS PlatformReconciler

\* A platform that has been Ready for a while: a pass over it changes nothing.
ReadyFor(m) ==
    LET s  == [uid |-> 1, gen |-> 1, backup |-> FALSE, mode |-> m]
        st == [phase |-> "Ready", obs |-> 1,
               conds |-> [c \in Conds |-> [reason |-> "Ready", gen |-> 1]],
               databaseReady |-> TRUE, gatewayReady |-> TRUE]
        up(k) == CASE k[1] \in {"cluster", "gateway"} -> "ready"
                   [] k[1] = "deploy" /\ IsEnabled(m[k[2]]) -> "ready"
                   [] k[1] = "svc" /\ IsEnabled(m[k[2]]) -> "present"
                   [] k[1] = "config" /\ k[2] \in Configured
                                      /\ IsEnabled(m[k[2]]) -> "present"
                   [] OTHER -> "absent"
    IN  /\ sb = s /\ seenSB = s /\ status = st /\ seenStatus = st
        /\ sbEvent = FALSE
        /\ api = [k \in Keys |-> up(k)] /\ cache = api
        /\ owner = [k \in Keys |-> IF up(k) = "absent" THEN 0 ELSE 1]
        /\ pc = "idle" /\ at = 1
        /\ my = NoSupabase /\ base = NoStatus /\ work = NoStatus
        /\ pass = NewPass
        /\ queued = FALSE /\ timer = TRUE /\ failing = FALSE
        /\ faults = 0 /\ edits = 0 /\ lives = 1 /\ deletes = 0 /\ crashes = 0

ReadyInit == \E m \in [Services -> Modes \ {"zero"}] : ReadyFor(m)

\* What happens to a platform that was Ready.
FairSpecFromReady == ReadyInit /\ [][Next]_vars /\ Fairness

\* When a critical component has an error the services are skipped, and
\* supabase_controller.go says "Mark downstream components as unknown since we
\* skipped them": their conditions are not True.
DownstreamIsUnknown ==
    (\E c \in Critical : status.conds[c].reason = "Error") =>
        \A i \in Services : status.conds[ServiceReady(i)].reason # "Ready"

\* A Supabase that is left alone becomes Ready once calls no longer fail.
PlatformComesUp == <>[]Wanted => <>[](status.phase = "Ready")
=============================================================================
