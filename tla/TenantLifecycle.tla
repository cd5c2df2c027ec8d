-------------------------- MODULE TenantLifecycle --------------------------
(***************************************************************************)
(* What the operator promises of a SupabaseTenant, without saying how: it  *)
(* takes hold of the tenant before it creates anything for it outside the  *)
(* tenant object, and lets go of a tenant only when that is being deleted  *)
(* and nothing is owned any more: everything is cleaned up again, or has   *)
(* been overlooked while the tenant was being deleted.                     *)
(*                                                                         *)
(* TenantHistory implements it under a refinement mapping.                 *)
(***************************************************************************)
CONSTANTS
    Belongings,   \* what a tenant owns outside its own object
    Optional      \* what a live tenant may be without, once it had it

VARIABLES
    tenant,   \* "none", "live" or "deleting"
    held,     \* the operator holds the tenant: it cannot disappear
    owned,    \* the belongings that exist and are not on their way out
    left      \* those of them that the operator has overlooked

vars == <<tenant, held, owned, left>>

Init == tenant = "none" /\ held = FALSE /\ owned = {} /\ left = {}

Create ==
    /\ tenant = "none"
    /\ tenant' = "live"
    /\ UNCHANGED <<held, owned, left>>

\* What an earlier tenant of the name has left is taken care of too.
Hold ==
    /\ tenant = "live" /\ ~held
    /\ held' = TRUE
    /\ owned' = owned \cup left /\ left' = {}
    /\ UNCHANGED tenant

\* A pass that began before the deletion may still create something.
Acquire(b) ==
    /\ held /\ b \notin owned
    /\ owned' = owned \cup {b}
    /\ UNCHANGED <<tenant, held, left>>

\* What was overlooked may be found by another try.
CleanUp(b) ==
    /\ \/ b \in owned /\ (tenant = "deleting" \/ b \in Optional)
       \/ b \in left
    /\ owned' = owned \ {b} /\ left' = left \ {b}
    /\ UNCHANGED <<tenant, held>>

Overlook(B) ==
    /\ tenant = "deleting"
    /\ owned' = owned \ B /\ left' = left \cup B
    /\ UNCHANGED <<tenant, held>>

\* A tenant that nobody holds may disappear at once.
Delete ==
    /\ tenant = "live"
    /\ tenant' \in IF held THEN {"deleting"} ELSE {"deleting", "none"}
    /\ UNCHANGED <<held, owned, left>>

\* Somebody else may hold the tenant too.
Release ==
    /\ tenant = "deleting" /\ held /\ owned = {}
    /\ held' = FALSE
    /\ tenant' \in {"deleting", "none"}
    /\ UNCHANGED <<owned, left>>

Disappear ==
    /\ tenant = "deleting" /\ ~held
    /\ tenant' = "none"
    /\ UNCHANGED <<held, owned, left>>

Next ==
    \/ Create \/ Hold \/ Delete \/ Release \/ Disappear
    \/ \E b \in Belongings : Acquire(b) \/ CleanUp(b)
    \/ \E B \in SUBSET owned : Overlook(B)

Spec == Init /\ [][Next]_vars
=============================================================================
