-------------------------- MODULE MCTenantHistory --------------------------
(***************************************************************************)
(* Instances of TenantHistory for TLC: from the start, and from a tenant   *)
(* that has been running for a while or has just gone.                     *)
(***************************************************************************)
EXTENDS TenantHistory, MCTenantReconciler

\* Two troubles, of which a recreation is two.
WithinBudget == faults' + edits' + 2 * (lives' - 1) <= 2

RunningSpec ==
    /\ ReadyStart \/ SuspendedStart \/ GoneStart
    /\ missed = {} /\ misread = {}
    /\ [][HistoryNext /\ WithinBudget]_hvars
=============================================================================
