---------------------------- MODULE MCTenantFleet ----------------------------
(***************************************************************************)
(* Instances of TenantFleet for TLC, and what the documentation says of    *)
(* the operator that its code does not do.                                 *)
(***************************************************************************)
EXTENDS TenantFleet

\* docs/admin-guide.md, "Secret rotation": delete the secret "and the operator
\* will regenerate it on the next reconciliation cycle".  Once the pods have
\* the new password the services can log in: it is the roles' password.
ServicesLogIn ==
    \A t \in Tenants :
        <>[]Wanted(t, FALSE) => <>[](deploy[Id(t)].runs = roles)
=============================================================================
