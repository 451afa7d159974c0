--------------------------- MODULE Administration ---------------------------
(***************************************************************************)
(* What the administrators of the service decide: the policy of a project  *)
(* with the grants behind it, and the status of an organization and its    *)
(* tenants.  The two share no row, so a behavior steps one of them; what   *)
(* holds of the sum holds of each.                                         *)
(***************************************************************************)
EXTENDS AdminPolicy

CONSTANTS Tenants, TenantSessions, MaxTenantEvents

VARIABLES
    component,                             \* the one a behavior steps
    tenantStatus, operating, tenantEvents  \* the state of TenantStatus

T == INSTANCE TenantStatus WITH
        Sessions <- TenantSessions, MaxEvents <- MaxTenantEvents,
        status <- tenantStatus, session <- operating, events <- tenantEvents

tvars == <<tenantStatus, operating, tenantEvents>>
dvars == <<component, vars, tvars>>

AdministrationInit == component \in {"policy", "tenants"} /\ Init /\ T!Init
AdministrationNext ==
    /\ UNCHANGED component
    /\ \/ component = "policy" /\ Next /\ UNCHANGED tvars
       \/ component = "tenants" /\ T!Next /\ UNCHANGED vars
AdministrationSpec == AdministrationInit /\ [][AdministrationNext]_dvars

-----------------------------------------------------------------------------
\* A key of an active tenant resolves exactly while the organization's last
\* event is not a suspension, and the statuses and sessions behind it keep
\* their types (TenantStatus).
OrganizationBinds == T!TypeOK /\ T!OrganizationBinds
=============================================================================
