CONSTANTS
    build = build
    deploy = deploy
    Principals = {p1}
    Sessions = {s1, s2}
    Actions = {build, deploy}
    Mandatory = {deploy}
    BaseLevel <- MCBaseLevel
    MaxLevel = 1
    Tenants <- OneTenant
    TenantSessions = {u1, u2}
    MaxTenantEvents = 3
    Txns = {t1, t2}
    RequestMaps <- MCMaps
    RequestLevels = {0, 1}
SPECIFICATION AdministrationSpec
CHECK_DEADLOCK FALSE
CONSTRAINT OneSessionBesideChanges
SYMMETRY Symmetry
INVARIANTS
    TypeOK
    LedgerReplaysToGrants
    LedgerExplainsPolicy
    MandatoryStaysGated
    OrganizationBinds
PROPERTIES
    RecordedDecisionIsCurrent
    OperatorsOnlyTighten
