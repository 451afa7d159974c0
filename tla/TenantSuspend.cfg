CONSTANTS
    Tenants = {a}
    Sessions = {s1, s2}
    MaxEvents = 3
SPECIFICATION Spec
CHECK_DEADLOCK FALSE
PROPERTIES
    StatusIsSet
