SPECIFICATION Spec
CONSTANTS
    a = a
    b = b
    g = g
    Ids = {a, b}
    Roles = {"Admin", "Validator"}
    NotifiedRole = "Validator"
    Groups = {g}
    RoleOf <- MCRoleOf
    GroupsOf <- MCGroupsOf
    GlobalAdmins = {}
    Events = {1}
    Watchers = {b}
    Requests = {1, 2}
    None = none
INVARIANTS
    SomebodyAdministers
PROPERTIES
    RecipientsAreTold
    BellForgets
CHECK_DEADLOCK FALSE
