SPECIFICATION AccountsSpec
CONSTANTS
    Browsers = {b1}
    Emails = {e1}
    Subjects = {g}
    Guardian = g
    Persons = {p1}
    MaxIdentities = 2
    MaxRequests = 1
    MaxAccountCalls = 4
    Null = Null
    None = None
INVARIANTS RolesAsSet
CHECK_DEADLOCK FALSE
