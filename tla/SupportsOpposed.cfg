SPECIFICATION SupportsSpec
CONSTANTS
    Null = Null
    Rights = {r1}
    Handlers = {h1}
    Identities = {i1}
    CreatedAs = {"LOST"}
    MaxSupports = 1
    MaxCases = 4
INVARIANTS OpposedStaysOut
CHECK_DEADLOCK FALSE
