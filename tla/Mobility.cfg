SPECIFICATION Spec
CONSTANTS
    Parts = {"supports", "journeys", "profile", "registry", "access"}
    Null = Null
    Handlers = {h1, h2}
    Rights = {r1}
    Identities <- MCIdentities

    CreatedAs = {"LOST", "STOLEN"}
    MaxSupports = 3
    MaxCases = 2

    Stations = {"la-defense", "chatelet", "bastille"}
    Instants = {0, 5, 12}
    MaxValidations = 3

    Tabs = {t1, t2}
    Subscriptions = {"lea", "tom"}
    Names <- MCNames
    Holder <- MCHolder
    NameOf <- MCNameOf
    MaxContracts = 2

    Wallets = {a1, a2}
    Supports = {s1, s2}
    Holders = {p1, p2}
    MaxTime = 2

    mia = mia
    agent = agent
    Accounts <- MCAccounts
    Admins <- MCAdmins
    OwnerOf <- MCOwnerOf
    Types <- MCTypes
    MaxRows = 3
SYMMETRY Symmetry
INVARIANTS CirculationBounded ForkWidth AnomalyJustified AcceptedSpaced
    ProfileFollowsSubscriptions MirrorAgrees ActsPermitted
PROPERTIES ReturnedOnDecision RightsFinal RevocationFinal
CHECK_DEADLOCK FALSE
