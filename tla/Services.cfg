SPECIFICATION Spec
CONSTANTS
    Parts = {"sign_in", "exchange", "accounts", "pages", "advisor", "foyer", "apis", "chat"}
    Persons = {u1}
    Pages <- MCPages
    Queries = {"contractId"}
    Links <- MCLinks
    Home <- MCHome
    MaxTrips = 2
    Browsers <- MCBrowsers
    Emails = {e1, e2}
    Subjects = {g}
    Guardian = g
    MaxIdentities = 3
    MaxRequests = 2
    MaxAccountCalls = 6
    Dossiers = {c1, c2}
    RequiredTypes <- MCRequiredTypes
    MaxHops = 4
    MaxPending = 1
    Beneficiaries = {infant, pupil, student, graduate, adult, entitled, elder}
    Age <- MCAge
    CurrentProfile <- MCCurrentProfile
    UserAccounts = {a1, a2}
    People = {parent, child, grandmother, other}
    AgeOf <- MCAgeOf
    Self <- MCSelf
    Linked0 <- MCLinked0
    Held0 <- MCHeld0
    MaxLoads = 2
    Departments = {"75", "94", "69"}
    Calls = {h1, h2}
    Requests = {r1, r2, r3}
    Questions <- MCQuestions
    MaxDeltas = 2
    MaxBuilds = 2
    Contracts = {k1, k2}
    NSigners = 2
    Null = Null
    None = None
    e1 = e1
    e2 = e2
    g = g
    c1 = c1
    c2 = c2
    infant = infant
    pupil = pupil
    student = student
    graduate = graduate
    adult = adult
    entitled = entitled
    elder = elder
    a1 = a1
    a2 = a2
    parent = parent
    child = child
    grandmother = grandmother
    other = other
SYMMETRY Symmetry
INVARIANTS ApisAgree RealIdentities LandsOnAsked SignedInHasIdentity OneOfEach PagesLeadOn
    OfferedIsAccepted PageShowsItsFile ShownIsHousehold AnswersSound AnswersCoherent
PROPERTIES ImplementsOrders FileFollowsAnswers
CHECK_DEADLOCK FALSE
