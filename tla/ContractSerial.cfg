SPECIFICATION Spec
CONSTANTS
    Contracts = {c1, c2}
    SignatureRequests = {s1, s2}
    Requests = {h1}
    Replicas = {r1, r2}
    Null = Null
    MaxDeliveries = 2
SYMMETRY Symmetry
INVARIANTS AcceptanceTraceable
PROPERTIES SignedRequestKept ImplementsLedger
