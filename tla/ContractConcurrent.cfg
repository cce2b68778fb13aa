SPECIFICATION Spec
CONSTANTS
    Contracts = {c1}
    SignatureRequests = {s1, s2}
    Requests = {h1, h2}
    Replicas = {r1}
    Null = Null
    MaxDeliveries = 1
SYMMETRY Symmetry
INVARIANTS PaymentNeedsConsent ActivationFollowsPayment SignatureFollowsDocuments
PROPERTIES ImplementsLedger
