SPECIFICATION FairPage
CONSTANTS
    Contracts = {c1}
    SignatureRequests = {s1, s2}
    Requests = {h1}
    Replicas = {r1}
    Null = Null
    MaxDeliveries = 1
PROPERTIES SignedEventuallyPayable ClosedEventuallySignable
