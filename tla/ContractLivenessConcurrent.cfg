SPECIFICATION FairPage
CONSTANTS
    Contracts = {c1}
    SignatureRequests = {s1}
    Requests = {h1, h2}
    Replicas = {r1}
    Null = Null
    MaxDeliveries = 0
PROPERTIES NoStuckSignature
