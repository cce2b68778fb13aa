SPECIFICATION FairSpec
CONSTANTS
    Handlers = {h1, h2}
    Files = {f1}
    Types = {"piece_identite"}
    ProductCode = "navigo_liberte_plus"
    Decisions = {"accepted", "refused"}
    Null = Null
PROPERTY PendingSettles
