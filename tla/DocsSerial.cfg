SPECIFICATION Spec
CONSTANTS
    Handlers = {h1}
    Files = {f1, f2, f3, f4}
    Types = {"piece_identite", "mandat_sepa"}
    ProductCode = "navigo_liberte_plus"
    Decisions = {"accepted", "refused"}
    Null = Null
SYMMETRY Symmetry
INVARIANTS ReadyFileVouched
PROPERTIES ReadyFileKept
