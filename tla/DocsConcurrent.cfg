SPECIFICATION Spec
CONSTANTS
    Handlers = {h1, h2}
    Files = {f1, f2, f3}
    Types = {"piece_identite", "mandat_sepa"}
    ProductCode = "navigo_liberte_plus"
    Decisions = {}
    Null = Null
SYMMETRY Symmetry
INVARIANTS GateNotMissed OpenedOnEvidence DocumentsBounded
