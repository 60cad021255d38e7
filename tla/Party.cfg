SPECIFICATION Spec
CONSTANTS
    Games = {g1, g2}
    Players = {a, b, c}
    None = None
    MaxMember = 3
    MaxStep = 5
    MaxMove = 1
SYMMETRY PartySymmetry
INVARIANTS TypeOK Converged OneParty
CHECK_DEADLOCK FALSE
