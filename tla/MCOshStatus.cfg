CONSTANTS
    BUTT = 5
    HZ = 3
    TickType = 32
    Late = 1
SPECIFICATION StatusSpec
INVARIANTS StatusTypeOK
PROPERTIES PhasesLast StateBlinks
