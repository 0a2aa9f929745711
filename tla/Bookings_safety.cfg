CONSTANTS
    Booking = {b1, b2}
    Worker = {w1}
    Job = {}
    Null = null
    Stay <- TwoNights
    BlockRange = {}
    Total = {100}
    HoldTtl = 0
    PanelTtl = 1
    Lookback = 1
    MaxTime = 1
SPECIFICATION Spec
SYMMETRY Symmetry
INVARIANTS TypeOK FreeIsSellable
PROPERTIES ImplementsLedger
