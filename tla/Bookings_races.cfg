CONSTANTS
    Booking = {b1, b2}
    Worker = {w1, w2}
    Job = {}
    Null = null
    Stay <- ShiftedStays
    BlockRange <- SecondNight
    Total = {100}
    HoldTtl = 0
    PanelTtl = 1
    Lookback = 1
    MaxTime = 1
SPECIFICATION Spec
SYMMETRY Symmetry
INVARIANTS NoDoubleSale ConfirmedIsPaid
PROPERTIES OnlyHostEndsStay PaidHoldIsNotReleased
