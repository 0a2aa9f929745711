\* No symmetry: it is unsound for liveness.  Lookback covers the whole clock.
CONSTANTS
    Booking = {b1, b2}
    Worker = {w1}
    Job = {cron}
    Null = null
    Stay <- OneNight
    BlockRange = {}
    Total = {100}
    HoldTtl = 0
    PanelTtl = 0
    Lookback = 1
    MaxTime = 1
SPECIFICATION FairSpec
PROPERTIES PaidIsSettled
