CONSTANTS
    Year = 12
    Null = null
    RuleId = {r1, r2, r3}
    ExtraId = {x1}
    Request = {q1}
    Price = {9950, 20020}
    Season <- MCSeason
    Floor = {2}
    Length = {1, 2}
    ExtraKey = {"pool"}
    ExtraRow <- MCExtraRow
    Patch <- MCPatch
    Fixed <- MCFixed
    Stay <- MCStay
    Party = {10}
    Hour <- MCHour
SPECIFICATION Spec
SYMMETRY Symmetry
INVARIANTS TypeOK RateIsDetermined LengthsAllowed SplitStayCostsTheSame RefundWithinQuote
