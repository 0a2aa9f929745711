CONSTANTS
    Refund = {r1, r2}
    Request = {q1, q2}
    Amount = {1, 2}
    Price = {2, 3}
    Charge = 2
    Null = null
SPECIFICATION Spec
SYMMETRY Symmetry
INVARIANTS TypeOK EveryDollarIsOnTheLedger RecordedIsReal
PROPERTIES ImplementsTransfers
