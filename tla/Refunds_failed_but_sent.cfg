CONSTANTS
    Refund = {r1, r2}
    Request = {q1}
    Amount = {1, 2}
    Price = {2}
    Charge = 2
    Null = null
SPECIFICATION Spec
INVARIANTS FailedReturnedNothing
