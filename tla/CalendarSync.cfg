CONSTANTS
    Uid = {u1}
    Event <- MCEvent
    Importer = {cron, panel}
    Cron = cron
    Request = {p1}
    Booking = {b1}
    Stay <- MCStay
    BlockRange <- MCBlockRange
    Null = null
SPECIFICATION Spec
INVARIANTS TypeOK AnsweredHoldsWereFree
PROPERTIES  HostBlocksSurvive DoubleSaleIsRaised CatchesUp
