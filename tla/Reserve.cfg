\* No symmetry: it is unsound for liveness.  A guest may stop clicking on any
\* page, and the site then stays as it is.
CONSTANTS
    Stay = {s1, s2}
    Short = {s2}
    MaxGuests = 2
    Link <- MCLink
    MaxHolds = 2
    MaxTerms = 1
    MaxClicks = 2
    Polls = 2
    Null = null
    Lost = lost
    Gone = gone
SPECIFICATION Spec
INVARIANTS TypeOK CardPriceIsForTheDates CheckoutPriceIsForTheStay FigureIsCharged
PROPERTIES EveryPageAnswers
CHECK_DEADLOCK FALSE
