\* Two bookings of two owners that share the booking numbers, of requests on
\* both sides of every limit of the pricing, and two workers with one fault.
CONSTANTS
    Bookings = {b1, b2}
    Workers = {w1, w2}
    Owners = {o1, o2}
    Runners = {r1}
    Numbers = {n1, n2}
    None = None
    NoBooking = NoBooking
    NaN = NaN
    NaNCents <- MCAmd64
    Specs <- MCSpecs
    MaxVersion = 2
    MaxFaults = 1
    Quote <- MCQuote
    Unscheduled <- MCUnscheduled
SPECIFICATION Spec
SYMMETRY MCSymmetry
INVARIANTS
    TypeOK
    NumbersUnique
    RequestsSound
    PricesMonotonic
    DistancePaid
PROPERTIES
    ImplementsLifecycle
CHECK_DEADLOCK FALSE
