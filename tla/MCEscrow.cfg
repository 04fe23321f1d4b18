\* One booking: redelivery after crashes, escrow at any time, an owner who
\* confirms meanwhile.
CONSTANTS
    Bookings = {b1}
    Workers = {w1, w2, consumer}
    Consumer = consumer
    Owners = {o1}
    Runners = {r1}
    Specs = {plain}
    Numbers = {n1}
    None = None
    NoBooking = NoBooking
    Ignored = Ignored
    MaxVersion = 6
    MaxFaults = 1
    MaxPayments = 2
    Retries = TRUE
    EscrowStatuses <- MCStatuses
    Quote <- MCQuote
    Unscheduled <- MCUnscheduled
SPECIFICATION ConsumerSpec
SYMMETRY MCSymmetry
INVARIANTS
    ConsumerTypeOK
    OffsetCoversCompleted
    CompletedOnce
PROPERTIES
    ImplementsService
CHECK_DEADLOCK FALSE
