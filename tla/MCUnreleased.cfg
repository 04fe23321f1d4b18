\* A booking completed without its escrow being released.
CONSTANTS
    Bookings = {b1}
    Workers = {w1, consumer}
    Consumer = consumer
    Owners = {o1}
    Runners = {r1}
    Specs = {plain}
    Numbers = {n1}
    None = None
    NoBooking = NoBooking
    Ignored = Ignored
    MaxVersion = 5
    MaxFaults = 0
    MaxPayments = 2
    Retries = TRUE
    EscrowStatuses <- MCStatuses
    Quote <- MCQuote
    Unscheduled <- MCUnscheduled
SPECIFICATION ConsumerSpec
INVARIANTS
    CompletedAfterRelease
CHECK_DEADLOCK FALSE
