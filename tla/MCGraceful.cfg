\* The consumer is not waited for: its completion is stored and never announced.
CONSTANTS
    Bookings = {b1}
    Workers = {w1, consumer}
    Consumer = consumer
    Owners = {o1}
    Runners = {r1}
    Specs = {plain}
    Numbers = {n1}
    None = None
    NoBooking = NoBooking
    Ignored = Ignored
    MaxVersion = 5
    MaxFaults = 0
    MaxPayments = 1
    MaxStops = 1
    Retries = TRUE
    EscrowStatuses = {"delivered"}
    Quote <- MCQuote
    Unscheduled <- MCUnscheduled
SPECIFICATION ServerSpec
INVARIANTS
    GracefulStopAnnounces
CHECK_DEADLOCK FALSE
