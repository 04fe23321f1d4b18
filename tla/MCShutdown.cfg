\* Two stops and a failure, at any moment, with two HTTP workers and the
\* consumer busy: the server ends, starts again and completes what was released.
CONSTANTS
    Bookings = {b1}
    Workers = {w1, w2, consumer}
    Consumer = consumer
    Owners = {o1}
    Runners = {r1}
    Specs = {plain}
    Numbers = {n1}
    None = None
    NoBooking = NoBooking
    Ignored = Ignored
    MaxVersion = 5
    MaxFaults = 1
    MaxPayments = 1
    MaxStops = 2
    Retries = TRUE
    EscrowStatuses = {"in_progress", "delivered"}
    Quote <- MCQuote
    Unscheduled <- MCUnscheduled
SPECIFICATION FairServerSpec
INVARIANTS
    DrainAnnounces
    OffsetCoversCompleted
PROPERTIES
    StopsInTime
    CompletesAcrossStops
CHECK_DEADLOCK FALSE
