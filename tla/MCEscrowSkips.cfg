\* Two bookings and a loop that drops messages that fail: without failures
\* the escrow of each still completes it, and every change is announced.
CONSTANTS
    Bookings = {b1, b2}
    Workers = {w1, consumer}
    Consumer = consumer
    Owners = {o1}
    Runners = {r1}
    Specs = {plain}
    Numbers = {n1, n2}
    None = None
    NoBooking = NoBooking
    Ignored = Ignored
    MaxVersion = 5
    MaxFaults = 0
    MaxPayments = 2
    Retries = FALSE
    EscrowStatuses = {"delivered"}
    Quote <- MCQuote
    Unscheduled <- MCUnscheduled
SPECIFICATION FairConsumerSpec
PROPERTIES
    EscrowCompletes
    ChangesAnnounced
CHECK_DEADLOCK FALSE
