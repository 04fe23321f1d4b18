\* Two bookings and a loop that retries: the message of a booking its owner
\* has confirmed keeps the loop from the other one.
CONSTANTS
    Bookings = {b1, b2}
    Workers = {w1, consumer}
    Consumer = consumer
    Owners = {o1}
    Runners = {r1}
    Specs = {plain}
    Numbers = {n1, n2}
    None = None
    NoBooking = NoBooking
    Ignored = Ignored
    MaxVersion = 5
    MaxFaults = 0
    MaxPayments = 2
    Retries = TRUE
    EscrowStatuses = {"delivered"}
    Quote <- MCQuote
    Unscheduled <- MCUnscheduled
SPECIFICATION FairConsumerSpec
PROPERTIES
    EscrowCompletes
CHECK_DEADLOCK FALSE
