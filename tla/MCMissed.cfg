\* A runner declines a booking between two pages of his list.
CONSTANTS
    Bookings = {b1, b2}
    Clients = {client}
    Owners = {o1}
    Runners = {r1}
    Specs = {plain}
    Numbers = {n1, n2}
    None = None
    NoBooking = NoBooking
    Quote <- MCQuote
    Unscheduled <- MCUnscheduled
    Times = {1, 2}
    MaxLimit = 2
    DefaultLimit = 1
    Limits = {1}
    MaxDeclines = 1
    MaxAssigned = 2
SPECIFICATION QuerySpec
SYMMETRY MCSymmetry
INVARIANTS
    AssignedSeen
CHECK_DEADLOCK FALSE
