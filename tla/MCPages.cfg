\* One client pages through the lists of up to three bookings while they are created and change.
CONSTANTS
    Bookings = {b1, b2, b3}
    Clients = {client}
    Owners = {o1}
    Runners = {r1}
    Specs = {plain}
    Numbers = {n1, n2, n3}
    None = None
    NoBooking = NoBooking
    Quote <- MCQuote
    Unscheduled <- MCUnscheduled
    Times = {1, 2, 3}
    MaxLimit = 1
    DefaultLimit = 1
    Limits = {0, 3}
    MaxDeclines = 1
    MaxAssigned = 1
SPECIFICATION QuerySpec
SYMMETRY MCSymmetry
INVARIANTS
    QueryTypeOK
    NoneMissed
    AnswersFull
PROPERTIES
    StatsNeverDrop
CHECK_DEADLOCK FALSE
