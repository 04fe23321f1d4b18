\* Three workers race over one booking through its whole life, with two faults.
CONSTANTS
    Bookings = {b1}
    Workers = {w1, w2, w3}
    Owners = {o1}
    Runners = {r1, r2}
    Specs = {plain}
    Numbers = {n1}
    None = None
    NoBooking = NoBooking
    MaxVersion = 7
    MaxFaults = 2
    Quote <- MCQuote
    Unscheduled <- MCUnscheduled
SPECIFICATION Spec
SYMMETRY MCSymmetry
INVARIANTS
    RowsConsistent
    VersionCountsChanges
    HeldChangesApply
    EventsTruthful
    EventsUnique
    TerminalEventsFinal
    AcceptsSeparatedByDeclines
    RunnerDereferenced
    LostOnlyByFaults
PROPERTIES
    TerminalIsFinal
    RunnerKept
    ImplementsLifecycle
CHECK_DEADLOCK FALSE
