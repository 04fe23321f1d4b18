\* Up to three photos by two workers, of any type and URL, before and after their booking is there.
CONSTANTS
    Bookings = {b1}
    Workers = {w1, w2}
    Owners = {o1}
    Runners = {r1}
    Specs = {plain}
    Numbers = {n1}
    None = None
    NoBooking = NoBooking
    Quote <- MCQuote
    Unscheduled <- MCUnscheduled
    Kinds = {"pickup", "delivery", "selfie"}
    Urls = {url}
    NoUrl = NoUrl
    MaxPhotos = 3
    MaxFaults = 2
    MaxDeclines = 1
SPECIFICATION PhotosSpec
SYMMETRY MCSymmetry
INVARIANTS
    PhotosTypeOK
    ToldIfStored
CHECK_DEADLOCK FALSE
