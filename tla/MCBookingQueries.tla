------------------------- MODULE MCBookingQueries -------------------------
(***************************************************************************)
(* Instances of BookingQueries for TLC.                                    *)
(***************************************************************************)
EXTENDS BookingQueries, TLC

MCQuote == [s \in Specs |-> 7]
MCUnscheduled == [s \in Specs |-> s]

MCSymmetry ==
    Permutations(Bookings) \cup Permutations(Numbers) \cup Permutations(Runners)
=============================================================================
