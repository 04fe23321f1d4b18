------------------------- MODULE MCBookingService -------------------------
(***************************************************************************)
(* Instances of BookingService for TLC.                                    *)
(***************************************************************************)
EXTENDS BookingService, TLC

MCQuote == [s \in Specs |-> 7]
MCUnscheduled == [s \in Specs |-> s]

MCSymmetry == Permutations(Workers) \cup Permutations(Runners)
=============================================================================
