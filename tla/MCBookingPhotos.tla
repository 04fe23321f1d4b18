-------------------------- MODULE MCBookingPhotos --------------------------
(***************************************************************************)
(* Instances of BookingPhotos for TLC.                                     *)
(***************************************************************************)
EXTENDS BookingPhotos, TLC

MCQuote == [s \in Specs |-> 7]
MCUnscheduled == [s \in Specs |-> s]

MCSymmetry == Permutations(Workers)
=============================================================================
