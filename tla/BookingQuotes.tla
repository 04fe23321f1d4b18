--------------------------- MODULE BookingQuotes ---------------------------
(***************************************************************************)
(* The booking service with its pricing: what can be asked for is a        *)
(* request of module Pricing, its price is the one CreateBooking computes, *)
(* and RebookBooking computes it again from the columns of the row, in     *)
(* which there is everything but the schedule.                             *)
(***************************************************************************)
EXTENDS BookingService, Pricing

ASSUME QuoteAssumption ==
    /\ Specs \subseteq Request
    /\ Quote = [q \in Specs |-> QuoteOf(q)]
    /\ Unscheduled = [q \in Specs |-> [q EXCEPT !.scheduled = FALSE]]

Stored == {b \in Bookings : Present(b)}
Asked(b) == rows[b].bk.spec
Price(b) == rows[b].bk.estimatedPrice

(* How far apart the two addresses are: NaN stands for half a great circle.*)
HalfCircle == 20015087
Metres(d) == IF d = NaN THEN HalfCircle ELSE d

(* Every stored booking is one the pricing understands: a known pet of     *)
(* positive weight, in a crate that has room for a fifth more than it.     *)
RequestsSound ==
    \A b \in Stored :
        /\ Asked(b).petType \in PetTypes
        /\ DetermineCrateRequirement(Asked(b)).minimumWeightCapacity
             > 5 * Asked(b).weight

(* Of two bookings of the same pet type the one that is no lighter and     *)
(* travels no shorter is not the cheaper one, across the limits of the     *)
(* crate sizes, and whether they were made by creating or by rebooking:    *)
(* the schedule, which rebooking drops, must not matter to the price.      *)
PricesMonotonic ==
    \A b, c \in Stored :
        /\ Asked(b).petType = Asked(c).petType
        /\ Asked(b).weight <= Asked(c).weight
        /\ Metres(Asked(b).distance) <= Metres(Asked(c).distance)
        => Price(b) <= Price(c)

(* pricing.go:30, 31: the base fare and the distance are charged, also for *)
(* a distance that came out as NaN (where int64 of NaN is negative, no     *)
(* such booking is stored).                                                *)
DistancePaid ==
    \A b \in Stored : Price(b) >= BaseFare + Metres(Asked(b).distance) \div 4
=============================================================================
